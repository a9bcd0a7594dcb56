SPECIFICATION CodecsSpec
CONSTANTS
  BufSize = 3
  Flag = 2
  Items <- ItemsOfAllKinds
  MaxItems = 2
  KeyBits = 1
  Schemas <- Tables
  Jobs <- AllJobs
  Base = 4
  WordSize = 32
  Quad = 4
  Undecodable = {9}
  Method = 130
  Inputs <- AllInputs
INVARIANTS
  ReaderInv
  WriterInv
  LinkInv
  RoundTrip
  VarintsAreRead
  LargeIntsAreRead
  FixedStringsAreRead
  CorruptIsNeverRead
  ArrivesAsGiven
  RaggedIsRefused
  RowsCounted
  OnlyNumpyExceeds
  BlockInv
PROPERTIES
  ReadReturns
  ImplementsByteStream
CHECK_DEADLOCK FALSE
