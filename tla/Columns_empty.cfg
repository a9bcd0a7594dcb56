SPECIFICATION BlockSpec
CONSTANTS
  KeyBits = 1
  Schemas <- Tables
  Jobs <- TableJobs
INVARIANT
  NothingForNoRows
CHECK_DEADLOCK FALSE
