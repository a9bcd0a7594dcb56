SPECIFICATION BlockSpec
CONSTANTS
  KeyBits = 1
  Schemas <- Tables
  Jobs <- NumpyJobs
INVARIANT
  BlocksAreBounded
CHECK_DEADLOCK FALSE
