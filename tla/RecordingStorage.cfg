SPECIFICATION FairSpec
CONSTANTS
  Files = 2
  Errors = {"device"}
  Sizes <- OneOrTwo
  OperationLimit = 2
  ByteLimit = 2
  MaxPosition = 2
  MaxJobs = 4
  MaxRequests = 2
INVARIANTS
  BytesInOrder
  SuccessIsDurable
  ClosedOnceAndLast
  WithinLimits
  RequestsServed
PROPERTIES
  StorageEnds
CHECK_DEADLOCK FALSE
