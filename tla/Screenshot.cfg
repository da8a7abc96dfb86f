SPECIFICATION FairSpec
CONSTANTS
  MaxRequests = 3
  MaxFrames = 4
  MaxSessions = 2
INVARIANTS
  MembersExclusive
  ResultAnswersRequest
PROPERTIES
  ServiceReopens
  StopReturns
CHECK_DEADLOCK FALSE
