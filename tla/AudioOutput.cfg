SPECIFICATION FairSpec
CONSTANTS
  Modes = {"Asio", "Shared", "Exclusive"}
  Attempts = 2
  Capacity = 1
  MaxChanges = 1
  MaxHealthy = 1
INVARIANTS
  DriversLeased
PROPERTIES
  ImplementsMessageQueue
  RetriesEnd
  FollowsDefault
CHECK_DEADLOCK FALSE
