SPECIFICATION Spec
CONSTANTS
  Classes = {"Error"}
  Slots <- OneEach
  Bursts <- OneByOne
  MaxSessions = 2
  MaxPackets <- TwoRecordings
  MaxCalls = 1
INVARIANTS
  NoUseAfterRecycle
  OutcomeReported
  NoMissedWakeup
  SlotsExclusive
  NothingLost
PROPERTIES
  ImplementsContract
