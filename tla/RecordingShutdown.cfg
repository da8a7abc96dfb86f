SPECIFICATION Spec
CONSTANTS
  Classes = {"Error"}
  Slots <- OneEach
  Bursts <- OneByOne
  MaxSessions = 1
  MaxPackets <- OneRecording
  MaxCalls = 2
INVARIANTS
  ConfigurationStable
PROPERTIES
  OutcomeStable
