SPECIFICATION FairSpec
CONSTANTS
  Classes = {"Error"}
  Slots <- OneEach
  Bursts <- OneByOne
  MaxSessions = 1
  MaxPackets <- OneRecording
  MaxCalls = 1
PROPERTIES
  StopCompletes
