SPECIFICATION FairSpec
CONSTANTS
  Modes = {"VSync", "Exclusive", "Immediate", "AudioOnly"}
  Streams = {"s1", "s2"}
  Scenarios = {{"graph"}, {"power"}, {"video", "output"}, {"video", "format", "audio"}}
  Batch = 1
  MaxQueued = 2
  MaxPower = 3
INVARIANTS
  NoStaleFrame
  NoStrandedFrame
  CompletionHidesNoError
  PowerFollowsState
  PresentGranted
PROPERTIES
  LoopEnds
CHECK_DEADLOCK FALSE
