SPECIFICATION Spec
CONSTANTS
  Modes = {"time"}
  SplitAfter = 2
  MaxQueued = 3
  Steps = {1}
  Reorder <- MCReorder
  Gaps <- MCGaps
  MaxPackets <- MCPackets
INVARIANTS
  HeaderComesFirst
CHECK_DEADLOCK FALSE
