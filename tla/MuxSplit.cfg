SPECIFICATION Spec
CONSTANTS
  Modes = {"none", "time", "bytes"}
  SplitAfter = 2
  MaxQueued = 3
  Steps = {1}
  Reorder <- MCReorder
  Gaps <- MCGaps
  MaxPackets <- MCPackets
INVARIANTS
  SavedInOrder
  PartsPlayable
  EndsComplete
CHECK_DEADLOCK FALSE
