CONSTANTS
  Setups <- MCSetups
  MaxCloses = 2
  MaxRecordings = 1
  MaxEnds = 1

SPECIFICATION FairSpec

INVARIANTS
  SavedBeforeClose
  CancelWakes

PROPERTY ViewerEnds

\* The process ends.
CHECK_DEADLOCK FALSE
