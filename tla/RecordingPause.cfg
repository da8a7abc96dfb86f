SPECIFICATION FairSpec
CONSTANTS
  TimeBase = 5
  SampleRate = 2
  StartTimes <- MCStartTimes
  VideoSteps <- MCVideoSteps
  AudioPackets <- MCAudioPackets
  AudioGaps <- MCAudioGaps
  Slots = 1
  MaxGeneration = 2
  MaxPackets = 2
INVARIANTS
  EpochsDoNotOverlap
  EpochsInStep
  AudioDisjoint
PROPERTIES
  StopEmptiesRings
CHECK_DEADLOCK FALSE
