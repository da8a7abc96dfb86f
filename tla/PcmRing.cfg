SPECIFICATION RingSpec
CONSTANTS
  CapacityFrames = 3
  PacketSizes <- PacketLengths
  PopSizes <- PopLengths
  MaxFrames = 10
PROPERTIES
  ImplementsQueue
