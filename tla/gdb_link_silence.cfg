CONSTANTS
  Program <- SmallProgram
  MaxErrorSize = 4
  FrameFaults = 0
  ByteFaults = 1
  FrameBytes = 3
  SimDeaths = 0
SPECIFICATION Spec
PROPERTIES
  InvalidDataRequiresRetransmission
\* The program ends, or both ends wait.
CHECK_DEADLOCK FALSE
