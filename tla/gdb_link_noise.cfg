CONSTANTS
  Program <- SmallProgram
  MaxErrorSize = 4
  FrameFaults = 2
  ByteFaults = 3
  FrameBytes = 3
  SimDeaths = 1
SPECIFICATION Spec
INVARIANTS
  TypeOK
  LagBoundedByFaults
  RepeatsBoundedByFaults
\* The program ends, or both ends wait.
CHECK_DEADLOCK FALSE
