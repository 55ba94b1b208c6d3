CONSTANTS
  Inputs <- SomeFiles
  Options <- AllOptions
SPECIFICATION Spec
INVARIANTS
  TypeOK
  ClosedOnce
  SmallTablesFit
PROPERTIES
  LoopBlocksReleased
\* The program ends.
CHECK_DEADLOCK FALSE
