CONSTANTS
  MaxFiles = 5
  Names <- FourNames
  Cached = TRUE
SPECIFICATION Spec
INVARIANTS
  TypeOK
  Sorted
  SearchKeepsName
  SearchAgrees
  DebugFlagEnables
PROPERTIES
  SearchTerminates
\* A program need not call debug.
CHECK_DEADLOCK FALSE
