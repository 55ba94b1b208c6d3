CONSTANTS
  Streams <- SmallStreams
  BufSize = 3
  ReadSize = 2
SPECIFICATION Spec
INVARIANTS
  TypeOK
  NoInternalError
  ReadsOnlyWhenUndecided
PROPERTIES
  RefinesRules
\* The scanner is destroyed, or waits for bytes that no one writes.
CHECK_DEADLOCK FALSE
