SPECIFICATION Spec
CONSTANTS
  NameSize <- MCNameSize
  Objects <- MCLargeBssObjects
  JunkAddress = 7
  Uninitialised = Uninitialised
INVARIANTS
  ExitZeroMeansWritten
\* The program ends.
CHECK_DEADLOCK FALSE
