CONSTANTS
  Files <- AllFiles
  MaxAddresses = 2
SPECIFICATION Spec
INVARIANTS
  RunsOnlyWhatWasLoaded
  OneSocket
  SuccessMeansLoaded
PROPERTIES
  LoadTerminates
\* The program ends.
CHECK_DEADLOCK FALSE
