SPECIFICATION ToolchainSpec
CONSTANTS
  NameSize <- MCNameSize
  Objects <- MCObjects
  JunkAddress = 7
  Uninitialised = Uninitialised
INVARIANTS
  TypeOK
  RenumberingSound
  LayoutSound
  SymbolsRelocated
  FailureLeavesNoOutput
  NamesFit
  HeaderCommitsLast
  PatchesAgree
  ProgramLinked
  OutputLoads
PROPERTIES
  WritesNeverClobber
  SupportedCompletes
\* Both programs end.
CHECK_DEADLOCK FALSE
