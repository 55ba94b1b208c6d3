SPECIFICATION Spec
CONSTANTS
  NameSize <- MCNameSize
  Objects <- MCRodataObjects
  JunkAddress = 7
  Uninitialised = Uninitialised
INVARIANTS
  SymbolsMoveWithSections
\* The program ends.
CHECK_DEADLOCK FALSE
