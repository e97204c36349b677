SPECIFICATION Spec
CONSTANTS
  Words <- MCWords
  ScopeOf <- MCScopeOf
  Builtin <- MCBuiltin
  Custom <- MCCustom
  Readers <- MCReaders
  Inputs <- MCInputs
  RandomParts = {"h1", "h2"}
  Wanted <- MCWanted
  MaxKey = 12
INVARIANTS
  TypeOK
  PruneSparesInput
  PrunesWhatWasRemoved
  DependencyNamesObject
