SPECIFICATION Spec
CONSTANTS
  None = None
  namespace = namespace
  crd = crd
  widget = widget
  app = app
  appCopy = appCopy
  lonely = lonely
  ns = ns
  crdId = crdId
  widgetId = widgetId
  appId = appId
  inventory = inventory
  Manifests <- MCManifests
  Ids <- MCIds
  Body <- MCBody
  Words <- MCWords
  Place <- MCPlace
  Rank <- MCRank
  NamespaceOf <- MCNamespaceOf
  CrdOf <- MCCrdOf
  InventoryId = inventory
  Inputs <- MixedInputs
  Options <- AllOptions
  ServerProfiles <- AllOrNone
  Sick = {widgetId}
  PreExisting = {appId, ns}
  MaxRuns = 2
  MaxFaults = 2
INVARIANTS
  TypeOK
  TrackedBetweenRuns
  DependenciesSettled
  CleanRunConverges
PROPERTIES
  TrackedStaysTracked
  PruneDeletesAbandoned
CHECK_DEADLOCK FALSE
