SPECIFICATION EventsSpec
CONSTANTS
  None = None
  namespace = namespace
  crd = crd
  widget = widget
  app = app
  appCopy = appCopy
  lonely = lonely
  ns = ns
  crdId = crdId
  widgetId = widgetId
  appId = appId
  inventory = inventory
  Manifests <- MCManifests
  Ids <- MCIds
  Body <- MCBody
  Words <- MCWords
  Place <- MCPlace
  Rank <- MCRank
  NamespaceOf <- MCNamespaceOf
  CrdOf <- MCCrdOf
  InventoryId = inventory
  Inputs <- EventInputs
  Options <- EventOptions
  ServerProfiles <- AllOrNone
  Sick = {appId}
  PreExisting = {ns}
  MaxRuns = 2
  MaxFaults = 1
INVARIANT SilenceMeansDone
PROPERTIES
  TimeoutEndsRun
  RunEndsOrWaits
CHECK_DEADLOCK FALSE
