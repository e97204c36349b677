SPECIFICATION Spec
CONSTANTS
  None = None
  namespace = namespace
  crd = crd
  widget = widget
  service = service
  serviceCopy = serviceCopy
  webhook = webhook
  app = app
  ping = ping
  pong = pong
  MaxObjects = 4
  Manifests <- MCManifests
  Ids <- MCIds
  Body <- MCBody
  Slices <- MCSlices
INVARIANTS
  TypeOK
  EachObjectOnce
  DependenciesInEarlierGroups
  NoNeedlessWait
  ReportedCycleIsReal
  SameAsReference
PROPERTY
  SortingEnds
CHECK_DEADLOCK FALSE
