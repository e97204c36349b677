SPECIFICATION Spec
CONSTANTS
  deployment = deployment
  widget = widget
  deployments = deployments
  widgets = widgets
  NoObject = NoObject
  Objects <- MCObjects
  Resources <- MCResources
  ResourceOf <- MCResourceOf
  Unserved <- AllOrNoWidgets
  MaxChanges = 1
INVARIANTS
  TypeOK
  EventsNeverPanic
PROPERTY
  KeepsPromise
CHECK_DEADLOCK FALSE
