SPECIFICATION Spec
CONSTANTS
  deployment = deployment
  widget = widget
  deployments = deployments
  widgets = widgets
  NoObject = NoObject
  Objects <- MCObjects
  Resources <- MCResources
  ResourceOf <- MCResourceOf
  Unserved <- AllServed
  MaxChanges = 1
PROPERTY
  ClosedAfterStop
CHECK_DEADLOCK FALSE
