SPECIFICATION Spec
CONSTANTS
  None = None
  Objects <- PartitionedStatefulSet
  Registered <- MCRegistered
  Reporting <- MCReporting
  Resetting <- MCResetting
  Slots <- MCSlots
  Nodes <- MCNodes
  Scales <- MCScales
  Sicknesses <- NoneSick
  MaxUnavailable = 1
  MaxChanges <- MCMaxChanges
  MaxFaults = 0
PROPERTY
  PartitionSettles
CHECK_DEADLOCK FALSE
