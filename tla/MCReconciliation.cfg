SPECIFICATION Spec
CONSTANTS
  None = None
  Objects <- MCObjects
  Registered <- MCRegistered
  Reporting <- MCReporting
  Resetting <- MCResetting
  Slots <- MCSlots
  Nodes <- MCNodes
  Scales <- MCScales
  Sicknesses <- SecondMayBeSick
  MaxUnavailable = 1
  MaxChanges <- MCMaxChanges
  MaxFaults = 1
INVARIANTS
  TypeOK
  CurrentIsReconciled
PROPERTIES
  CurrentIsStable
  SettlesOnOutcome
CHECK_DEADLOCK FALSE
