SPECIFICATION Spec
CONSTANTS
  replicas = replicas
  image = image
  LastApplied = LastApplied
  kubectl = kubectl
  autoscaler = autoscaler
  Self = Self
  Applied = Applied
  Fields <- MCFields
  Configs <- MCConfigs
  Updaters <- MCUpdaters
  WritesOf <- MCWritesOf
  MaxPatchRetry = 5
INVARIANT ExhaustionIsReported
