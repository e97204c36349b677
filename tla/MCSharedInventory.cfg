SPECIFICATION Spec
CONSTANTS
  Runners = {r1, r2}
  Ids = {1, 2}
  Inputs = {{1, 2}, {1}, {2}}
  Guarded = {2}
SYMMETRY Symmetry
INVARIANTS
  TypeOK
  SameInputTracked
PROPERTIES
  ForgetsOnlyNews
  SkippedStaysTracked
