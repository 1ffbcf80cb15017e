SPECIFICATION Spec
SYMMETRY RunnerSymmetry
CONSTANTS
  r1 = r1
  r2 = r2
  c1 = c1
  NumSteps = 2
  DependsOn <- BackwardsDependsOn
  Condition <- FirstNeedsLast
  SkipOnFailure <- FirstOnly
  MaxRetries = 1
  Budget = 1
  MaxCost = 1
  Runners = {r1, r2}
  Cancellers = {c1}
  MaxCrashes = 1
  MaxDbErrors = 1
INVARIANTS
  SessionSound
  NoStepStranded
  OrderRespected
  SpendBounded
