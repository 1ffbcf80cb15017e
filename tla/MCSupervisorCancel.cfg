SPECIFICATION Spec
CONSTANTS
  r1 = r1
  c1 = c1
  NumSteps = 2
  DependsOn <- ChainDependsOn
  Condition <- LastNeedsFirst
  SkipOnFailure <- LastOnly
  MaxRetries = 1
  Budget = 2
  MaxCost = 1
  Runners = {r1}
  Cancellers = {c1}
  MaxCrashes = 0
  MaxDbErrors = 0
PROPERTY CancelSticks
