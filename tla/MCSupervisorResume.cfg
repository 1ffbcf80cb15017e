SPECIFICATION Spec
CONSTANTS
  r1 = r1
  NumSteps = 2
  DependsOn <- ChainDependsOn
  Condition <- LastNeedsFirst
  SkipOnFailure <- LastOnly
  MaxRetries = 1
  Budget = 2
  MaxCost = 1
  Runners = {r1}
  Cancellers = {}
  MaxCrashes = 1
  MaxDbErrors = 0
PROPERTY ResumeSkipsCompleted
