SPECIFICATION FairSpec
CONSTANTS
  r1 = r1
  c1 = c1
  NumSteps = 3
  DependsOn <- ChainDependsOn
  Condition <- LastNeedsFirst
  SkipOnFailure <- LastOnly
  MaxRetries = 1
  Budget = 2
  MaxCost = 2
  Runners = {r1}
  Cancellers = {c1}
  MaxCrashes = 2
  MaxDbErrors = 0
PROPERTIES
  CompletionStands
  RunEnds
