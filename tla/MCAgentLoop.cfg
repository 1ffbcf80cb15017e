SPECIFICATION Spec
CONSTANTS
  r1 = r1
  r2 = r2
  Callers <- AllCallers
  Streamed <- OneStream
  MaxIterations = 2
  SessionLimit = 1
  Estimate = 1
  Costs = {0, 1}
  MaxCost = 1
  ProjectBudget = 1
  QueueSize = 1
INVARIANTS RowTellsSession SessionSpendBounded ProjectSound StreamEndSound
