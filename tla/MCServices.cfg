SPECIFICATION ServicesSpec
CHECK_DEADLOCK FALSE
CONSTANTS
  MaxExperiments = 3
  MemoryEnabled = TRUE
  MaxCrashesInRow = 2
  MaxSessions = 2
  MaxGitErrors = 1
  RoomRules <- WrittenRules
  RoomPlaybooks <- WrittenPlaybooks
  CtxKeys = {1, 2, 3}
  CtxTokens = {1, 3}
  CtxMaxTokens = 4
  CtxMaxSets = 3
  MigRunners = {m1, m2}
  m1 = m1
  m2 = m2
  MigCount = 3
  LifeProcs = {d1, d2, d3}
  d1 = d1
  d2 = d2
  d3 = d3
  LifeNobody = LifeNobody
  LifeMaySignal <- SameUser
  HandFiles = 2
  HandLines = 3
  HandMatches = 3
  ToolRuns = {t1, t2}
  t1 = t1
  t2 = t2
  ToolSpaces = {w1, w2}
  w1 = w1
  w2 = w2
  ToolServers = 1
  ToolExports = {"read_file"}
  ToolCap = 1
  ToolTurns = 1
  DecLength = 5
  DecTasks = {"a", "b", "c"}
  DecReplies <- LlmReplies
  DecCacheSize = 2
  RalphTasks = {1, 2, 3, 4, 5}
  RalphForeign = {2}
  RalphUnknown = {2}
  RalphBudget = 2
  RalphOverrun = 1
  RalphDailyMax = 2
  RalphMaxAborts = 1
  BookProjects = {"default", "other"}
  BookModels <- TwoModels
  BookCosts = {2}
  BookDays = 2
  BookMonthEnd = 2
  BookMaxLogs = 2
  BookDailyMax = 2
  BookMonthlyMax = 4
  MemProjects = {"p"}
  MemGlobal = "global"
  MemCut <- CutTexts
  MemTokens <- TextTokens
  MemImportances = {1, 2}
  MemLimit = 3
  MemMaxTokens = 3
  MemMaxRows = 3
INVARIANTS
  BranchTellsLedger
  CacheFresh
  RouteSound
  MigSafe
  LifeSafe
  HandlersSound
  ToolboxSound
  DecSound
PROPERTIES
  SessionEnds
  BranchSpec
  HealingSound
  CtxBudgetKept
  RalphSound
  BooksSound
  MemSound
