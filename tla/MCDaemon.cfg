SPECIFICATION Spec
CONSTANTS
  SocketClients = {c1}
  CronJobs = {j1}
  ApiHandlers = {a1}
  Workers = {w1, w2}
  c1 = c1
  j1 = j1
  a1 = a1
  w1 = w1
  w2 = w2
  DaemonMaxSize = 1
  ApiMaxSize = 1
  MaxTasks = 1
  MaxFaults = 1
  NoTask = NoTask
SYMMETRY WorkerSymmetry
INVARIANTS
  QueueSound
  CountersNeverOverstate
  DaemonRequestsAccounted
PROPERTY LedgerSpec
