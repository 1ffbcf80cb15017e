SPECIFICATION FairSpec
CONSTANTS
  SocketClients = {c1}
  CronJobs = {}
  ApiHandlers = {a1}
  Workers = {w1, w2}
  c1 = c1
  a1 = a1
  w1 = w1
  w2 = w2
  DaemonMaxSize = 1
  ApiMaxSize = 1
  MaxTasks = 1
  MaxFaults = 1
  NoTask = NoTask
PROPERTIES
  ShutdownCompletes
  QueuedIsServed
