SPECIFICATION Spec
CONSTANTS
  SocketClients = {c1}
  CronJobs = {}
  ApiHandlers = {a1}
  Workers = {w1}
  c1 = c1
  a1 = a1
  w1 = w1
  DaemonMaxSize = 1
  ApiMaxSize = 2
  MaxTasks = 2
  MaxFaults = 0
  NoTask = NoTask
INVARIANT BoundedBacklog
