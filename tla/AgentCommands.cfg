CONSTANTS
  PoolSize = 3
  QueueLength = 3
  SyncTasks = {s1, s2}
  TimedTasks = {p1}
  NoTask = NoTask
SPECIFICATION Spec
INVARIANTS TypeOK PoolConserved QueueNeverFull NoOrphan
PROPERTY SyncRequests
SYMMETRY Requesters
