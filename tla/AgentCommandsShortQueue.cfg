CONSTANTS
  PoolSize = 2
  QueueLength = 1
  SyncTasks = {s1}
  TimedTasks = {p1}
  NoTask = NoTask
SPECIFICATION FairSpec
PROPERTY PendingConcluded
