CONSTANTS
  PoolSize = 2
  QueueLength = 2
  SyncTasks = {s1, s2}
  TimedTasks = {}
  NoTask = NoTask
SPECIFICATION Spec
INVARIANT WaitingMessageNotified
