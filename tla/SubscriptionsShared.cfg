CONSTANTS
  MaxSubscriptions = 2
  MaxCallbacks = 2
  Tasks = {t1, t2}
  Filters = {f, g}
  f = f
  g = g
  t1 = t1
  t2 = t2
  Prefix <- Unrelated
  Uses <- SharedFilters
  QoS = {1}
  HeapMayFail = FALSE
  MaxLosses = 1
  NoFilter = NoFilter
  NoTask = NoTask
  Agent = Agent
SPECIFICATION Spec
INVARIANTS TypeOK LockDiscipline CountsExact
SYMMETRY Interchangeable
CHECK_DEADLOCK FALSE
