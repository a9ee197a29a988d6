CONSTANTS
  MaxSubscriptions = 3
  MaxCallbacks = 3
  Tasks = {t1, t2}
  Filters = {f, g}
  f = f
  g = g
  t1 = t1
  t2 = t2
  Prefix <- Unrelated
  Uses <- OwnFilters
  QoS = {0, 1}
  HeapMayFail = TRUE
  MaxLosses = 0
  NoFilter = NoFilter
  NoTask = NoTask
  Agent = Agent
SPECIFICATION Spec
INVARIANTS RefCountExact SlotKeepsFilter
