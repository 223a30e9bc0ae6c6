SPECIFICATION Spec
SYMMETRY Identical
CONSTANTS
  r1 = r1  r2 = r2  c1 = c1  c2 = c2  h = h
  Runtimes = {r1, r2}
  Connections = {c1}
  Callers = {h}
  Capacity = 1
  System = FALSE
  Expiring = {c1, h}
  None = None
INVARIANTS SingleOwner DeletedRoomHasNoRuntime NobodyListensToDeletedRoom
PROPERTIES EvictionSparesListeners
