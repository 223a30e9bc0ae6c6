SPECIFICATION Spec
CONSTANTS
  r1 = r1  r2 = r2  c1 = c1  c2 = c2  h = h
  Runtimes = {r1}
  Connections = {c1}
  Callers = {h}
  Capacity = 1
  System = FALSE
  Expiring = {}
  None = None
PROPERTIES EveryCallReturns DeletionFinishes
