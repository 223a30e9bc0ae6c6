SPECIFICATION Spec
CONSTANTS
  w1 = w1  w2 = w2  w3 = w3
  Writers = {w1, w2, w3}
  Capacity = 2
  None = None
INVARIANTS CommitsInOrder
PROPERTIES EveryCallReturns KeepsPromise
