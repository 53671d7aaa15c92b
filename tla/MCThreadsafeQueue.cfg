SPECIFICATION Spec
CONSTANTS
  Items = {a, b, c}
  Producers = {p1, p2}
  Consumers = {c1, c2, c3}
  Calls = {"wait_and_pop", "wait_and_pop_ptr", "try_pop", "try_pop_ptr", "empty"}
  AllocMayFail = TRUE
  NoItem = NoItem
  NoThread = NoThread
SYMMETRY Symmetry
INVARIANTS TypeOK
PROPERTIES LostByThrowOnly ImplementsFifo
