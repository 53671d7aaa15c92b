SPECIFICATION FairSpec
CONSTANTS
  Items = {a, b, c}
  Producers = {p1, p2}
  Consumers = {c1, c2}
  Calls = {"wait_and_pop", "wait_and_pop_ptr"}
  AllocMayFail = FALSE
  NoItem = NoItem
  NoThread = NoThread
INVARIANTS NoLostWakeup
PROPERTIES EveryItemTaken
