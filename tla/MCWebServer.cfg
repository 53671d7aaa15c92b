SPECIFICATION Spec
CONSTANTS
  Clients = {a, b, c}
  Workers = {w1, w2}
  Fds = {1, 2, 3}
  Listen = 4
  MaxFd = 2
  BufferSize = 2
  Window = 2
  Outcomes = {"more", "respond", "crash"}
  Main = Main
  NoClient = NoClient
SYMMETRY Symmetry
INVARIANTS TypeOK OneOwner NoOrphan UserCountExact QueueBounded NoEventLost
PROPERTIES ObjectsAreExchanges SameClient
CHECK_DEADLOCK FALSE
