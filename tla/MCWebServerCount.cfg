SPECIFICATION Spec
CONSTANTS
  Clients = {a, b}
  Workers = {w1}
  Fds = {1, 2}
  Listen = 3
  MaxFd = 3
  BufferSize = 2
  Window = 1
  Outcomes = {"respond", "refuse"}
  Main = Main
  NoClient = NoClient
INVARIANTS UserCountExact
CHECK_DEADLOCK FALSE
