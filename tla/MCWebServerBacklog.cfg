SPECIFICATION FairSpec
CONSTANTS
  Clients = {a, b}
  Workers = {w1}
  Fds = {1, 2}
  Listen = 3
  MaxFd = 3
  BufferSize = 2
  Window = 1
  Outcomes = {"respond"}
  Main = Main
  NoClient = NoClient
PROPERTIES EveryClientAccepted
CHECK_DEADLOCK FALSE
