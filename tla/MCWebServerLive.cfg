SPECIFICATION FairSpec
CONSTANTS
  Clients = {a, b}
  Workers = {w1, w2}
  Fds = {1, 2}
  Listen = 3
  MaxFd = 3
  BufferSize = 2
  Window = 2
  Outcomes = {"more", "respond", "refuse"}
  Main = Main
  NoClient = NoClient
PROPERTIES LostByReuseOnly DataIsRead HangUpCloses
CHECK_DEADLOCK FALSE
