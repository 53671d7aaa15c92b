CONSTANTS
  Words = {"GET", "POST", "HEAD"}
  Agents = {"app", "bot"}
  Registered <- Services
  Size = 4
  NoService = NoService
SPECIFICATION Spec
PROPERTIES HeadersAreParsed
CHECK_DEADLOCK FALSE
