CONSTANTS
  Words = {"GET", "POST", "HEAD"}
  Agents = {"app", "bot"}
  Registered <- Services
  Size = 4
  NoService = NoService
SPECIFICATION Spec
INVARIANTS ServiceOfThisRequest
CHECK_DEADLOCK FALSE
