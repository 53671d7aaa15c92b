CONSTANTS
  Words = {"GET", "POST", "HEAD"}
  Agents = {"app", "bot"}
  Registered <- Services
  Size = 4
  NoService = NoService
SPECIFICATION FairSpec
INVARIANTS TypeOK MethodOfRequest
PROPERTIES ImplementsExchange ChosenByMethod EveryStepCounts ProcessEnds
CHECK_DEADLOCK FALSE
