CONSTANTS
  e1 = e1
  e2 = e2
  p1 = p1
  p2 = p2
  Events = {e1, e2}
  AgentEvents = {e1}
  Persistors = {p1, p2}
  EventID <- OwnID
  Malformed = {e2}
  Rejected = {}
  MaxDeliver = 2
  DeadLetterAt = 2
  Faults = {"dlq", "db", "fetch", "cancel"}
SPECIFICATION PipelineFairSpec
INVARIANTS
  NoneExhausted
  NoneStranded
  StoredOrDeadLettered
PROPERTIES
  SetupCoversDeadLetters
  EverySettled
  RefinesJourney
