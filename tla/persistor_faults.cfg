CONSTANTS
  e1 = e1
  e2 = e2
  e3 = e3
  p1 = p1
  p2 = p2
  Events = {e1, e2}
  Persistors = {p1, p2}
  EventID <- OneRun
  Malformed = {}
  Rejected = {}
  MaxDeliver = 3
  DeadLetterAt = 2
  Faults = {"crash", "slow", "ack", "dlq", "db", "reply", "fetch", "cancel"}
SYMMETRY PersistorSymmetry
SPECIFICATION Spec
INVARIANTS
  TypeOK
  AckedIsKept
  DeadLetterIsLastResort
PROPERTY
  RefinesIntake
