CONSTANTS
  e1 = e1
  e2 = e2
  e3 = e3
  p1 = p1
  p2 = p2
  Events = {e1, e2}
  Persistors = {p1}
  EventID <- OneRun
  Malformed = {}
  Rejected = {}
  MaxDeliver = 2
  DeadLetterAt = 2
  Faults = {}
SPECIFICATION Spec
INVARIANT
  EventsAreStored
