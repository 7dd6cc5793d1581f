CONSTANTS
  Requests = {"r1"}
  UserParts <- PlainUsers
  PendingTTL = 4
  ApprovedTTL = 3
  ExpiresIn = 4
  Interval = 2
  Environments <- AsBuilt
SPECIFICATION Spec
INVARIANT
  PollWaitsForApproval
CHECK_DEADLOCK FALSE
