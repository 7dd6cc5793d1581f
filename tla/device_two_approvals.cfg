CONSTANTS
  Requests = {"r1", "r2"}
  UserParts <- PlainUsers
  PendingTTL = 4
  ApprovedTTL = 3
  ExpiresIn = 4
  Interval = 2
  Environments <- AsBuilt
SPECIFICATION Spec
PROPERTY
  ApprovalIsFinal
CHECK_DEADLOCK FALSE
