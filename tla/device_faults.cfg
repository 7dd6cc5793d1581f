CONSTANTS
  Requests = {"r1", "r2", "r3"}
  UserParts <- ColonUser
  PendingTTL = 6
  ApprovedTTL = 3
  ExpiresIn = 6
  Interval = 2
  Environments <- AdverseOrSmooth
SPECIFICATION FairSpec
INVARIANTS
  TypeOK
  TokenIsIssued
  ApprovalAwaitsPoll
PROPERTIES
  LaterApprovalsRefused
  LoginEnds
  ApprovalLogsIn
CHECK_DEADLOCK FALSE
