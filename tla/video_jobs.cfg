CONSTANTS
  u1 = u1
  u2 = u2
  w1 = w1
  w2 = w2
  Uploads = {u1, u2}
  Workers = {w1, w2}
  Size <- AtAndOver
  MaxSize = 1
  Faults = {"client", "disk", "delete", "db", "reply", "crash"}
SYMMETRY WorkerSymmetry
SPECIFICATION Spec
INVARIANTS
  TypeOK
  VideoIffJob
  JobHasVideo
  ConfirmedIsWhole
  GrantedOnce
PROPERTY
  FollowsLifecycle
CHECK_DEADLOCK FALSE
