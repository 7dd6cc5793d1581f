CONSTANTS
  Users = {"alice", "bob"}
  MaxExpiry = 1
  Faults = {}
SPECIFICATION Spec
INVARIANT
  LoginIsUsed
