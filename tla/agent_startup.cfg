CONSTANTS
  Users = {"alice", "bob"}
  MaxExpiry = 2
  Faults = {"crash", "disk", "gateway", "nats", "device"}
SPECIFICATION FairSpec
INVARIANTS
  TypeOK
  NoStaleUser
PROPERTIES
  StreamsInTheEnd
  ValidCredentialsSurvive
