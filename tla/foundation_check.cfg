CONSTANT PendingLimit = 2
SPECIFICATION FairSpec
INVARIANTS
  TypeOK
  PassesOnEvidence
  NothingOverlooked
PROPERTY
  EndsOnceQuiet
CHECK_DEADLOCK FALSE
