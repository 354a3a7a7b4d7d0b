SPECIFICATION FairSpec
CONSTANTS
  Update <- MCUpdate
  Boot <- MCBoot
  Provision = {"provision"}
  Builds <- MCBuilds
  NoUpdate = "none"
  NoId = NoId
INVARIANTS
  TypeOK
  TrackedUntilEnded
  InOnePlace
  QuiescentReported
PROPERTIES
  EveryUpdateEnds
  KeepsLedger
CHECK_DEADLOCK FALSE
