SPECIFICATION FairSpec
CONSTANTS
  r1 = r1
  r2 = r2
  n1 = n1
  n2 = n2
  Runs = {r1, r2}
  Names = {n1, n2}
  MaxExtras = 1
INVARIANTS
  TypeOK
  PayloadRetained
  ArchivedWasTaken
PROPERTIES
  SuccessMeansArchived
  TakenOrAnnounced
CHECK_DEADLOCK FALSE
