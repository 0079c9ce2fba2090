SPECIFICATION FairSpec
CONSTANTS
  a1 = a1
  a2 = a2
  q1 = q1
  q2 = q2
  Agents = {a1}
  Items = {q1, q2}
  MaxRetries = 3
  MaxItems = 2
  Triage = {"DEPENDENCY_RETRY", "MANUAL_REVIEW"}
  MaxCrashes = 1
INVARIANTS
  TypeOK
  AttemptsAccounted
  HealedIsResolved
PROPERTIES
  OnlyDueReplayed
  ImplementsLedger
CHECK_DEADLOCK FALSE
