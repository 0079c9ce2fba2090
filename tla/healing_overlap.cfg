SPECIFICATION Spec
CONSTANTS
  a1 = a1
  a2 = a2
  q1 = q1
  q2 = q2
  Agents = {a1, a2}
  Items = {q1, q2}
  MaxRetries = 3
  MaxItems = 1
  Triage = {}
  MaxCrashes = 0
PROPERTY OnlyDueReplayed
CHECK_DEADLOCK FALSE
