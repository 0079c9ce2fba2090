SPECIFICATION Spec
CONSTANTS
  r1 = r1
  r2 = r2
  n1 = n1
  n2 = n2
  Runs = {r1, r2}
  Names = {n1}
  MaxExtras = 0
INVARIANT TriggeredByLanding
CHECK_DEADLOCK FALSE
