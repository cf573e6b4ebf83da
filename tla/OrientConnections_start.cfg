\* The first requests of a service, and two database failures.
SPECIFICATION Spec
CONSTANTS
  q1 = q1
  r1 = r1
  w1 = w1
  Queries = {q1}
  Removals = {r1}
  VersionReads = {w1}
  None = none
  MaxActive = 2
  MaxFaults = 2
CHECK_DEADLOCK FALSE
INVARIANTS OwnConnection CallFailsForAReason GivenBack
