\* Two tabs of one user, with a failing call and a restart of the service.
SPECIFICATION Spec
CONSTANTS
  t1 = t1
  t2 = t2
  c1 = c1
  c2 = c2
  c3 = c3
  Tabs = {t1, t2}
  Clicks = {c1, c2, c3}
  Actions = {"a", "b", "_"}
  Kept = {"a", "b"}
  Default = "_"
  Allowed = {"a"}
  LoggedIn = {t1}
  First = first
  NoSession = none
  Lifetime = 1
  TokenLife = 1
  MaxClock = 2
  MaxFaults = 1
  MaxRestarts = 1
SYMMETRY Alike
CHECK_DEADLOCK FALSE
INVARIANTS TypeOK EndedIsFinal RefusedForAReason SomeoneIsIn
