\* One tab: an action that is allowed, then one that is not.
SPECIFICATION Spec
CONSTANTS
  t1 = t1
  c1 = c1
  c2 = c2
  Tabs = {t1}
  Clicks = {c1, c2}
  Actions = {"a", "b", "_"}
  Kept = {"a", "b"}
  Default = "_"
  Allowed = {"a"}
  LoggedIn = {t1}
  First = first
  NoSession = none
  Lifetime = 1
  TokenLife = 1
  MaxClock = 1
  MaxFaults = 0
  MaxRestarts = 0
CHECK_DEADLOCK FALSE
INVARIANT CarriedAsAsked
