\* Three tabs of one user and one of another, with a fault and a restart of the proxy.
SPECIFICATION FairSpec
CONSTANTS
  p1 = p1
  p2 = p2
  r1 = r1
  r2 = r2
  NoSecret = NoSecret
  Unshared = Unshared
  Protects = {p1, p2}
  Recovers = {r1, r2}
  Entitled = {r1}
  User <- TwoUsers
  Storage = "database"
  MaxFaults = 1
  MaxRestarts = 1
CHECK_DEADLOCK FALSE
INVARIANTS TypeOK SpentIsForgotten Undisturbed
PROPERTIES IsVault ClickEnds
