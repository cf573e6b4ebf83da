\* A policy is created and updated twice at the same time, with a failure or a crash.
SPECIFICATION FairSpec
CONSTANTS
  c1 = c1
  w1 = w1
  w2 = w2
  Creates = {c1}
  Updates = {w1, w2}
  MakeFolders = {}
  Gets = {}
  Folders <- OneFolder
  Names = {"p", "q"}
  Replaced = {"p", "q"}
  Lower <- LowerCase
  Stored <- Organization
  MaxActive = 3
  MaxFaults = 1
  MaxCrashes = 1
INVARIANTS TypeOK VersionsDescend AcknowledgedIsKept
PROPERTIES NamesStayListed Answered
