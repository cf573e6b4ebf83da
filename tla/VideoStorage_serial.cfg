\* Requests served one at a time, without failures.
SPECIFICATION Spec
CONSTANTS
  u1 = u1
  u2 = u2
  d1 = d1
  d2 = d2
  g1 = g1
  Uploads = {u1, u2}
  Deletes = {d1, d2}
  Gets = {g1}
  Exact = {u1, u2}
  Total = 1
  Folders <- NestedFolders
  VideoNames <- OneVideo
  DeletePaths <- NestedPaths
  GetPaths <- NestedPaths
  Stored <- Empty
  MaxActive = 1
  MaxFaults = 0
  MaxCrashes = 0
SYMMETRY Alike
INVARIANT OneTree
