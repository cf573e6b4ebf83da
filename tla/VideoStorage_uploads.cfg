\* Two uploads build folders at the same time, with a failure and a crash.
SPECIFICATION Spec
CONSTANTS
  u1 = u1
  u2 = u2
  Uploads = {u1, u2}
  Deletes = {}
  Gets = {}
  Exact = {}
  Total = 2
  Folders <- NestedFolders
  VideoNames <- FolderNameVideo
  DeletePaths <- VideoPath
  GetPaths <- VideoPath
  Stored <- Empty
  MaxActive = 2
  MaxFaults = 1
  MaxCrashes = 1
SYMMETRY Alike
INVARIANTS TypeOK Forest Acyclic
