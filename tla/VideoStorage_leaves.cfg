\* A folder is deleted while an upload attaches its video to it.
SPECIFICATION Spec
CONSTANTS
  u1 = u1
  d1 = d1
  Uploads = {u1}
  Deletes = {d1}
  Gets = {}
  Exact = {}
  Total = 1
  Folders <- OneFolder
  VideoNames <- OneVideo
  DeletePaths <- FolderPath
  GetPaths <- FolderPath
  Stored <- Organization
  MaxActive = 2
  MaxFaults = 0
  MaxCrashes = 0
PROPERTY OnlyLeavesAreRemoved
