\* An upload, a delete of its video or its folder, and a get, with a failed command
\* and a crash anywhere.
SPECIFICATION FairSpec
CONSTANTS
  u1 = u1
  d1 = d1
  g1 = g1
  Uploads = {u1}
  Deletes = {d1}
  Gets = {g1}
  Exact = {}
  Total = 2
  Folders <- OneFolder
  VideoNames <- OneVideo
  DeletePaths <- FolderAndVideo
  GetPaths <- VideoPath
  Stored <- Organization
  MaxActive = 2
  MaxFaults = 1
  MaxCrashes = 1
INVARIANTS RegisteredIsStored DeletedStaysDeleted AcknowledgedIsAttached
PROPERTY Answered
