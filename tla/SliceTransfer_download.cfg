SPECIFICATION FairSpec
CONSTANTS
  Videos = {"v1", "v2"}
  Tabs = {"t1", "t2", "t3"}
  Chrome = {"t1", "t2"}
  Sizes <- SizesOfVideo
  FileName <- SameName
  SizeSlice = 5
  Cipher = 2
  Half = 16
  MaxClicks = 2
  MaxFaults = 1
INVARIANTS SavesTheVideo FailsForAReason
PROPERTIES DownloadsEnd
CHECK_DEADLOCK FALSE
