\* Requests served one at a time, without failures: the abstract book.
SPECIFICATION Spec
CONSTANTS
  c1 = c1
  c2 = c2
  w1 = w1
  w2 = w2
  m1 = m1
  g1 = g1
  Creates = {c1, c2}
  Updates = {w1, w2}
  MakeFolders = {m1}
  Gets = {g1}
  Folders <- RootFolder
  Names = {"p", "P"}
  Replaced = {"p", "P"}
  Lower <- LowerCase
  Stored <- Empty
  MaxActive = 1
  MaxFaults = 0
  MaxCrashes = 0
PROPERTY KeepsBook
