SPECIFICATION Spec
CONSTANTS
  UInt = 1073741824
  Values = {blank, data}
  Blank = blank
  MaxSectors = 2
  Room = 3
  Kinds = {"atr"}
  AutoCommit = TRUE
INVARIANTS CleanIsSaved
