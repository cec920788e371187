SPECIFICATION FairSpec
CONSTANTS
  UInt = 1073741824
  Values = {blank, data}
  Blank = blank
  MaxSectors = 1
  Room = 2
  Kinds = {"atr"}
  AutoCommit = TRUE
INVARIANTS ModifiedIsAnnounced
PROPERTIES AutoCommitSaves
