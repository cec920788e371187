SPECIFICATION Spec
CONSTANTS
  LastSector = 9
  System <- MCSystem
  Root = 4
  DirSectors = 1
  EntriesPerSector = 3
  DirsFrom = 7
  LinkRange = 16
  Blocks <- MCBlocks
  HostDirs <- MCHostDirs
  Drops <- MCDrops
  MaxTasks = 5
  CountRange = 32
INVARIANTS OnlySelectedFiles
