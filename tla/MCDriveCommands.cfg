SPECIFICATION FairSpec
CONSTANTS
  LastSector = 434
  Blocks <- MCBlocks
  ChunkSizes <- MCChunkSizes
  BootSize = 384
  Values = {blank, data}
  Blank = blank
  MaxSectors = 2
  MaxTries = 2
  Drives = {"image", "folder", "booter"}
INVARIANTS TypeOK FolderServesFile LoadedIsFile ChunkExists
PROPERTIES RequestEnds RetriedSpec
