SPECIFICATION Spec
CONSTANTS
  LastLink = 2
  LastHandle = 2
  Folders = {a}
  NoFolder = NoFolder
  Modes = {12}
  MaxLen = 1
  MaxPos = 2
  MaxDepth = 1
  MaxTries = 2
  MaxCalls = 3
  MaxChanges = 1
  Uses <- MCUses
  GuiOps = {"link", "unlink", "swap"}
INVARIANTS TypeOK CallsOnce ProgramsAgree NoLeak
PROPERTIES NullFileOnlyWhenCut UnitsApart
\* The programs may have no more calls to make.
CHECK_DEADLOCK FALSE
