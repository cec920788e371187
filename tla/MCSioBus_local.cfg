SPECIFICATION FairSpec
CONSTANTS
  Slots = {d1, d2}
  Devices = {i1, i2, i3}
  None = None
  GuiOps = {"mount", "eject", "swap", "save", "revert", "edit", "autosave"}
  ClientOps = {}
  Answers = {"Yes", "No", "Cancel"}
INVARIANTS TypeOK HandledAlive OneUser NoFault NoOrphan
PROPERTIES GuiReturns
