SPECIFICATION Spec
CONSTANTS
  Slots = {d1, d2}
  Devices = {i1, i2, i3}
  None = None
  GuiOps = {"mount", "eject", "swap", "save", "revert", "autosave"}
  ClientOps = {"swap", "unmount"}
  Answers = {"Yes", "No", "Cancel"}
INVARIANTS TableAgrees
PROPERTIES RemoteUnmountKeepsChanges BaySpec
