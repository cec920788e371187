SPECIFICATION Spec
CONSTANTS
  Slots = {d1, d2}
  Devices = {i1, i2, i3}
  None = None
  GuiOps = {"mount", "edit"}
  ClientOps = {"unmount"}
  Answers = {"Yes", "No", "Cancel"}
PROPERTIES RemoteUnmountKeepsChanges
