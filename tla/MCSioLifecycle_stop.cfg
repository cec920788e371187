SPECIFICATION FairSpec
CONSTANTS
  UserOps = {"click", "restart", "options", "cassette", "ejectAll", "tray", "close"}
  FirstRun = TRUE
  ClicksFirst = FALSE
  MaxNest = 4
  MaxNoise = 3
  MaxFails = 2
INVARIANTS TypeOK ActionInSync PortUsable QuitStopsWorker HeardInTime
PROPERTIES StopReturns
