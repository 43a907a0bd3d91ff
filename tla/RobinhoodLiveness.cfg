SPECIFICATION FairSpec
CONSTANTS
  Requests = {1}
  Directions = {"GlcToRhn", "SolToRhn"}
  Daemon = daemon
  Admins = {}
  Net <- Nets
  InitialBalance = 4
  Ttl = 1
  MaxClock = 1
  MaxEpoch = 0
  MaxReplacements = 1
  MaxReorgs = 1
  MaxForeign = 1
  Events = {"lost"}
PROPERTIES
  PayoutsResolve
CHECK_DEADLOCK FALSE
