SPECIFICATION Spec
CONSTANTS
  Requests = {1}
  Directions = {"GlcToRhn", "SolToRhn", "RhnToGlc", "RhnToSol", "Treasury"}
  Daemon = daemon
  Admins = {a}
  Net <- Nets
  InitialBalance = 4
  Ttl = 1
  MaxClock = 1
  MaxEpoch = 1
  MaxReplacements = 1
  MaxReorgs = 1
  MaxForeign = 0
  Events = {"stop", "pause", "park", "refund", "resume"}

  
PROPERTIES
  NoncesAreForever
  EndsOnce
CHECK_DEADLOCK FALSE
