SPECIFICATION Spec
CONSTANTS
  Requests = {1}
  Directions = {"RhnToGlc"}
  Daemon = daemon
  Admins = {a}
  Net <- Nets
  InitialBalance = 4
  Ttl = 1
  MaxClock = 0
  MaxEpoch = 0
  MaxReplacements = 0
  MaxReorgs = 0
  MaxForeign = 0
  Events = {"park", "resume", "refund", "race"}
INVARIANTS
  NeverPaidAndRefunded
CHECK_DEADLOCK FALSE
