SPECIFICATION Spec
CONSTANTS
  Accounts = {a1, a2, a3, a4}
  FirstSigners = {a1, a2, a3}
  FirstGuardians = {a1, a2, a3}
  Routes = {"RhnToGlc", "GlcToRhn"}
  RequestIds = {1, 2}
  Amounts = {2, 3}
  LimitSets <- FewLimits
  FirstLimits <- TheFirstLimits
  Treasury = TRUE
  CanonicalScale = 2
  RollingWindow = 1
  Successors = {next}
  Funding = 6
  MaxDeposits = 2
  MaxNonce = 4
  MaxEpoch = 1
  MaxClock = 1
INVARIANTS
  ReserveSound
PROPERTIES
  CallsAreConfined
  ObligationEndsOnce
CHECK_DEADLOCK FALSE
