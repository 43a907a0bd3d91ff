SPECIFICATION RerunSpec
CONSTANTS
  Obligations = {1}
  Operators = {o1}
  Gross <- Grosses
  Net <- Nets
  GlcMinimum = 2
  SolMinimum = 2
  SolReserved = 1
  SolInitial = 4
  Buffer = 1
  Reopen = 2
  VaultBalances = {4}
  MaxSubmissions = 2
  MaxSends = 1
  MaxRefundSends = 1
  Events = {"limits"}
PROPERTIES
  LandedRefundRecorded
CHECK_DEADLOCK FALSE
