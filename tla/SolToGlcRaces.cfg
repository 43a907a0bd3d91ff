SPECIFICATION FairSpec
CONSTANTS
  Obligations = {1}
  Operators = {o1, o2}
  Gross <- Grosses
  Net <- Nets
  GlcMinimum = 2
  SolMinimum = 2
  SolReserved = 1
  SolInitial = 4
  Buffer = 1
  Reopen = 2
  VaultBalances = {4}
  MaxSubmissions = 2
  MaxSends = 2
  MaxRefundSends = 2
  Events = {"limits", "burst", "refused", "hold", "close", "retry", "reorg", "drop", "forget",
            "manual", "crash", "auto", "observe"}
INVARIANTS
  PaidOrRefunded
  LedgerFollowsChain
  RefundNeverUnrecorded
PROPERTIES
  CompletedIsSettled
CHECK_DEADLOCK FALSE
