SPECIFICATION FairSpec
CONSTANTS
    Requests = {r1}
    Amounts = {2, 3}
    MinTransferAmounts = {1, 2}
    PerTransferLimits = {1, 2}
    ProtectedMinimum = 1
    InitialBalance = 3
    Tolerance = 0
    ReservationTtl = 1
    MaxClock = 2
    MaxSends = 2
    MaxBalance = 3
    Events = {"burst", "wallet", "refused", "band", "mismatch", "orphan", "reverse",
              "spend", "drop", "forget", "fund", "treasury", "hold", "close", "pause"}
INVARIANTS
    ReleasedForFinalDeposit
    SubmittedOrRefunded
PROPERTIES
    FinalityIsOneWay
    ReservationsExpire
CHECK_DEADLOCK FALSE
