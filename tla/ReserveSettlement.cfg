SPECIFICATION Spec
CONSTANTS
    k1 = k1
    k2 = k2
    k3 = k3
    vault = vault
    t1 = t1
    t2 = t2
    MaxAttestationKeys = 3
    MaxTreasuries = 2
    DefaultKey = zero
    Admins = {adm}
    PubKeys = {k1, k2, k3}
    Users = {u1}
    TokenAccounts = {vault}
    ReserveAccount = vault
    Deposits = {d1}
    Amounts = {1, 2}
    GlcAddresses = {g1}
    PayoutTxids = {p1}
    Nonces = {n1, n2}
    RefundNonces = {n1, n2}
    KeySets <- OneKeySet
    TreasuryLists <- NoTreasuries
    Limits0 <- SettlementLimits
    LimitValues <- FewLimitChanges
    GovernanceTimelock = 1
    RollingSeconds = 2
    Kinds = {"release", "completion", "refund"}
    PauseScopes = {"paused", "releasePaused", "depositPaused"}
    MaxClock = 0
    MaxObligations = 2
    MaxEpoch = 0
    MaxVersion = 0
    MaxSigned = 3
    MaxFunding = 2
INVARIANTS
    TypeOK
    OneReleasePerDeposit
    ObligationSettledOnce
    EveryTokenExplained
PROPERTIES
    FloorHeld
CHECK_DEADLOCK FALSE
