SPECIFICATION Spec
CONSTANTS
    k1 = k1
    k2 = k2
    k3 = k3
    vault = vault
    t1 = t1
    t2 = t2
    MaxAttestationKeys = 3
    MaxTreasuries = 2
    DefaultKey = zero
    Admins = {adm1, adm2}
    PubKeys = {k1, k2, k3}
    Users = {u1}
    TokenAccounts = {vault, t1, t2}
    ReserveAccount = vault
    Deposits = {d1}
    Amounts = {1}
    GlcAddresses = {g1}
    PayoutTxids = {p1}
    Nonces = {n1}
    RefundNonces = {}
    KeySets <- RotationKeySets
    TreasuryLists <- PolicyLists
    Limits0 <- GovernanceLimits
    LimitValues <- NoLimitChanges
    GovernanceTimelock = 1
    RollingSeconds = 2
    Kinds = {"release", "treasury", "initialize_policy", "propose_policy", "cancel_policy",
             "propose_rotation", "cancel_rotation"}
    PauseScopes = {"paused"}
    MaxClock = 2
    MaxObligations = 0
    MaxEpoch = 2
    MaxVersion = 2
    MaxSigned = 3
    MaxFunding = 1
INVARIANTS
    GovernedAsPromised
PROPERTIES
    ChangesAreAnnounced
CHECK_DEADLOCK FALSE
