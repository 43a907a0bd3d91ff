SPECIFICATION Spec
CONSTANTS
    Absent = absent
    k1 = k1
    k2 = k2
    k3 = k3
    foreign = foreign
    zero = zero
    NoDeposit = none
    d1 = d1
    p1 = p1
INVARIANTS
    CoinsSound
    SigningSound
    ProgramChecksSound
    AmountsExact
    RateBookSound
    IndexedFaithfully
    InterruptedUpgradeRecovers
CHECK_DEADLOCK FALSE
