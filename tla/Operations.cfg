SPECIFICATION Spec
CONSTANTS
    Absent = absent
    i1 = i1
    i2 = i2
    t1 = t1
    ann = ann
    bob = bob
    nobody = nobody
    r1 = r1
    noRef = noRef
    daemon = daemon
    command = command
    c1 = c1
    c2 = c2
    m1 = m1
    m2 = m2
    m3 = m3
INVARIANTS
    ControlPlaneSound
    CustodySound
    ToolsSound
    GovernanceSound
    ConfigSound
    PoolSound
PROPERTIES
    SpendingIsFinal
    UpgradesAreAnnounced
CHECK_DEADLOCK FALSE
