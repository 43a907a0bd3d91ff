SPECIFICATION Spec
CONSTANTS
    r1 = r1
    r2 = r2
    o1 = o1
    w1 = w1
    nw = nw
INVARIANTS
    ReserveBooksExact
    AdmissionSound
    AdvertisedIsAdmitted
CHECK_DEADLOCK FALSE
