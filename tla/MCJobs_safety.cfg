SPECIFICATION Spec
CONSTANTS
    None = None
    r1 = r1
    r2 = r2
    r3 = r3
    r4 = r4
    u1 = u1
    u2 = u2
    i1 = i1
    i2 = i2
    w1 = w1
    w2 = w2
    NoWorker = NoWorker
    e1 = e1
    e2 = e2
    t1 = t1
    t2 = t2
    a1 = a1
    a2 = a2
    q1 = q1
    x1 = x1
    x2 = x2
    Initial = Initial
    h1 = h1
    h2 = h2
    c1 = c1
    c2 = c2
    p1 = p1
    p2 = p2
    d1 = d1
    seller = seller
    buyer = buyer
    Scenarios = {"lots", "kinds", "histories", "rates", "overlaps", "scheduled", "sameDate", "issuing", "listing", "forgetting", "recording", "registering", "messaging", "settings", "late"}
    MaxFaults = 2
CHECK_DEADLOCK FALSE
INVARIANT TypeOK
INVARIANT UploadsAreTrue
INVARIANT HistoriesAreComplete
INVARIANT AttributesAreTrue
INVARIANT EventsAreTrue
INVARIANT TokensAreTrue
INVARIANT RegistrationsAreTrue
INVARIANT MessagesAreRead
PROPERTY EventsInOrder
PROPERTY KeyForgottenUnused
