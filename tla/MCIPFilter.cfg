SPECIFICATION Spec
CONSTANTS
    e1 = e1
    e2 = e2
    i1 = i1
    i2 = i2
    r1 = r1
    r2 = r2
    l1 = l1
    None = None
    Nobody = Nobody
    Entries = {e1, e2}
    Addrs = {i1, i2}
    Net <- HostAndNet
    Requests = {r1, r2}
    Listeners = {l1}
    Files <- SomeFiles
    MaxLen = 2
SYMMETRY Alike
INVARIANTS
    TypeOK
    Agreement
    VerdictInForce
    CheckAgrees
PROPERTIES
    OneChangeAtATime
    OthersKept
