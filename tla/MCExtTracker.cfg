SPECIFICATION Spec
CONSTANTS
    g1 = g1
    n1 = n1
    n2 = n2
    a1 = a1
    a2 = a2
    c1 = c1
    c2 = c2
    None = None
    Watchers = {g1}
    Numbers = {n1, n2}
    Addrs = {a1, a2}
    CallIDs = {c1, c2}
    MaxCalls = 1
    MaxPeers = 1
    MaxTime = 1
    MaxAnswers = 2
    MaxBytes = 1
SYMMETRY Alike
INVARIANTS
    TypeOK
    OnlyRegistered
    TimeCountedOnce
    BytesCountedOnce
    TablesBounded
    AnsweredIsCounted


