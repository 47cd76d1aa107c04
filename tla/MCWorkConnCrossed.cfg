SPECIFICATION Spec
CONSTANTS
    s1 = s1
    s2 = s2
    n1 = n1
    e1 = e1
    e2 = e2
    e3 = e3
    w1 = w1
    w2 = w2
    w3 = w3
    None = None
    Sessions = {s1, s2}
    Names = {n1}
    NameOf <- SameName
    Exts = {e1, e2, e3}
    Works = {w1, w2, w3}
    QueueCap = 1
    NamesUnique = TRUE
    Faults = {"close"}
    MaxStray = 0
SYMMETRY Alike
INVARIANTS
    JoinedToItsClient
CHECK_DEADLOCK FALSE
