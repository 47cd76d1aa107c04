SPECIFICATION FairSpec
CONSTANTS
    s1 = s1
    s2 = s2
    loop = loop
    pipe = pipe
    None = None
    Sessions = {s1}
    Workers = {loop, pipe}
    Loops = {loop}
    Rewriters = {loop, pipe}
    SessionOf <- BothOfS1
    Calls = {a}
    MaxMedia = 1
    Relays = {1, 2}
    AllowPorts <- ConfiguredPorts
    RTPBase = 10
    DefaultEnd = 20
    WireCap = 1
    Answers = {TRUE, FALSE}
INVARIANTS
    TypeOK
    PortOwnership
PROPERTIES
    LeaseRefinement
    IdleReclaimed
    CloseCompletes
