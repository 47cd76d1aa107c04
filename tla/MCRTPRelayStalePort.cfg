SPECIFICATION Spec
CONSTANTS
    s1 = s1
    s2 = s2
    loop = loop
    pipe = pipe
    None = None
    Sessions = {s1, s2}
    Workers = {loop, pipe}
    Loops = {loop}
    Rewriters = {loop, pipe}
    SessionOf <- OneEach
    Calls = {a}
    MaxMedia = 1
    Relays = {1, 2, 3}
    AllowPorts <- ConfiguredPorts
    RTPBase = 10
    DefaultEnd = 20
    WireCap = 1
    Answers = {TRUE}
INVARIANTS
    TablePortsDistinct
