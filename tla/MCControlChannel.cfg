SPECIFICATION FairSpec
CONSTANTS
    k1 = k1
    k2 = k2
    a1 = a1
    a2 = a2
    None = None
    Leaked = Leaked
    Conns = {k1, k2}
    Addrs = {a1, a2}
    Proxies = 1
    Interval = 1
    Timeout = 3
    Delay = 1
    MaxFaults = 1
INVARIANTS
    TypeOK
    ListedAreLive
    OnlyAuthenticated
    SilenceBounded
PROPERTIES
    LiveClientKept
    ServedAgain
    ShutdownCompletes
