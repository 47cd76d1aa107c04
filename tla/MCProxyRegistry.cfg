SPECIFICATION FairSpec
CONSTANTS
    None = None
    Sessions = {s1, s2}
    Requests <- SomeRequests
    PortAllowed = {5060}
    Proxies = {1, 2}
INVARIANTS
    TypeOK
    RegistryExact
PROPERTIES
    NamesNeverReplaced
    CloseReleasesKeys
