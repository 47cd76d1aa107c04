SPECIFICATION Spec
CONSTANTS
    None = None
    Sessions = {s1}
    Requests <- SomeRequests
    PortAllowed = {5060}
    Proxies = {1, 2, 3}
INVARIANTS
    ClosedSessionOwnsNothing
