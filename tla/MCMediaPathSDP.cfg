SPECIFICATION Spec
CONSTANTS
    c1 = c1
    h1 = h1
    h2 = h2
    x1 = x1
    s1 = s1
    s2 = s2
    Public = Public
    NoAddr = NoAddr
    None = None
    Proxy = Proxy
    Home = Home
    Private = {h1, h2}
    Calls = {c1}
    Offers <- Other
    Phones = {x1}
    Ports = {101, 102}
    Relays = {1, 2}
    Sockets = {s1, s2}
    MaxWire = 1
    MaxPort = 2
INVARIANT AnnouncedIsMine
