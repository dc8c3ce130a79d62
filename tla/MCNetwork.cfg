\* A gateway, a host beside it and one behind it. A handler may hang.
\* Four ports, of which Connect picks 2, 3 and then, wrapped, 0; a table
\* of three sockets, which fills up.
CONSTANTS
    gateway = gateway
    host = host
    m1 = m1
    m2 = m2
    Self = self
    Neighbours = {gateway, host}
    Gateway = gateway
    Far = {far}
    Macs = {m1, m2, m3}
    OwnMac = own
    Broadcast = broadcast
    InitialMac <- MCInitialMac
    CacheSize = 2
    MaxFrames = 2
    MaxTraffic = 1
    MaxFaults = 1
    Peers = {p, q}
    Base = 2
    FirstFree = 2
    MaxSockets = 3
    Remotes = {1, 2}

SPECIFICATION Spec

INVARIANTS
    NextHopAddressed
    FlowKept
    AnswersReturn

PROPERTIES
    ResolvedForGood
    SendEnds

CHECK_DEADLOCK FALSE
