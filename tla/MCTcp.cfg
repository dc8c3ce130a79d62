\* Two sockets, the ports 80 and 1024 (the first that Connect picks), a single
\* sequence number: every segment is in order. A handler may spin for ever.
CONSTANTS
    Peers = {p, q}
    Nobody = nobody
    Ports = {80, 1024}
    FirstFree = 1024
    MaxSockets = 2
    SeqMod = 1
    Isn = 0
    PeerHeader = 1
    Junk = {0}
    Flags <- MCFlags
    Ends = {1}

SPECIFICATION TcpSpec

SYMMETRY PeerSymmetry

INVARIANTS
    UniqueConnection

CHECK_DEADLOCK FALSE
