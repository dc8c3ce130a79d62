\* The instance of MCTcpPeer.cfg without faults, with data that ends in a zero byte.
CONSTANTS
    Peers = {p}
    Nobody = nobody
    Ports = {80}
    FirstFree = 1024
    MaxSockets = 1
    SeqMod = 42
    Isn = 40
    PeerHeader = 20
    Junk = {30}
    Flags <- MCFlags
    Ends = {0, 1, 2}
    MaxData = 2
    DataSize = 2
    DataEnd = 1
    MaxSends = 1
    MaxFaults = 0

SPECIFICATION PeerSpec

INVARIANT
    ResetOnlyForCause

CHECK_DEADLOCK FALSE
