\* Two data segments from the peer, one call of Send, one fault. The
\* provider's numbers wrap after its SYN. A connection may come to rest for good.
CONSTANTS
    Peers = {p}
    Nobody = nobody
    Ports = {80}
    FirstFree = 1024
    MaxSockets = 1
    SeqMod = 42
    Isn = 40
    PeerHeader = 20
    Junk = {30}
    Flags <- MCFlags
    Ends = {0, 1, 2}
    MaxData = 2
    DataSize = 2
    DataEnd = 2
    MaxSends = 1
    MaxFaults = 1

SPECIFICATION PeerSpec

INVARIANTS
    DeliveredInOrder
    ResetOnlyForCause
    HangsOnlyAfterDisconnect
    NumbersAgree
    CloseIsComplete

PROPERTIES
    PeerCloses

CHECK_DEADLOCK FALSE
