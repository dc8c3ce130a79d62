CONSTANTS
    Machines <- MCMachines
    FunctionCount = 2
    BarCount = 2
    Ports = {16, 32}
    CommandBytes = {33, 48}
    Codes = {30, 158}
    Packets <- MCPackets
    MaxKeys = 2
    MaxPackets = 2

SPECIFICATION InputSpec

INVARIANTS
    OneDriverPerCard
    PacketsAligned
    KeysInOrder

PROPERTIES
    BytesTaken

CHECK_DEADLOCK FALSE
