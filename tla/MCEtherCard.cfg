\* A ring of 2: empty, one frame, full; two frames to tell their order.
CONSTANTS
    f = f
    g = g
    d = d
    Frames = {f, g}
    Damaged = {d}
    Nothing = nothing
    RingSize = 2
    SendStart = 0
    RecvStart = 1
    Size <- MCSize

SPECIFICATION Spec

INVARIANTS
    FrameHeldWhileHandled

PROPERTIES
    SendIsQueue
    RecvIsQueue
    SendSlotsComeBack
