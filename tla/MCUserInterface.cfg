\* An int8_t of eight values: from the last column, a long move to the right
\* wraps.
CONSTANTS
    Width = 4
    Height = 2
    Half = 4
    Letters = {"x", "-"}
    Light = light
    Dark = dark
    Columns = 4
    Rows = 2
    Registers <- MCRegisters
    Windows <- MCWindows
    Inner <- MCInner
    Box <- MCBox
    MaxChildren = 2
    Buttons = {1, 2}
    MouseOffsets <- MCMouseOffsets
    None = None

SPECIFICATION Spec

INVARIANTS
    OneCellInverted
    MarkerFollows
    ModeIsSet
    ShownIsHit
    FrontLetsGo
    KeysFollowClick

PROPERTIES
    MovesOnce
