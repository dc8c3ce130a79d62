\* The codes 1 and 4 are an index into input and one into data.
CONSTANTS
    Length = 3
    ByteMod = 9
    Chars = {1, 4}
    Hanging <- MCHanging
    Base = 2
    ByteSize = 14
    WordSize = 8
    DataSize = 13
    TermSize = 3
    Lines <- MCLines

SPECIFICATION Spec

INVARIANTS
    CommandIsTyped
    NoOtherFault

PROPERTIES
    CommandsEnd
    CommandReturns
