\* The instance of MCShell.cfg, with one command.
CONSTANTS
    Length = 3
    ByteMod = 9
    Chars = {1, 4}
    Hanging <- MCHanging
    Base = 2
    ByteSize = 14
    WordSize = 8
    DataSize = 13
    TermSize = 3
    Lines <- MCSum

SPECIFICATION Spec

INVARIANTS
    AnswerIsRight
