------------------------------ MODULE Console ------------------------------
(***************************************************************************)
(* The text screen of kernel.cpp: printf, with its cursor in static        *)
(* variables and the marker "<-" behind it, and MouseToConsole, which      *)
(* inverts the cell under the mouse.  Both write the same video memory.    *)
(*                                                                         *)
(* After boot both run inside interrupts only, so that a character and a   *)
(* movement are one step each.  All that printf keeps is static: a string  *)
(* is its characters one by one, but for the one that clears the screen.   *)
(* A cell is its character and two colours, front and back.  Video memory  *)
(* goes on behind the screen, where the marker may stand.                  *)
(* What is printed are keys and the program's strings, which have no "<";  *)
(* not what the calculator prints of arrays that it did not fill.          *)
(***************************************************************************)
EXTENDS Integers

CONSTANTS Width, Height,  \* of the screen, 80 by 25 in the code
          Half,           \* the mouse's place is kept in -Half .. Half - 1
          Letters,        \* visible characters but the marker's "<"
          Light, Dark     \* the colours the screen starts with

ASSUME WidthAssumption == Width \in Nat /\ 2 < Width /\ Width <= Half
ASSUME HeightAssumption == Height \in Nat /\ 1 < Height /\ Height <= Half
ASSUME HalfAssumption == Half \in Nat
ASSUME LettersAssumption ==
    {"x", "-"} \subseteq Letters /\ Letters \cap {" ", "<"} = {}

VARIABLES video,          \* VideoMemory
          x, y,           \* printf's cursor
          mouse           \* MouseToConsole's x and y, <<>> before it exists

consoleVars == <<video, x, y, mouse>>

Screen == 0 .. Width * Height - 1
Cells == 0 .. Width * Height + 2
Cell == [glyph : Letters \union {" ", "<"},
         front : {Light, Dark}, back : {Light, Dark}]

(* Mutant of Shown: the colours are not kept.                              *)
ShownPlain(v, c, glyph) ==
    [v EXCEPT ![c] = [glyph |-> glyph, front |-> Light, back |-> Dark]]

(* A cell's character with "& 0xFF00" of what was there.                   *)
Shown(v, c, glyph) == [v EXCEPT ![c].glyph = glyph]

(* A cell with its colours exchanged.                                      *)
Inverted(v, c) == [v EXCEPT ![c].front = v[c].back, ![c].back = v[c].front]

ConsoleInit ==
    /\ video = [c \in Cells |-> [glyph |-> " ", front |-> Light, back |-> Dark]]
    /\ x = 0 /\ y = 0
    /\ mouse = <<>>

-----------------------------------------------------------------------------
(* printf's state, and the cell of its cursor.                             *)
State(v, column, row) == [video |-> v, x |-> column, y |-> row]
At(s) == Width * s.y + s.x

(* The two cells behind the cursor.                                        *)
Marked(s, first, second) ==
    State(Shown(Shown(s.video, At(s) + 1, first), At(s) + 2, second), s.x, s.y)

Backspace(s) ==
    IF s.x = 0 THEN s
    ELSE State(Shown(s.video, At(s) - 1, " "), s.x - 1, s.y)

Character(s, c) ==
    IF c = "newline" THEN State(s.video, 0, s.y + 1)
    ELSE IF c = "backspace" THEN Backspace(s)
    ELSE State(Shown(s.video, At(s), c), s.x + 1, s.y)

(* Mutant of Wrapped: a line is one character longer.                      *)
WrappedLate(s) == IF s.x > Width THEN State(s.video, 0, s.y + 1) ELSE s

Wrapped(s) == IF s.x >= Width THEN State(s.video, 0, s.y + 1) ELSE s

(* All of the screen blank; what is behind it stays.                       *)
Cleared(s) ==
    State([c \in Cells |-> IF c \in Screen THEN [s.video[c] EXCEPT !.glyph = " "]
                           ELSE s.video[c]], 0, 0)

Scrolled(s) == IF s.y >= Height THEN Cleared(s) ELSE s

Printed(s, c) ==
    Scrolled(Wrapped(Marked(Character(Marked(s, " ", " "), c), "<", "-")))

Becomes(s) == video' = s.video /\ x' = s.x /\ y' = s.y /\ UNCHANGED mouse

Put(c) == Becomes(Printed(State(video, x, y), c))

(* printf("xxbkgxx"): the screen is cleared after each of its letters, and *)
(* the first leaves what the others do.                                    *)
ClearScreen == Becomes(Cleared(Printed(State(video, x, y), "x")))

-----------------------------------------------------------------------------
(* A value kept in an int8_t.                                              *)
Int8(v) == ((v + Half) % (2 * Half)) - Half

Clamped(v, size) ==
    IF v >= size THEN size - 1 ELSE IF v < 0 THEN 0 ELSE v

MouseCell(m) == Width * m[2] + m[1]

(* The constructor.                                                        *)
MouseToConsole ==
    /\ mouse = <<>>
    /\ mouse' = <<Width \div 2, Height \div 2>>
    /\ video' = Inverted(video, MouseCell(mouse'))
    /\ UNCHANGED <<x, y>>

(* The driver passes the second offset negated.                            *)
OnMouseMove(xoffset, yoffset) ==
    /\ mouse # <<>>
    /\ mouse' = <<Clamped(Int8(mouse[1] + xoffset), Width),
                  Clamped(Int8(mouse[2] - yoffset), Height)>>
    /\ video' = Inverted(Inverted(video, MouseCell(mouse)), MouseCell(mouse'))
    /\ UNCHANGED <<x, y>>

Offsets == -Half .. Half - 1

ConsoleNext ==
    \/ \E c \in Letters \union {" ", "newline", "backspace"} : Put(c)
    \/ ClearScreen
    \/ MouseToConsole
    \/ \E xoffset, yoffset \in Offsets : OnMouseMove(xoffset, yoffset)

ConsoleSpec == ConsoleInit /\ [][ConsoleNext]_consoleVars

-----------------------------------------------------------------------------
(* Both cursors are on the screen, and video memory holds cells            *)
(* (kernel.cpp:46, 668-702).                                               *)
ConsoleTypeOK ==
    /\ video \in [Cells -> Cell]
    /\ x \in 0 .. Width - 1
    /\ y \in 0 .. Height - 1
    /\ mouse = <<>> \/ mouse \in (0 .. Width - 1) \X (0 .. Height - 1)

(* The one inverted cell is the mouse's, whatever is printed under it and  *)
(* however far it moves: printf writes characters and keeps colours, and   *)
(* no other cell stays inverted (kernel.cpp:50-97, 683-700).               *)
OneCellInverted ==
    \A c \in Cells :
        video[c].front = (IF mouse # <<>> /\ c = MouseCell(mouse)
                          THEN Dark ELSE Light)

(* printf never overwrites text: from its cursor on the screen is blank    *)
(* but for the marker, and no old marker stands before it, although lines  *)
(* wrap and are taken back (kernel.cpp:48-97).                             *)
MarkerFollows ==
    LET cursor == At(State(video, x, y))
    IN  \A c \in Screen :
            /\ video[c].glyph = "<" => c = cursor + 1
            /\ c >= cursor =>
                  video[c].glyph \in {" "} \union
                      (IF c = cursor + 1 THEN {"<"} ELSE {}) \union
                      (IF c = cursor + 2 THEN {"-"} ELSE {})
=============================================================================
