----------------------- MODULE UserInterface_proofs -----------------------
(* The text screen's colours, marker and cursors, for a screen of any      *)
(* size; the desktop's drawing, focus and dragging, for any windows and    *)
(* widgets; the card's mode, for any table of registers; and the answers   *)
(* of the calculator, for any base, width of numbers and commands.         *)
EXTENDS Console, Gui, Calculator, SequenceLemmas

Glyphs == Letters \union {" ", "<"}
XPlaces == 0 .. Width - 1
YPlaces == 0 .. Height - 1

(* Video memory in which the cell at, and no other, is inverted.           *)
InvertedAt(v, at) ==
    /\ v \in [Cells -> Cell]
    /\ \A c \in Cells :
          /\ v[c].front = IF c = at THEN Dark ELSE Light
          /\ v[c].back = IF c = at THEN Light ELSE Dark

(* The mouse's cell, or none.                                              *)
Pointed(m) == IF m = <<>> THEN -1 ELSE MouseCell(m)

(* The inductive invariant.                                                *)
ConsoleInv == /\ ConsoleTypeOK
              /\ InvertedAt(video, Pointed(mouse))

(* A state of printf in the middle of a character.                         *)
Printing(s, at, columns, rows) ==
    s.x \in columns /\ s.y \in rows /\ InvertedAt(s.video, at)

-----------------------------------------------------------------------------
(* A character written anywhere keeps the colours.                         *)
LEMMA ShownKeepsColours ==
    ASSUME NEW v, NEW at, InvertedAt(v, at), NEW c, NEW glyph \in Glyphs
    PROVE  InvertedAt(Shown(v, c, glyph), at)
  <1>1. /\ v \in [Cells -> Cell]
        /\ \A d \in Cells : v[d] \in Cell
    BY DEF InvertedAt
  <1>2. ASSUME NEW d \in Cells
        PROVE  /\ Shown(v, c, glyph)[d] \in Cell
               /\ Shown(v, c, glyph)[d].front = v[d].front
               /\ Shown(v, c, glyph)[d].back = v[d].back
    <2>1. CASE d = c
      <3>1. Shown(v, c, glyph)[d] = [v[d] EXCEPT !.glyph = glyph]
        BY <1>1, <2>1 DEF Shown
      <3>2. v[d] \in Cell
        BY <1>1
      <3>3. QED BY <3>1, <3>2 DEF Cell, Glyphs
    <2>2. CASE d # c
      BY <1>1, <2>2 DEF Shown
    <2>3. QED BY <2>1, <2>2
  <1>3. Shown(v, c, glyph) = [d \in Cells |-> Shown(v, c, glyph)[d]]
    BY <1>1 DEF Shown
  <1>4. Shown(v, c, glyph) \in [Cells -> Cell]
    BY <1>2, <1>3
  <1>5. QED BY <1>2, <1>4 DEF InvertedAt

(* Inverting a cell moves the mouse there,                                 *)
LEMMA InvertedMovesIn ==
    ASSUME NEW v, NEW at, InvertedAt(v, -1)
    PROVE  InvertedAt(Inverted(v, at), at)
  <1>1. -1 \notin Cells
    BY DEF Cells
  <1>2. v \in [Cells -> Cell] /\ \A d \in Cells : v[d] \in Cell
    BY DEF InvertedAt
  <1>3. ASSUME NEW d \in Cells
        PROVE  /\ Inverted(v, at)[d] \in Cell
               /\ Inverted(v, at)[d].front = IF d = at THEN Dark ELSE Light
               /\ Inverted(v, at)[d].back = IF d = at THEN Light ELSE Dark
    <2>1. v[d].front = Light /\ v[d].back = Dark /\ v[d] \in Cell
      BY <1>1, <1>2 DEF InvertedAt
    <2>2. CASE d = at
      <3>1. Inverted(v, at)[d] = [v[d] EXCEPT !.front = v[d].back, !.back = v[d].front]
        BY <1>2, <2>2 DEF Inverted
      <3>2. QED BY <2>1, <2>2, <3>1 DEF Cell
    <2>3. CASE d # at
      BY <1>2, <2>1, <2>3 DEF Inverted
    <2>4. QED BY <2>2, <2>3
  <1>4. Inverted(v, at) = [d \in Cells |-> Inverted(v, at)[d]]
    BY <1>2 DEF Inverted
  <1>5. Inverted(v, at) \in [Cells -> Cell]
    BY <1>3, <1>4
  <1>6. QED BY <1>3, <1>5 DEF InvertedAt

(* or away from there.                                                     *)
LEMMA InvertedMovesOut ==
    ASSUME NEW v, NEW at, InvertedAt(v, at)
    PROVE  InvertedAt(Inverted(v, at), -1)
  <1>1. -1 \notin Cells
    BY DEF Cells
  <1>2. v \in [Cells -> Cell] /\ \A d \in Cells : v[d] \in Cell
    BY DEF InvertedAt
  <1>3. ASSUME NEW d \in Cells
        PROVE  /\ Inverted(v, at)[d] \in Cell
               /\ Inverted(v, at)[d].front = Light
               /\ Inverted(v, at)[d].back = Dark
    <2>1. v[d] \in Cell
      BY <1>2
    <2>2. CASE d = at
      <3>1. Inverted(v, at)[d] = [v[d] EXCEPT !.front = v[d].back, !.back = v[d].front]
        BY <1>2, <2>2 DEF Inverted
      <3>2. v[d].front = Dark /\ v[d].back = Light
        BY <2>2 DEF InvertedAt
      <3>3. QED BY <2>1, <3>1, <3>2 DEF Cell
    <2>3. CASE d # at
      <3>1. v[d].front = Light /\ v[d].back = Dark
        BY <2>3 DEF InvertedAt
      <3>2. QED BY <1>2, <2>1, <2>3, <3>1 DEF Inverted
    <2>4. QED BY <2>2, <2>3
  <1>4. Inverted(v, at) = [d \in Cells |-> Inverted(v, at)[d]]
    BY <1>2 DEF Inverted
  <1>5. Inverted(v, at) \in [Cells -> Cell]
    BY <1>3, <1>4
  <1>6. QED BY <1>1, <1>3, <1>5 DEF InvertedAt

-----------------------------------------------------------------------------
(* A place below n, and the places beside it.                              *)
LEMMA Below ==
    ASSUME NEW n \in Nat, NEW k \in 0 .. n - 1
    PROVE  /\ k \in 0 .. n /\ k # n
           /\ k + 1 \in 0 .. n
           /\ k # 0 => k - 1 \in 0 .. n
  OBVIOUS

(* There is a first column,                                                *)
LEMMA FirstColumn == 0 \in 0 .. Width
  BY WidthAssumption

(* and a place that is not past the end is below it.                       *)
LEMMA BelowEnd ==
    ASSUME NEW n \in Nat, NEW k \in 0 .. n, ~(k >= n)
    PROVE  k \in 0 .. n - 1
  OBVIOUS

(* The marker, drawn or erased, moves no cursor.                           *)
LEMMA MarkedPrinting ==
    ASSUME NEW s, NEW at, NEW columns, NEW rows, Printing(s, at, columns, rows),
           NEW first \in Glyphs, NEW second \in Glyphs
    PROVE  Printing(Marked(s, first, second), at, columns, rows)
  <1>1. InvertedAt(Shown(s.video, At(s) + 1, first), at)
    BY ShownKeepsColours DEF Printing
  <1>2. InvertedAt(Shown(Shown(s.video, At(s) + 1, first), At(s) + 2, second), at)
    BY <1>1, ShownKeepsColours
  <1>3. QED BY <1>2 DEF Printing, Marked, State

(* A character moves the cursor at most one column or row too far.         *)
LEMMA CharacterPrinting ==
    ASSUME NEW s, NEW at, Printing(s, at, XPlaces, YPlaces),
           NEW c \in Letters \union {" ", "newline", "backspace"}
    PROVE  Printing(Character(s, c), at, 0 .. Width, 0 .. Height)
  <1>1. /\ s.x \in 0 .. Width /\ s.y \in 0 .. Height
        /\ s.x + 1 \in 0 .. Width /\ s.y + 1 \in 0 .. Height
        /\ s.x # 0 => s.x - 1 \in 0 .. Width
        /\ 0 \in 0 .. Width
    <2>1. s.x \in 0 .. Width - 1 /\ s.y \in 0 .. Height - 1
      BY DEF Printing, XPlaces, YPlaces
    <2>2. /\ s.x \in 0 .. Width /\ s.x + 1 \in 0 .. Width
          /\ s.x # 0 => s.x - 1 \in 0 .. Width
      BY <2>1, Below, WidthAssumption
    <2>3. s.y \in 0 .. Height /\ s.y + 1 \in 0 .. Height
      BY <2>1, Below, HeightAssumption
    <2>4. QED BY <2>2, <2>3, FirstColumn
  <1>2. InvertedAt(s.video, at)
    BY DEF Printing
  <1>3. CASE c = "newline"
    BY <1>1, <1>2, <1>3 DEF Character, State, Printing
  <1>4. CASE c = "backspace"
    <2>1. InvertedAt(Shown(s.video, At(s) - 1, " "), at)
      BY <1>2, ShownKeepsColours DEF Glyphs
    <2>2. Printing(Backspace(s), at, 0 .. Width, 0 .. Height)
      BY <1>1, <1>2, <2>1 DEF Backspace, State, Printing
    <2>3. QED BY <1>4, <2>2 DEF Character
  <1>5. CASE c \notin {"newline", "backspace"}
    <2>1. InvertedAt(Shown(s.video, At(s), c), at)
      BY <1>2, <1>5, ShownKeepsColours DEF Glyphs
    <2>2. QED BY <1>1, <1>5, <2>1 DEF Character, State, Printing
  <1>6. QED BY <1>3, <1>4, <1>5

(* The end of a line brings the column back,                               *)
LEMMA WrappedPrinting ==
    ASSUME NEW s, NEW at, Printing(s, at, 0 .. Width, 0 .. Height),
           s.y = Height => s.x = 0
    PROVE  Printing(Wrapped(s), at, XPlaces, 0 .. Height)
  BY WidthAssumption, HeightAssumption DEF Printing, XPlaces, Wrapped, State

(* and a cleared screen both.                                              *)
LEMMA ClearedPrinting ==
    ASSUME NEW s, NEW at, InvertedAt(s.video, at)
    PROVE  Printing(Cleared(s), at, XPlaces, YPlaces)
  <1> DEFINE v == [c \in Cells |-> IF c \in Screen
                                   THEN [s.video[c] EXCEPT !.glyph = " "]
                                   ELSE s.video[c]]
  <1>1. ASSUME NEW c \in Cells
        PROVE  /\ v[c] \in Cell
               /\ v[c].front = s.video[c].front
               /\ v[c].back = s.video[c].back
    <2>1. s.video[c] \in Cell
      BY DEF InvertedAt
    <2>2. [s.video[c] EXCEPT !.glyph = " "] \in Cell
      BY <2>1 DEF Cell
    <2>3. QED BY <2>1, <2>2 DEF Cell
  <1>2. v \in [Cells -> Cell]
    BY <1>1
  <1>3. InvertedAt(v, at)
    <2> HIDE DEF v
    <2> QED BY <1>1, <1>2 DEF InvertedAt
  <1>4. Cleared(s) = State(v, 0, 0)
    BY DEF Cleared
  <1>5. QED
    <2> HIDE DEF v
    <2> QED BY <1>3, <1>4, WidthAssumption, HeightAssumption
            DEF Printing, State, XPlaces, YPlaces

(* So a whole character leaves the cursor on the screen.                   *)
LEMMA PrintedPrinting ==
    ASSUME NEW s, NEW at, Printing(s, at, XPlaces, YPlaces),
           NEW c \in Letters \union {" ", "newline", "backspace"}
    PROVE  Printing(Printed(s, c), at, XPlaces, YPlaces)
  <1> DEFINE erased == Marked(s, " ", " ")
             put == Character(erased, c)
             marked == Marked(put, "<", "-")
             wrapped == Wrapped(marked)
  <1>1. {" ", "<", "-"} \subseteq Glyphs
    BY LettersAssumption DEF Glyphs
  <1>2. Printing(erased, at, XPlaces, YPlaces)
    BY <1>1, MarkedPrinting
  <1>3. Printing(put, at, 0 .. Width, 0 .. Height)
    <2> HIDE DEF erased
    <2> QED BY <1>2, CharacterPrinting
  <1>4. put.y = Height => put.x = 0
    <2> HIDE DEF erased
    <2>1. erased.y \in YPlaces
      BY <1>2 DEF Printing
    <2>2. erased.y # Height
      BY <2>1, HeightAssumption, Below DEF YPlaces
    <2>3. c # "newline" => put.y = erased.y
      BY DEF Character, Backspace, State
    <2>4. c = "newline" => put.x = 0
      BY DEF Character, State
    <2>5. QED BY <2>2, <2>3, <2>4
  <1>5. Printing(marked, at, 0 .. Width, 0 .. Height)
    <2> HIDE DEF put
    <2> QED BY <1>1, <1>3, MarkedPrinting
  <1>6. marked.x = put.x /\ marked.y = put.y
    <2> HIDE DEF put
    <2> QED BY DEF Marked, State
  <1>7. Printing(wrapped, at, XPlaces, 0 .. Height)
    <2> HIDE DEF put, marked
    <2> QED BY <1>4, <1>5, <1>6, WrappedPrinting
  <1>8. Printing(Scrolled(wrapped), at, XPlaces, YPlaces)
    <2> HIDE DEF wrapped
    <2>1. CASE wrapped.y >= Height
      BY <1>7, <2>1, ClearedPrinting DEF Scrolled, Printing
    <2>2. CASE ~(wrapped.y >= Height)
      <3>1. wrapped.y \in YPlaces
        BY <1>7, <2>2, HeightAssumption, BelowEnd DEF Printing, YPlaces
      <3>2. QED BY <1>7, <2>2, <3>1 DEF Scrolled, Printing
    <2>3. QED BY <2>1, <2>2
  <1>9. QED BY <1>8 DEF Printed

(* A new state of printf that is well formed keeps the invariant.          *)
LEMMA BecomesInv ==
    ASSUME ConsoleInv, NEW s, Printing(s, Pointed(mouse), XPlaces, YPlaces), Becomes(s)
    PROVE  ConsoleInv'
  BY DEF ConsoleInv, ConsoleTypeOK, Printing, Becomes, XPlaces, YPlaces, InvertedAt,
         Pointed, MouseCell

-----------------------------------------------------------------------------
(* Wherever a movement leads, the mouse stays on the screen.               *)
LEMMA ClampedInBounds ==
    ASSUME NEW v \in Int, NEW size \in Nat, size > 0
    PROVE  Clamped(v, size) \in 0 .. size - 1
  BY DEF Clamped

(* An int8_t is a number.                                                  *)
LEMMA Int8IsInt == ASSUME NEW v \in Int PROVE Int8(v) \in Int
  <1>1. Half \in Nat /\ Half > 0
    BY HalfAssumption, WidthAssumption
  <1>2. ((v + Half) % (2 * Half)) \in Int
    BY <1>1
  <1>3. QED BY <1>1, <1>2 DEF Int8

(* A mouse on the screen is at a cell.                                     *)
LEMMA PointedAtMouse ==
    ASSUME NEW m \in XPlaces \X YPlaces
    PROVE  Pointed(m) = MouseCell(m)
  <1>1. m # <<>>
    OBVIOUS
  <1>2. QED BY <1>1 DEF Pointed

(* The constructor and a movement take the inversion along.                *)
LEMMA MouseInv ==
    ASSUME ConsoleInv, NEW m \in XPlaces \X YPlaces, mouse' = m,
           NEW v, InvertedAt(v, -1), video' = Inverted(v, MouseCell(m)),
           UNCHANGED <<x, y>>
    PROVE  ConsoleInv'
  <1>1. InvertedAt(Inverted(v, MouseCell(m)), MouseCell(m))
    BY InvertedMovesIn
  <1>2. InvertedAt(video, Pointed(mouse))'
    BY <1>1, PointedAtMouse DEF Pointed, MouseCell, InvertedAt
  <1>3. ConsoleTypeOK'
    BY <1>1 DEF ConsoleInv, ConsoleTypeOK, InvertedAt, XPlaces, YPlaces
  <1>4. QED BY <1>2, <1>3 DEF ConsoleInv

(* At the start no cell is inverted.                                       *)
LEMMA InitInv == ConsoleInit => ConsoleInv
  <1> SUFFICES ASSUME ConsoleInit PROVE ConsoleInv
    OBVIOUS
  <1>1. [glyph |-> " ", front |-> Light, back |-> Dark] \in Cell
    BY DEF Cell
  <1>2. -1 \notin Cells
    BY DEF Cells
  <1>3. /\ video \in [Cells -> Cell]
        /\ \A c \in Cells : video[c].front = Light /\ video[c].back = Dark
    BY <1>1 DEF ConsoleInit
  <1>4. InvertedAt(video, -1)
    BY <1>2, <1>3 DEF InvertedAt
  <1>5. 0 \in 0 .. Width - 1 /\ 0 \in 0 .. Height - 1
    BY WidthAssumption, HeightAssumption
  <1>6. ConsoleTypeOK
    BY <1>3, <1>5 DEF ConsoleInit, ConsoleTypeOK
  <1>7. QED BY <1>4, <1>6 DEF ConsoleInv, ConsoleInit, Pointed

(* Each step keeps the invariant.                                          *)
LEMMA NextInv == ConsoleInv /\ [ConsoleNext]_consoleVars => ConsoleInv'
  <1> SUFFICES ASSUME ConsoleInv, [ConsoleNext]_consoleVars PROVE ConsoleInv'
    OBVIOUS
  <1> DEFINE s == State(video, x, y)
  <1>1. Printing(s, Pointed(mouse), XPlaces, YPlaces)
    BY DEF ConsoleInv, ConsoleTypeOK, Printing, State, XPlaces, YPlaces
  <1>2. ASSUME NEW c \in Letters \union {" ", "newline", "backspace"}, Put(c)
        PROVE  ConsoleInv'
    <2>1. Becomes(Printed(s, c))
      BY <1>2 DEF Put
    <2> HIDE DEF s
    <2>2. QED BY <1>1, <2>1, PrintedPrinting, BecomesInv
  <1>3. CASE ClearScreen
    <2>1. Becomes(Cleared(Printed(s, "x")))
      BY <1>3 DEF ClearScreen
    <2> HIDE DEF s
    <2>2. Printing(Printed(s, "x"), Pointed(mouse), XPlaces, YPlaces)
      BY <1>1, PrintedPrinting, LettersAssumption
    <2>3. Printing(Cleared(Printed(s, "x")), Pointed(mouse), XPlaces, YPlaces)
      BY <2>2, ClearedPrinting DEF Printing
    <2>4. QED BY <2>1, <2>3, BecomesInv
  <1>4. CASE MouseToConsole
    <2>1. <<Width \div 2, Height \div 2>> \in XPlaces \X YPlaces
      BY WidthAssumption, HeightAssumption DEF XPlaces, YPlaces
    <2>2. InvertedAt(video, -1)
      BY <1>4 DEF MouseToConsole, ConsoleInv, Pointed
    <2>3. QED BY <1>4, <2>1, <2>2, MouseInv DEF MouseToConsole
  <1>5. ASSUME NEW xoffset \in Offsets, NEW yoffset \in Offsets,
               OnMouseMove(xoffset, yoffset)
        PROVE  ConsoleInv'
    <2> DEFINE m == <<Clamped(Int8(mouse[1] + xoffset), Width),
                      Clamped(Int8(mouse[2] - yoffset), Height)>>
    <2>1. mouse \in XPlaces \X YPlaces
      BY <1>5 DEF OnMouseMove, ConsoleInv, ConsoleTypeOK, XPlaces, YPlaces
    <2>2. xoffset \in Int /\ yoffset \in Int
      BY HalfAssumption DEF Offsets
    <2>3. mouse[1] \in Int /\ mouse[2] \in Int
      BY <2>1, WidthAssumption, HeightAssumption DEF XPlaces, YPlaces
    <2>4. Int8(mouse[1] + xoffset) \in Int /\ Int8(mouse[2] - yoffset) \in Int
      BY <2>2, <2>3, Int8IsInt
    <2>5. m \in XPlaces \X YPlaces
      BY <2>4, ClampedInBounds, WidthAssumption, HeightAssumption DEF XPlaces, YPlaces
    <2>6. InvertedAt(Inverted(video, MouseCell(mouse)), -1)
      BY <2>1, PointedAtMouse, InvertedMovesOut DEF ConsoleInv
    <2>7. /\ mouse' = m /\ UNCHANGED <<x, y>>
          /\ video' = Inverted(Inverted(video, MouseCell(mouse)), MouseCell(m))
      BY <1>5 DEF OnMouseMove
    <2> HIDE DEF m
    <2>8. QED BY <2>5, <2>6, <2>7, MouseInv
  <1>6. CASE UNCHANGED consoleVars
    BY <1>6 DEF consoleVars, ConsoleInv, ConsoleTypeOK, InvertedAt, Pointed, MouseCell
  <1>7. QED BY <1>2, <1>3, <1>4, <1>5, <1>6 DEF ConsoleNext

(* The invariant holds always.                                             *)
LEMMA AlwaysConsoleInv == ConsoleSpec => []ConsoleInv
  BY InitInv, NextInv, PTL DEF ConsoleSpec

(* Both cursors stay on the screen (kernel.cpp:46, 668-702).               *)
THEOREM ConsoleTypeCorrect == ConsoleSpec => []ConsoleTypeOK
  <1>1. ConsoleInv => ConsoleTypeOK
    BY DEF ConsoleInv
  <1>2. QED BY <1>1, AlwaysConsoleInv, PTL

(* The one inverted cell is the mouse's (kernel.cpp:50-97, 683-700).       *)
THEOREM MouseCellInverted == ConsoleSpec => []OneCellInverted
  <1>1. ConsoleInv => OneCellInverted
    <2> SUFFICES ASSUME ConsoleInv PROVE OneCellInverted
      OBVIOUS
    <2>1. -1 \notin Cells
      BY DEF Cells
    <2>2. CASE mouse = <<>>
      BY <2>1, <2>2 DEF ConsoleInv, Pointed, InvertedAt, OneCellInverted
    <2>3. CASE mouse # <<>>
      BY <2>3 DEF ConsoleInv, Pointed, InvertedAt, OneCellInverted
    <2>4. QED BY <2>2, <2>3
  <1>2. QED BY <1>1, AlwaysConsoleInv, PTL

-----------------------------------------------------------------------------
(* Names for the characters that the proofs tell apart.                    *)
Space == " "
Bracket == "<"
Dash == "-"
Keys == Letters \union {" ", "newline", "backspace"}

(* From the cursor on nothing is on the screen, and no marker before it.   *)
Blank(s) ==
    \A c \in Screen :
        /\ s.video[c].glyph # Bracket
        /\ c >= At(s) => s.video[c].glyph = Space

(* MarkerFollows of a state of printf.                                     *)
Follows(s) ==
    \A c \in Screen :
        /\ s.video[c].glyph = Bracket => c = At(s) + 1
        /\ c >= At(s) =>
              \/ s.video[c].glyph = Space
              \/ c = At(s) + 1 /\ s.video[c].glyph = Bracket
              \/ c = At(s) + 2 /\ s.video[c].glyph = Dash

(* They differ.                                                            *)
LEMMA Marks ==
    /\ Space # Bracket /\ Dash # Bracket
    /\ {Space, Bracket, Dash} \subseteq Glyphs
    /\ \A c \in Letters : c # Bracket
  <1>1. Space # Bracket /\ Dash # Bracket
    BY DEF Space, Bracket, Dash
  <1>2. \A c \in Letters : c # Bracket
    BY LettersAssumption DEF Bracket
  <1>3. Dash \in Letters
    BY LettersAssumption DEF Dash
  <1>4. QED BY <1>1, <1>2, <1>3 DEF Glyphs, Space, Bracket

(* What printf makes of a character.                                       *)
LEMMA CharacterCases ==
    ASSUME NEW s, NEW c \in Keys
    PROVE  \/ Character(s, c) = State(s.video, 0, s.y + 1)
           \/ s.x = 0 /\ Character(s, c) = s
           \/ /\ s.x # 0
              /\ Character(s, c) = State(Shown(s.video, At(s) - 1, Space), s.x - 1, s.y)
           \/ /\ c # Bracket
              /\ Character(s, c) = State(Shown(s.video, At(s), c), s.x + 1, s.y)
  <1>1. CASE c = "newline"
    BY <1>1 DEF Character
  <1>2. CASE c = "backspace"
    BY <1>2 DEF Character, Backspace, Space
  <1>3. CASE c \in Letters \union {" "}
    <2>1. CASE c = "newline" \/ c = "backspace"
      BY <1>1, <1>2, <2>1
    <2>2. CASE c # "newline" /\ c # "backspace"
      <3>1. c # Bracket
        BY <1>3, Marks DEF Space
      <3>2. QED BY <2>2, <3>1 DEF Character
    <2>3. QED BY <2>1, <2>2
  <1>4. QED BY <1>1, <1>2, <1>3 DEF Keys

(* A character is written to one cell.                                     *)
LEMMA ShownGlyph ==
    ASSUME NEW v \in [Cells -> Cell], NEW c, NEW glyph, NEW d \in Cells
    PROVE  Shown(v, c, glyph)[d].glyph = IF d = c THEN glyph ELSE v[d].glyph
  <1>1. v[d] \in Cell
    OBVIOUS
  <1>2. CASE d = c
    <2>1. Shown(v, c, glyph)[d] = [v[d] EXCEPT !.glyph = glyph]
      BY <1>2 DEF Shown
    <2>2. QED BY <1>1, <1>2, <2>1 DEF Cell
  <1>3. CASE d # c
    BY <1>3 DEF Shown
  <1>4. QED BY <1>2, <1>3

(* The cells behind the cursor.                                            *)
LEMMA MarkedGlyphs ==
    ASSUME NEW s, NEW at, NEW columns, NEW rows, Printing(s, at, columns, rows),
           NEW first \in Glyphs, NEW second \in Glyphs, NEW c \in Cells
    PROVE  /\ At(Marked(s, first, second)) = At(s)
           /\ Marked(s, first, second).video[c].glyph =
                  IF c = At(s) + 2 THEN second
                  ELSE IF c = At(s) + 1 THEN first ELSE s.video[c].glyph
  <1> DEFINE v == Shown(s.video, At(s) + 1, first)
  <1>1. v \in [Cells -> Cell] /\ s.video \in [Cells -> Cell]
    <2>1. InvertedAt(s.video, at)
      BY DEF Printing
    <2>2. InvertedAt(v, at)
      BY <2>1, ShownKeepsColours
    <2>3. QED BY <2>1, <2>2 DEF InvertedAt
  <1>2. v[c].glyph = IF c = At(s) + 1 THEN first ELSE s.video[c].glyph
    BY <1>1, ShownGlyph
  <1>3. Marked(s, first, second) = State(Shown(v, At(s) + 2, second), s.x, s.y)
    BY DEF Marked
  <1> HIDE DEF v
  <1>4. Shown(v, At(s) + 2, second)[c].glyph = IF c = At(s) + 2 THEN second ELSE v[c].glyph
    BY <1>1, ShownGlyph
  <1>5. At(Marked(s, first, second)) = At(s)
    BY <1>3 DEF At, State
  <1>6. QED BY <1>2, <1>3, <1>4, <1>5 DEF State

(* The cursor's cell is a number,                                          *)
LEMMA AtIsInt ==
    ASSUME NEW s, s.x \in Int, s.y \in Int
    PROVE  At(s) \in Int
  BY WidthAssumption DEF At

(* and so are the screen's cells.                                          *)
LEMMA ScreenIsCells == Screen \subseteq Cells /\ Screen \subseteq Int
  <1>1. Width * Height \in Int
    BY WidthAssumption, HeightAssumption
  <1>2. QED BY <1>1 DEF Screen, Cells

(* Erasing the marker leaves nothing from the cursor on.                   *)
LEMMA ErasedBlank ==
    ASSUME NEW s, NEW at, Printing(s, at, XPlaces, YPlaces), Follows(s)
    PROVE  Blank(Marked(s, Space, Space))
  <1> DEFINE t == Marked(s, Space, Space)
  <1>1. ASSUME NEW c \in Screen
        PROVE  /\ At(t) = At(s)
               /\ t.video[c].glyph # Bracket
               /\ c >= At(s) => t.video[c].glyph = Space
    <2>1. Space \in Glyphs /\ c \in Cells
      BY Marks, ScreenIsCells
    <2>2. /\ At(t) = At(s)
          /\ t.video[c].glyph = IF c = At(s) + 2 THEN Space
                                ELSE IF c = At(s) + 1 THEN Space ELSE s.video[c].glyph
      BY <2>1, MarkedGlyphs
    <2>3. QED BY <2>2, Marks DEF Follows
  <1> HIDE DEF t
  <1>2. Blank(t)
    BY <1>1 DEF Blank
  <1>3. QED BY <1>2 DEF t

(* The cells beside the cursor's and at the start of the next row.         *)
LEMMA NextRow ==
    ASSUME NEW column \in Int, NEW row \in Int
    PROVE  /\ Width * (row + 1) + 0 = (Width * row + column) + (Width - column)
           /\ Width * row + (column + 1) = (Width * row + column) + 1
           /\ Width * row + (column - 1) = (Width * row + column) - 1
  <1>1. Width \in Int /\ Width * row \in Int
    BY WidthAssumption
  <1>2. Width * (row + 1) = Width * row + Width
    BY <1>1
  <1>3. QED BY <1>1, <1>2

(* A character leaves nothing behind its cursor,                           *)
LEMMA CharacterBlank ==
    ASSUME NEW s, NEW at, Printing(s, at, XPlaces, YPlaces), Blank(s), NEW c \in Keys
    PROVE  Blank(Character(s, c))
  <1> DEFINE column == s.x
             row == s.y
             v == s.video
             p == At(s)
  <1>1. column \in Int /\ row \in Int /\ Width - column > 0 /\ Width \in Int
    <2>1. column \in 0 .. Width - 1 /\ row \in 0 .. Height - 1
      BY DEF Printing, XPlaces, YPlaces
    <2> HIDE DEF column, row
    <2>2. Width \in Int /\ Height \in Int
      BY WidthAssumption, HeightAssumption
    <2>3. QED BY <2>1, <2>2
  <1>2. p = Width * row + column
    BY DEF At
  <1>3. p \in Int
    BY <1>1, AtIsInt
  <1>4. v \in [Cells -> Cell]
    BY DEF Printing, InvertedAt
  <1>5. \A d \in Screen : v[d].glyph # Bracket /\ (d >= p => v[d].glyph = Space)
    BY DEF Blank
  <1>6. \A d \in Screen : d \in Cells /\ d \in Int
    BY ScreenIsCells
  <1>7. CASE Character(s, c) = State(v, 0, row + 1)
    <2>1. At(State(v, 0, row + 1)) = p + (Width - column)
      BY <1>1, <1>2, NextRow DEF At, State
    <2> HIDE DEF column, row, v, p
    <2>2. ASSUME NEW d \in Screen, d >= p + (Width - column) PROVE d >= p
      BY <1>1, <1>3, <1>6, <2>2
    <2>3. QED BY <1>5, <1>7, <2>1, <2>2 DEF Blank, State
  <1>8. CASE Character(s, c) = State(Shown(v, p - 1, Space), column - 1, row)
    <2> DEFINE w == Shown(v, p - 1, Space)
    <2>1. At(State(w, column - 1, row)) = p - 1
      BY <1>1, <1>2, NextRow DEF At, State
    <2>2. ASSUME NEW d \in Screen
          PROVE  w[d].glyph = IF d = p - 1 THEN Space ELSE v[d].glyph
      <3> HIDE DEF v, p
      <3> QED BY <1>4, <1>6, ShownGlyph
    <2> HIDE DEF column, row, v, p
    <2>3. ASSUME NEW d \in Screen, d >= p - 1 PROVE d = p - 1 \/ d >= p
      BY <1>3, <1>6, <2>3
    <2>4. Character(s, c) = State(w, column - 1, row)
      BY <1>8
    <2> HIDE DEF w
    <2>5. \A d \in Screen : w[d].glyph # Bracket /\ (d >= p - 1 => w[d].glyph = Space)
      BY <1>5, <2>2, <2>3, Marks
    <2>6. QED BY <2>1, <2>4, <2>5 DEF Blank, State
  <1>9. CASE c # Bracket /\ Character(s, c) = State(Shown(v, p, c), column + 1, row)
    <2> DEFINE w == Shown(v, p, c)
    <2>1. At(State(w, column + 1, row)) = p + 1
      BY <1>1, <1>2, NextRow DEF At, State
    <2>2. ASSUME NEW d \in Screen
          PROVE  w[d].glyph = IF d = p THEN c ELSE v[d].glyph
      <3> HIDE DEF v, p
      <3> QED BY <1>4, <1>6, ShownGlyph
    <2> HIDE DEF column, row, v, p
    <2>3. ASSUME NEW d \in Screen, d >= p + 1 PROVE d # p /\ d >= p
      BY <1>3, <1>6, <2>3
    <2>4. Character(s, c) = State(w, column + 1, row)
      BY <1>9
    <2> HIDE DEF w
    <2>5. \A d \in Screen : w[d].glyph # Bracket /\ (d >= p + 1 => w[d].glyph = Space)
      BY <1>5, <1>9, <2>2, <2>3
    <2>6. QED BY <2>1, <2>4, <2>5 DEF Blank, State
  <1>10. CASE Character(s, c) = s
    BY <1>10
  <1>11. QED BY <1>7, <1>8, <1>9, <1>10, CharacterCases

(* and the marker drawn there follows,                                     *)
LEMMA MarkedFollows ==
    ASSUME NEW s, NEW at, NEW columns, NEW rows, Printing(s, at, columns, rows),
           Blank(s), At(s) \in Int
    PROVE  Follows(Marked(s, Bracket, Dash))
  <1> DEFINE t == Marked(s, Bracket, Dash)
  <1>1. ASSUME NEW c \in Screen
        PROVE  /\ At(t) = At(s)
               /\ t.video[c].glyph = Bracket => c = At(s) + 1
               /\ c >= At(s) =>
                    \/ t.video[c].glyph = Space
                    \/ c = At(s) + 1 /\ t.video[c].glyph = Bracket
                    \/ c = At(s) + 2 /\ t.video[c].glyph = Dash
    <2>1. c \in Cells /\ Bracket \in Glyphs /\ Dash \in Glyphs
      BY Marks, ScreenIsCells
    <2>2. /\ At(t) = At(s)
          /\ t.video[c].glyph = IF c = At(s) + 2 THEN Dash
                                ELSE IF c = At(s) + 1 THEN Bracket ELSE s.video[c].glyph
      BY <2>1, MarkedGlyphs
    <2>3. s.video[c].glyph # Bracket /\ (c >= At(s) => s.video[c].glyph = Space)
      BY DEF Blank
    <2> HIDE DEF t
    <2>4. QED BY <2>2, <2>3, Marks
  <1> HIDE DEF t
  <1>2. Follows(t)
    BY <1>1 DEF Follows
  <1>3. QED BY <1>2 DEF t

(* also where the line wraps, since the cursor's cell is the same,         *)
LEMMA WrappedFollows ==
    ASSUME NEW s, NEW at, Printing(s, at, 0 .. Width, 0 .. Height), Follows(s)
    PROVE  Follows(Wrapped(s))
  <1>1. CASE s.x >= Width
    <2>1. s.x = Width /\ s.y \in Int /\ s.x \in Int /\ Width \in Int
      BY <1>1, WidthAssumption, HeightAssumption DEF Printing
    <2>2. Wrapped(s) = State(s.video, 0, s.y + 1)
      BY <1>1 DEF Wrapped
    <2>3. At(State(s.video, 0, s.y + 1)) = At(s)
      <3>1. Width * (s.y + 1) + 0 = (Width * s.y + s.x) + (Width - s.x)
        BY <2>1, NextRow
      <3>2. (Width * s.y + s.x) + (Width - s.x) = Width * s.y + s.x
        <4>1. Width * s.y + s.x \in Int /\ Width - s.x = 0
          BY <2>1
        <4>2. QED BY <4>1
      <3>3. QED BY <3>1, <3>2 DEF At, State
    <2>4. State(s.video, 0, s.y + 1).video = s.video
      BY DEF State
    <2>5. QED BY <2>2, <2>3, <2>4 DEF Follows
  <1>2. CASE ~(s.x >= Width)
    BY <1>2 DEF Wrapped
  <1>3. QED BY <1>1, <1>2

(* and of course on a screen without text.                                 *)
LEMMA ClearedFollows ==
    ASSUME NEW s, s.video \in [Cells -> Cell]
    PROVE  Follows(Cleared(s))
  <1>1. ASSUME NEW c \in Screen
        PROVE  Cleared(s).video[c].glyph = Space
    <2>1. c \in Cells /\ s.video[c] \in Cell
      BY ScreenIsCells
    <2>2. Cleared(s).video[c] = [s.video[c] EXCEPT !.glyph = " "]
      BY <2>1 DEF Cleared, State
    <2>3. QED BY <2>1, <2>2 DEF Cell, Space
  <1>2. QED BY <1>1, Marks DEF Follows

(* So it follows a whole character.                                        *)
LEMMA PrintedFollows ==
    ASSUME NEW s, NEW at, Printing(s, at, XPlaces, YPlaces), Follows(s),
           NEW c \in Keys
    PROVE  Follows(Printed(s, c))
  <1> DEFINE erased == Marked(s, Space, Space)
             put == Character(erased, c)
             marked == Marked(put, Bracket, Dash)
             wrapped == Wrapped(marked)
  <1>1. {Space, Bracket, Dash} \subseteq Glyphs
    BY Marks
  <1>2. Printing(erased, at, XPlaces, YPlaces) /\ Blank(erased)
    BY <1>1, MarkedPrinting, ErasedBlank
  <1>3. Printing(put, at, 0 .. Width, 0 .. Height) /\ Blank(put)
    <2> HIDE DEF erased
    <2> QED BY <1>2, CharacterPrinting, CharacterBlank DEF Keys
  <1>4. At(put) \in Int
    <2> HIDE DEF put
    <2>1. put.x \in Int /\ put.y \in Int
      BY <1>3, WidthAssumption, HeightAssumption DEF Printing
    <2>2. QED BY <2>1, AtIsInt
  <1>5. Printing(marked, at, 0 .. Width, 0 .. Height) /\ Follows(marked)
    <2> HIDE DEF put
    <2> QED BY <1>1, <1>3, <1>4, MarkedPrinting, MarkedFollows
  <1>6. Follows(wrapped) /\ wrapped.video = marked.video
    <2> HIDE DEF marked
    <2> QED BY <1>5, WrappedFollows DEF Wrapped, State
  <1>7. wrapped.video \in [Cells -> Cell]
    <2> HIDE DEF wrapped, marked
    <2> QED BY <1>5, <1>6 DEF Printing, InvertedAt
  <1>8. Follows(Scrolled(wrapped))
    <2> HIDE DEF wrapped
    <2> QED BY <1>6, <1>7, ClearedFollows DEF Scrolled
  <1>9. QED BY <1>8 DEF Printed, Space, Bracket, Dash

(* A mouse that moves changes no character.                                *)
LEMMA InvertedGlyph ==
    ASSUME NEW v, v \in [Cells -> Cell], NEW c, NEW d \in Cells
    PROVE  Inverted(v, c)[d].glyph = v[d].glyph
  <1>1. v[d] \in Cell
    OBVIOUS
  <1>2. CASE d = c
    <2>1. Inverted(v, c)[d] = [v[d] EXCEPT !.front = v[c].back, !.back = v[c].front]
      BY <1>1, <1>2 DEF Inverted, Cell
    <2>2. QED BY <1>1, <2>1 DEF Cell
  <1>3. CASE d # c
    BY <1>1, <1>3 DEF Inverted
  <1>4. QED BY <1>2, <1>3

(* printf never overwrites text (kernel.cpp:48-97).                        *)
THEOREM MarkerAlwaysFollows == ConsoleSpec => []MarkerFollows
  <1> DEFINE s == State(video, x, y)
  <1>1. MarkerFollows <=> Follows(s)
    <2>1. s.video = video
      BY DEF State
    <2> HIDE DEF s
    <2>2. QED BY <2>1 DEF MarkerFollows, Follows, s, Space, Bracket, Dash
  <1>2. ASSUME ConsoleInit PROVE MarkerFollows
    <2>1. ASSUME NEW c \in Screen PROVE video[c].glyph = Space
      <3>1. c \in Cells
        BY ScreenIsCells
      <3>2. video[c] = [glyph |-> Space, front |-> Light, back |-> Dark]
        BY <1>2, <3>1 DEF ConsoleInit, Space
      <3>3. QED BY <3>2
    <2>2. \A c \in Screen : s.video[c].glyph = Space
      BY <2>1 DEF State
    <2>3. Follows(s)
      BY <2>2, Marks DEF Follows
    <2>4. QED BY <1>1, <2>3
  <1>3. ASSUME ConsoleInv, MarkerFollows, [ConsoleNext]_consoleVars
        PROVE  MarkerFollows'
    <2>1. Printing(s, Pointed(mouse), XPlaces, YPlaces) /\ Follows(s)
      BY <1>1, <1>3 DEF ConsoleInv, ConsoleTypeOK, Printing, State, XPlaces, YPlaces
    <2>2. ASSUME NEW t, Becomes(t), Follows(t) PROVE MarkerFollows'
      BY <2>2 DEF Becomes, MarkerFollows, Follows, At, State, Space, Bracket, Dash
    <2>3. ASSUME NEW c \in Keys, Put(c)
          PROVE  MarkerFollows'
      <3>1. Becomes(Printed(s, c))
        BY <2>3 DEF Put
      <3> HIDE DEF s
      <3>2. QED BY <2>1, <2>2, <3>1, PrintedFollows
    <2>4. CASE ClearScreen
      <3>1. Becomes(Cleared(Printed(s, "x")))
        BY <2>4 DEF ClearScreen
      <3> HIDE DEF s
      <3>2. Printed(s, "x").video \in [Cells -> Cell]
        BY <2>1, PrintedPrinting, LettersAssumption DEF Printing, InvertedAt
      <3>3. QED BY <2>2, <3>1, <3>2, ClearedFollows
    <2>5. ASSUME UNCHANGED <<x, y>>, \A c \in Screen : video'[c].glyph = video[c].glyph
          PROVE  MarkerFollows'
      <3>1. UNCHANGED At(State(video, x, y))
        BY <2>5 DEF At, State
      <3>2. QED BY <1>3, <2>5, <3>1 DEF MarkerFollows, Screen
    <2>6. video \in [Cells -> Cell] /\ Screen \subseteq Cells
      BY <1>3, ScreenIsCells DEF ConsoleInv, ConsoleTypeOK
    <2>7. CASE MouseToConsole
      BY <2>5, <2>6, <2>7, InvertedGlyph DEF MouseToConsole
    <2>8. ASSUME NEW xoffset \in Offsets, NEW yoffset \in Offsets,
                 OnMouseMove(xoffset, yoffset)
          PROVE  MarkerFollows'
      <3> DEFINE v == Inverted(video, MouseCell(mouse))
      <3>1. v \in [Cells -> Cell]
        <4>1. mouse \in XPlaces \X YPlaces
          BY <1>3, <2>8 DEF OnMouseMove, ConsoleInv, ConsoleTypeOK, XPlaces, YPlaces
        <4>2. QED BY <1>3, <4>1, PointedAtMouse, InvertedMovesOut
                  DEF ConsoleInv, InvertedAt
      <3>2. \A c \in Screen : v[c].glyph = video[c].glyph
        BY <2>6, InvertedGlyph
      <3>3. UNCHANGED <<x, y>> /\ video' = Inverted(v, MouseCell(mouse'))
        BY <2>8 DEF OnMouseMove
      <3> HIDE DEF v
      <3>4. \A c \in Screen : video'[c].glyph = video[c].glyph
        BY <2>6, <3>1, <3>2, <3>3, InvertedGlyph
      <3>5. QED BY <2>5, <3>3, <3>4
    <2>9. CASE UNCHANGED consoleVars
      BY <2>5, <2>9 DEF consoleVars
    <2>10. QED BY <1>3, <2>3, <2>4, <2>7, <2>8, <2>9 DEF ConsoleNext, Keys
  <1>4. QED BY <1>2, <1>3, AlwaysConsoleInv, PTL DEF ConsoleSpec

-----------------------------------------------------------------------------
(* Types of the desktop's state.                                           *)
GuiTypeOK ==
    /\ children \in 0 .. Len(Windows)
    /\ place \in [Numbers -> Int \X Int]
    /\ Dragging \in [Numbers -> BOOLEAN]
    /\ focussed \in [Numbers \union {Desktop} -> Numbers \union InnerWidgets \union {None}]
    /\ pointer \in Int \X Int

(* Nothing is dragged before interrupts are activated.                     *)
DesktopInv ==
    /\ GuiTypeOK
    /\ ~active => \A k \in Numbers : ~Dragging[k]
    /\ FrontLetsGo
    /\ KeysFollowClick

(* The first child at a place contains it and none before it does.         *)
LEMMA FirstAtIsFirst ==
    ASSUME NEW places, NEW p, children \in Nat
    PROVE  LET k == FirstAt(places, p)
           IN  /\ k \in 0 .. children
               /\ k # 0 => InWindow(places, k, p)
               /\ \A n \in 1 .. children : InWindow(places, n, p) => k # 0 /\ k <= n
  <1> DEFINE T == {k \in 1 .. children : InWindow(places, k, p)}
             IsFirst(k) == /\ InWindow(places, k, p)
                           /\ \A n \in 1 .. k - 1 : ~InWindow(places, n, p)
  <1>1. CASE T = {}
    <2>1. ~\E k \in 1 .. children : InWindow(places, k, p)
      BY <1>1
    <2>2. FirstAt(places, p) = 0
      BY <2>1 DEF FirstAt
    <2>3. QED BY <2>1, <2>2
  <1>2. CASE T # {}
    <2>1. PICK k \in T : \A n \in T : k <= n
      <3>1. T \subseteq 1 .. children
        OBVIOUS
      <3> HIDE DEF T
      <3>2. QED BY <3>1, <1>2, LeastNat
    <2>2. k \in 1 .. children /\ IsFirst(k)
      <3>1. ASSUME NEW n \in 1 .. k - 1, InWindow(places, n, p) PROVE FALSE
        <4>1. n \in T
          BY <3>1, <2>1
        <4>2. QED BY <4>1, <2>1
      <3>2. QED BY <3>1, <2>1
    <2>3. FirstAt(places, p) = CHOOSE m \in 1 .. children : IsFirst(m)
      <3>1. \E m \in 1 .. children : InWindow(places, m, p)
        BY <2>1
      <3>2. QED BY <3>1 DEF FirstAt
    <2> DEFINE f == CHOOSE m \in 1 .. children : IsFirst(m)
    <2>4. f \in 1 .. children /\ IsFirst(f)
      <3> HIDE DEF IsFirst
      <3> QED BY <2>2
    <2>5. ASSUME NEW n \in 1 .. children, InWindow(places, n, p) PROVE f <= n
      <3> HIDE DEF f
      <3>1. CASE n < f
        <4>1. n \in 1 .. f - 1
          BY <3>1, <2>4
        <4>2. QED BY <4>1, <2>4, <2>5
      <3>2. QED BY <3>1, <2>4
    <2> HIDE DEF f
    <2>6. FirstAt(places, p) = f
      BY <2>3 DEF f
    <2>7. QED BY <2>4, <2>5, <2>6
  <1>3. QED BY <1>1, <1>2

(* A point moves with a window that it is in.                              *)
LEMMA ContainsMoved ==
    ASSUME NEW a1 \in Int, NEW a2 \in Int, NEW p1 \in Int, NEW p2 \in Int,
           NEW d1 \in Int, NEW d2 \in Int, NEW w1 \in Int, NEW w2 \in Int,
           ContainsCoordinate(<<a1, a2>>, <<w1, w2>>, <<p1, p2>>)
    PROVE  ContainsCoordinate(<<a1 + d1, a2 + d2>>, <<w1, w2>>, <<p1 + d1, p2 + d2>>)
  BY DEF ContainsCoordinate

(* A movement is the difference of two places of the pointer.              *)
LEMMA PlusMinus ==
    ASSUME NEW p \in Int \X Int, NEW old \in Int \X Int, NEW new \in Int \X Int
    PROVE  /\ Minus(new, old) \in Int \X Int
           /\ Plus(p, Minus(new, old)) \in Int \X Int
           /\ Minus(Plus(p, Minus(new, old)), p) = Minus(new, old)
  <1>1. Minus(new, old) = <<new[1] - old[1], new[2] - old[2]>>
    BY DEF Minus
  <1>2. new[1] \in Int /\ new[2] \in Int /\ old[1] \in Int /\ old[2] \in Int
        /\ p[1] \in Int /\ p[2] \in Int
    OBVIOUS
  <1>3. Minus(new, old)[1] = new[1] - old[1] /\ Minus(new, old)[2] = new[2] - old[2]
    BY <1>1
  <1>4. Plus(p, Minus(new, old)) =
            <<p[1] + (new[1] - old[1]), p[2] + (new[2] - old[2])>>
    BY <1>3 DEF Plus
  <1>5. Minus(Plus(p, Minus(new, old)), p) =
            <<(p[1] + (new[1] - old[1])) - p[1], (p[2] + (new[2] - old[2])) - p[2]>>
    BY <1>4 DEF Minus
  <1>6. /\ (p[1] + (new[1] - old[1])) - p[1] = new[1] - old[1]
        /\ (p[2] + (new[2] - old[2])) - p[2] = new[2] - old[2]
    BY <1>2
  <1>7. Minus(Plus(p, Minus(new, old)), p) = Minus(new, old)
    BY <1>1, <1>5, <1>6
  <1>8. Minus(new, old) \in Int \X Int
    BY <1>1, <1>2
  <1>9. Plus(p, Minus(new, old)) \in Int \X Int
    BY <1>2, <1>4
  <1>10. QED BY <1>7, <1>8, <1>9

(* A drag moves one window by the offset, or nothing.                      *)
LEMMA DraggedOne ==
    ASSUME NEW places \in [Numbers -> Int \X Int], NEW k \in Numbers \union {0},
           NEW d \in Int \X Int, Dragging \in [Numbers -> BOOLEAN],
           \A p \in Int \X Int : Plus(p, d) \in Int \X Int
    PROVE  /\ Dragged(places, k, d) \in [Numbers -> Int \X Int]
           /\ \A n \in Numbers :
                 Dragged(places, k, d)[n] =
                     IF n = k /\ Dragging[n] THEN Plus(places[n], d) ELSE places[n]
  <1>1. 0 \notin Numbers
    BY DEF Numbers
  <1>2. CASE k = 0 \/ ~Dragging[k]
    <2>1. Dragged(places, k, d) = places
      BY <1>2 DEF Dragged
    <2>2. QED BY <1>1, <1>2, <2>1
  <1>3. CASE k # 0 /\ Dragging[k]
    <2>1. k \in Numbers
      BY <1>3
    <2>2. Dragged(places, k, d) = [places EXCEPT ![k] = Plus(places[k], d)]
      BY <1>3 DEF Dragged
    <2>3. Plus(places[k], d) \in Int \X Int
      BY <2>1
    <2>4. QED BY <1>3, <2>1, <2>2, <2>3
  <1>4. QED BY <1>2, <1>3

(* Both loops together: a window that moves moves once.                    *)
LEMMA MovedPlacesOnce ==
    ASSUME GuiTypeOK, NEW new \in Int \X Int
    PROVE  LET places == MovedPlaces(pointer, new)
               d == Minus(new, pointer)
           IN  /\ places \in [Numbers -> Int \X Int]
               /\ \A n \in Numbers :
                     places[n] = place[n] \/ places[n] = Plus(place[n], d)
               /\ \A n \in Numbers :
                     Dragging[n] /\ n = FirstAt(place, pointer)
                     => places[n] = Plus(place[n], d)
  <1> DEFINE d == Minus(new, pointer)
             one == FirstAt(place, pointer)
             moved == Dragged(place, one, d)
             two == FirstAt(moved, new)
  <1>1. children \in Nat /\ 0 .. children \subseteq Numbers \union {0}
    BY WindowsAssumption DEF GuiTypeOK, Numbers
  <1>2. one \in Numbers \union {0} /\ two \in Numbers \union {0}
    BY <1>1, FirstAtIsFirst
  <1>3. /\ d \in Int \X Int
        /\ \A p \in Int \X Int : Plus(p, d) \in Int \X Int
    BY PlusMinus DEF GuiTypeOK
  <1>4. place \in [Numbers -> Int \X Int] /\ Dragging \in [Numbers -> BOOLEAN]
    BY DEF GuiTypeOK
  <1>5. MovedPlaces(pointer, new) = IF two = one THEN moved ELSE Dragged(moved, two, d)
    BY DEF MovedPlaces
  <1> HIDE DEF d, one, two
  <1>6. /\ moved \in [Numbers -> Int \X Int]
        /\ \A n \in Numbers : moved[n] = IF n = one /\ Dragging[n]
                                         THEN Plus(place[n], d) ELSE place[n]
    BY <1>2, <1>3, <1>4, DraggedOne
  <1> HIDE DEF moved
  <1>7. /\ Dragged(moved, two, d) \in [Numbers -> Int \X Int]
        /\ \A n \in Numbers : Dragged(moved, two, d)[n] =
                                  IF n = two /\ Dragging[n]
                                  THEN Plus(moved[n], d) ELSE moved[n]
    <2>1. /\ moved \in [Numbers -> Int \X Int]
          /\ two \in Numbers \union {0} /\ d \in Int \X Int
      BY <1>2, <1>3, <1>6
    <2>2. QED BY ONLY <2>1, <1>3, <1>4, DraggedOne
  <1>8. CASE two = one
    BY <1>5, <1>6, <1>8 DEF d, one
  <1>9. CASE two # one
    <2>1. MovedPlaces(pointer, new) = Dragged(moved, two, d)
      BY <1>5, <1>9
    <2>2. QED BY <1>6, <1>7, <1>9, <2>1 DEF d, one
  <1>10. QED BY <1>8, <1>9

(* A quarter of a movement, and a place on the screen, are numbers.        *)
LEMMA PointerTypes ==
    ASSUME NEW v \in Int, NEW w \in Int, NEW size \in Int
    PROVE  Within(w + Quarter(v), size) \in Int
  <1>1. Quarter(v) \in Int
    BY DEF Quarter
  <1>2. QED BY <1>1 DEF Within

(* The pointer and the windows after a movement.                           *)
LEMMA PointerMoves ==
    ASSUME GuiTypeOK, NEW xoffset \in MouseOffsets, NEW yoffset \in MouseOffsets,
           MovePointer(xoffset, yoffset)
    PROVE  /\ pointer' \in Int \X Int
           /\ place' = MovedPlaces(pointer, pointer')
  <1>1. xoffset \in Int /\ yoffset \in Int
    BY MouseOffsetsAssumption
  <1>2. pointer[1] \in Int /\ pointer[2] \in Int
    BY DEF GuiTypeOK
  <1>3. Columns \in Int /\ Rows \in Int
    BY ScreenAssumption
  <1>4. /\ Within(pointer[1] + Quarter(xoffset), Columns) \in Int
        /\ Within(pointer[2] + Quarter(yoffset), Rows) \in Int
    BY <1>1, <1>2, <1>3, PointerTypes
  <1>5. QED BY <1>4 DEF MovePointer

(* The first widget of a window at a place contains it, none before does.  *)
LEMMA InnerAtIsFirst ==
    ASSUME NEW k \in Numbers, NEW p
    PROVE  \/ /\ InnerAt(k, p) = None
              /\ \A n \in 1 .. Len(Inner[k]) : ~InnerContains(k, n, p)
           \/ \E n \in 1 .. Len(Inner[k]) :
                 /\ InnerAt(k, p) = Inner[k][n]
                 /\ InnerContains(k, n, p)
                 /\ \A m \in 1 .. n - 1 : ~InnerContains(k, m, p)
  <1> DEFINE IsFirst(n) == /\ InnerContains(k, n, p)
                           /\ \A m \in 1 .. n - 1 : ~InnerContains(k, m, p)
             Hit == \E n \in 1 .. Len(Inner[k]) : InnerContains(k, n, p)
  <1>1. CASE ~Hit
    BY <1>1 DEF InnerAt
  <1>2. CASE Hit
    <2>1. PICK n \in 1 .. Len(Inner[k]) : IsFirst(n)
      <3> DEFINE T == {n \in 1 .. Len(Inner[k]) : InnerContains(k, n, p)}
      <3>1. Len(Inner[k]) \in Nat
        BY WindowsAssumption DEF Numbers
      <3>2. T # {} /\ T \subseteq 1 .. Len(Inner[k])
        BY <1>2
      <3>3. PICK n \in T : \A m \in T : n <= m
        <4> HIDE DEF T
        <4> QED BY <3>1, <3>2, LeastNat
      <3>4. ASSUME NEW m \in 1 .. n - 1, InnerContains(k, m, p) PROVE FALSE
        <4>1. m \in T
          BY <3>1, <3>3, <3>4
        <4>2. QED BY <4>1, <3>3
      <3>5. QED BY <3>3, <3>4
    <2> DEFINE f == CHOOSE m \in 1 .. Len(Inner[k]) : IsFirst(m)
    <2>2. InnerAt(k, p) = Inner[k][f]
      BY <1>2 DEF InnerAt
    <2>3. f \in 1 .. Len(Inner[k]) /\ IsFirst(f)
      <3> HIDE DEF IsFirst
      <3> QED BY <2>1
    <2> HIDE DEF f
    <2>4. QED BY <2>2, <2>3
  <1>3. QED BY <1>1, <1>2

(* A click finds a window and a widget, or none.                           *)
LEMMA ClickFinds ==
    ASSUME GuiTypeOK
    PROVE  /\ FirstAt(place, pointer) \in Numbers \union {0}
           /\ \A k \in Numbers : InnerAt(k, pointer) \in InnerWidgets \union {None}
  <1>1. FirstAt(place, pointer) \in Numbers \union {0}
    <2>1. children \in Nat /\ 0 .. children \subseteq Numbers \union {0}
      BY WindowsAssumption DEF GuiTypeOK, Numbers
    <2>2. QED BY <2>1, FirstAtIsFirst
  <1>2. ASSUME NEW k \in Numbers
        PROVE  InnerAt(k, pointer) \in InnerWidgets \union {None}
    <2>1. CASE InnerAt(k, pointer) = None
      BY <2>1
    <2>2. ASSUME NEW n \in 1 .. Len(Inner[k]), InnerAt(k, pointer) = Inner[k][n]
          PROVE  InnerAt(k, pointer) \in InnerWidgets
      BY <2>2 DEF InnerWidgets, Numbers
    <2>3. QED BY <2>1, <2>2, InnerAtIsFirst
  <1>3. QED BY <1>1, <1>2

(* The desktop as it is built.                                            *)
LEMMA GuiInitInv == GuiInit => DesktopInv
  <1> SUFFICES ASSUME GuiInit PROVE DesktopInv
    OBVIOUS
  <1>1. children \in 0 .. Len(Windows)
    BY WindowsAssumption DEF GuiInit
  <1>2. place \in [Numbers -> Int \X Int]
    BY BoxAssumption DEF GuiInit, Numbers
  <1>3. /\ Dragging \in [Numbers -> BOOLEAN] /\ \A k \in Numbers : ~Dragging[k]
        /\ focussed \in [Numbers \union {Desktop} -> Numbers \union InnerWidgets \union {None}]
        /\ focussed[Desktop] = None /\ clicked = None
    BY DEF GuiInit
  <1>4. pointer \in Int \X Int
    BY ScreenAssumption DEF GuiInit
  <1>5. FrontLetsGo
    BY DEF GuiInit, FrontLetsGo
  <1>6. KeysFollowClick
    BY <1>3 DEF KeysFollowClick, OnKeyDown
  <1>7. QED BY <1>1, <1>2, <1>3, <1>4, <1>5, <1>6 DEF DesktopInv, GuiTypeOK

(* A button that goes down.                                                *)
LEMMA ButtonDownInv ==
    ASSUME DesktopInv, NEW button \in Buttons, ButtonDown(button)
    PROVE  DesktopInv'
  <1> DEFINE k == FirstAt(place, pointer)
             widget == IF k = 0 THEN None ELSE InnerAt(k, pointer)
  <1>1. GuiTypeOK
    BY DEF DesktopInv
  <1>2. /\ active' /\ held' = held \union {button}
        /\ UNCHANGED <<children, place, pointer>>
        /\ Dragging' = IF k = 0 THEN Dragging
                       ELSE [Dragging EXCEPT ![k] = (button = 1)]
        /\ focussed' = IF widget = None THEN focussed ELSE GetFocus(k, widget)
        /\ clicked' = IF widget = None THEN clicked ELSE widget
    BY DEF ButtonDown
  <1>3. /\ k \in Numbers \union {0}
        /\ k # 0 => InnerAt(k, pointer) \in InnerWidgets \union {None}
    BY <1>1, ClickFinds
  <1>4. /\ k # 0 => InWindow(place, k, pointer)
    BY <1>1, FirstAtIsFirst, WindowsAssumption DEF GuiTypeOK
  <1>5. widget # None => k \in Numbers /\ widget \in InnerWidgets
    BY <1>3
  <1> HIDE DEF k, widget
  <1>6. Dragging' \in [Numbers -> BOOLEAN]
    BY <1>1, <1>2, <1>3 DEF GuiTypeOK
  <1>7. /\ focussed' \in [Numbers \union {Desktop} -> Numbers \union InnerWidgets \union {None}]
        /\ (OnKeyDown = clicked)'
    <2>1. CASE widget = None
      BY <1>1, <1>2, <2>1 DEF GuiTypeOK, DesktopInv, KeysFollowClick, OnKeyDown
    <2>2. CASE widget # None
      <3>1. focussed' = [focussed EXCEPT ![k] = widget, ![Desktop] = k]
        BY <1>2, <2>2 DEF GetFocus
      <3>2. k \in Numbers /\ k # Desktop /\ k # None
        BY <1>5, <2>2, NoneAssumption, WindowsAssumption DEF Desktop, Numbers
      <3>3. focussed'[Desktop] = k /\ focussed'[k] = widget
        BY <1>1, <3>1, <3>2 DEF GuiTypeOK
      <3>4. OnKeyDown' = widget
        BY <3>2, <3>3 DEF OnKeyDown
      <3>5. focussed' \in [Numbers \union {Desktop} -> Numbers \union InnerWidgets \union {None}]
        BY <1>1, <1>5, <2>2, <3>1, <3>2 DEF GuiTypeOK
      <3>6. QED BY <1>2, <2>2, <3>4, <3>5
    <2>3. QED BY <2>1, <2>2
  <1>8. ASSUME children' > 0, Dragging'[1]
        PROVE  1 \in held' /\ InWindow(place', 1, pointer')
    <2>1. 1 \in Numbers /\ children > 0
      BY <1>1, <1>2, <1>8, WindowsAssumption DEF GuiTypeOK, Numbers
    <2>2. CASE k = 1
      <3>1. button = 1
        <4>1. Dragging' = [Dragging EXCEPT ![1] = (button = 1)]
          BY <1>2, <2>2
        <4>2. 1 \in DOMAIN Dragging
          BY <1>1, <2>1 DEF GuiTypeOK
        <4>3. Dragging'[1] = (button = 1)
          BY <4>1, <4>2, Zenon
        <4>4. QED BY <1>8, <4>3
      <3>2. QED BY <1>2, <1>4, <2>2, <3>1
    <2>3. CASE k # 1
      <3>1. Dragging[1]
        BY <1>1, <1>2, <1>3, <1>8, <2>1, <2>3 DEF GuiTypeOK
      <3>2. 1 \in held /\ InWindow(place, 1, pointer)
        BY <2>1, <3>1 DEF DesktopInv, FrontLetsGo
      <3>3. QED BY <1>2, <3>2
    <2>4. QED BY <2>2, <2>3
  <1>9. GuiTypeOK'
    BY <1>1, <1>2, <1>6, <1>7 DEF GuiTypeOK
  <1>10. FrontLetsGo'
    BY <1>8 DEF FrontLetsGo, InWindow
  <1>11. QED BY <1>2, <1>7, <1>9, <1>10 DEF DesktopInv, KeysFollowClick

(* A button that is released.                                              *)
LEMMA ButtonUpInv ==
    ASSUME DesktopInv, NEW button \in Buttons, ButtonUp(button)
    PROVE  DesktopInv'
  <1> DEFINE k == FirstAt(place, pointer)
  <1>1. GuiTypeOK
    BY DEF DesktopInv
  <1>2. /\ active' /\ UNCHANGED <<children, place, pointer, focussed, clicked>>
        /\ Dragging' = Released(k)
    BY DEF ButtonUp
  <1>3. k \in Numbers \union {0}
    BY <1>1, ClickFinds
  <1>4. \A n \in 1 .. children : InWindow(place, n, pointer) => k # 0 /\ k <= n
    BY <1>1, FirstAtIsFirst, WindowsAssumption DEF GuiTypeOK
  <1> HIDE DEF k
  <1>5. /\ Dragging' \in [Numbers -> BOOLEAN]
        /\ \A n \in Numbers : Dragging'[n] => Dragging[n] /\ n # k
    <2>1. CASE k = 0
      <3>1. Dragging' = Dragging /\ 0 \notin Numbers
        BY <1>2, <2>1 DEF Released, Numbers
      <3>2. QED BY <1>1, <2>1, <3>1 DEF GuiTypeOK
    <2>2. CASE k # 0
      <3>1. Dragging' = [Dragging EXCEPT ![k] = FALSE]
        BY <1>2, <2>2 DEF Released
      <3>2. QED BY <1>1, <1>3, <2>2, <3>1 DEF GuiTypeOK
    <2>3. QED BY <2>1, <2>2
  <1>6. ~(children' > 0 /\ Dragging'[1])
    <2> SUFFICES ASSUME children > 0, Dragging'[1] PROVE FALSE
      BY <1>2
    <2>1. 1 \in Numbers /\ 1 \in 1 .. children
      BY <1>1, WindowsAssumption DEF GuiTypeOK, Numbers
    <2>2. Dragging[1] /\ k # 1
      BY <1>5, <2>1
    <2>3. InWindow(place, 1, pointer)
      BY <2>2 DEF DesktopInv, FrontLetsGo
    <2>4. QED BY <1>3, <1>4, <2>1, <2>2, <2>3 DEF Numbers
  <1>7. GuiTypeOK'
    BY <1>1, <1>2, <1>5 DEF GuiTypeOK
  <1>8. FrontLetsGo' /\ KeysFollowClick'
    BY <1>2, <1>6 DEF FrontLetsGo, KeysFollowClick, OnKeyDown, DesktopInv
  <1>9. QED BY <1>2, <1>7, <1>8 DEF DesktopInv

(* A movement of the mouse.                                                *)
LEMMA MovePointerInv ==
    ASSUME DesktopInv, NEW xoffset \in MouseOffsets, NEW yoffset \in MouseOffsets,
           MovePointer(xoffset, yoffset)
    PROVE  DesktopInv'
  <1> DEFINE d == Minus(pointer', pointer)
  <1>1. GuiTypeOK
    BY DEF DesktopInv
  <1>2. active' /\ UNCHANGED <<children, Dragging, focussed, held, clicked>>
    BY DEF MovePointer
  <1>3. pointer' \in Int \X Int /\ place' = MovedPlaces(pointer, pointer')
    BY <1>1, PointerMoves
  <1>4. /\ place' \in [Numbers -> Int \X Int]
        /\ \A n \in Numbers : Dragging[n] /\ n = FirstAt(place, pointer)
                              => place'[n] = Plus(place[n], d)
    BY <1>1, <1>3, MovedPlacesOnce
  <1>5. ASSUME children > 0, Dragging[1]
        PROVE  1 \in held /\ InWindow(place', 1, pointer')
    <2>1. 1 \in Numbers /\ 1 \in 1 .. children
      BY <1>1, <1>5, WindowsAssumption DEF GuiTypeOK, Numbers
    <2>2. 1 \in held /\ InWindow(place, 1, pointer)
      BY <1>5 DEF DesktopInv, FrontLetsGo
    <2>3. FirstAt(place, pointer) = 1
      <3>1. /\ FirstAt(place, pointer) \in 0 .. children
            /\ FirstAt(place, pointer) # 0 /\ FirstAt(place, pointer) <= 1
        BY <1>1, <2>1, <2>2, FirstAtIsFirst, WindowsAssumption DEF GuiTypeOK
      <3>2. children \in Nat
        BY <1>1, WindowsAssumption DEF GuiTypeOK
      <3>3. QED BY <3>1, <3>2
    <2>4. place'[1] = Plus(place[1], d)
      BY <1>4, <1>5, <2>1, <2>3
    <2>5. /\ place[1] \in Int \X Int /\ pointer \in Int \X Int
          /\ Size(Windows[1])[1] \in Int /\ Size(Windows[1])[2] \in Int
      <3>1. Box[Windows[1]] \in [x : Int, y : Int, w : Nat, h : Nat]
        BY <2>1, BoxAssumption DEF Numbers
      <3>2. QED BY <1>1, <2>1, <3>1 DEF GuiTypeOK, Size
    <2> DEFINE a1 == place[1][1]
               a2 == place[1][2]
               p1 == pointer[1]
               p2 == pointer[2]
               d1 == pointer'[1] - pointer[1]
               d2 == pointer'[2] - pointer[2]
               w1 == Size(Windows[1])[1]
               w2 == Size(Windows[1])[2]
    <2>6. /\ place[1] = <<a1, a2>> /\ pointer = <<p1, p2>> /\ Size(Windows[1]) = <<w1, w2>>
          /\ a1 \in Int /\ a2 \in Int /\ p1 \in Int /\ p2 \in Int
          /\ d1 \in Int /\ d2 \in Int /\ w1 \in Int /\ w2 \in Int
      BY <1>3, <2>5 DEF Size
    <2>7. pointer' = <<p1 + d1, p2 + d2>>
      <3>1. /\ p1 + d1 = pointer'[1] /\ p2 + d2 = pointer'[2]
        BY <1>3, <2>6
      <3>2. QED BY <1>3, <3>1
    <2>8. place'[1] = <<a1 + d1, a2 + d2>>
      BY <2>4 DEF Plus, Minus
    <2>9. ContainsCoordinate(<<a1, a2>>, <<w1, w2>>, <<p1, p2>>)
      BY <2>2, <2>6 DEF InWindow
    <2> HIDE DEF a1, a2, p1, p2, d1, d2, w1, w2
    <2>10. ContainsCoordinate(<<a1 + d1, a2 + d2>>, <<w1, w2>>, <<p1 + d1, p2 + d2>>)
      BY <2>6, <2>9, ContainsMoved
    <2>11. QED BY <2>2, <2>6, <2>7, <2>8, <2>10 DEF InWindow
  <1>6. GuiTypeOK'
    BY <1>1, <1>2, <1>3, <1>4 DEF GuiTypeOK
  <1>7. FrontLetsGo' /\ KeysFollowClick'
    BY <1>2, <1>5 DEF FrontLetsGo, KeysFollowClick, OnKeyDown, DesktopInv, InWindow
  <1>8. QED BY <1>2, <1>6, <1>7 DEF DesktopInv

(* What happens before interrupts are activated, and stuttering.           *)
LEMMA BootInv ==
    ASSUME DesktopInv,
           BootMode \/ AddChild \/ ActivateInterrupts \/ UNCHANGED guiVars
    PROVE  DesktopInv'
  <1>1. UNCHANGED <<place, Dragging, focussed, pointer, held, clicked>>
    BY DEF BootMode, AddChild, ActivateInterrupts, guiVars
  <1>2. children' = children \/ (AddChild /\ children' = children + 1)
    BY DEF BootMode, AddChild, ActivateInterrupts, guiVars
  <1>3. children' \in 0 .. Len(Windows)
    BY <1>2, WindowsAssumption DEF AddChild, DesktopInv, GuiTypeOK
  <1>4. active => active'
    BY DEF BootMode, AddChild, ActivateInterrupts, guiVars
  <1>5. ASSUME children' > 0, Dragging[1]
        PROVE  1 \in held /\ InWindow(place, 1, pointer)
    <2>1. CASE children' = children
      BY <1>5, <2>1 DEF DesktopInv, FrontLetsGo
    <2>2. CASE AddChild
      <3>1. 1 \in Numbers
        BY <1>3, <1>5, WindowsAssumption DEF Numbers
      <3>2. QED BY <1>5, <2>2, <3>1 DEF AddChild, DesktopInv
    <2>3. QED BY <1>2, <2>1, <2>2
  <1>6. GuiTypeOK'
    BY <1>1, <1>3 DEF DesktopInv, GuiTypeOK
  <1>7. FrontLetsGo' /\ KeysFollowClick'
    BY <1>1, <1>5 DEF FrontLetsGo, KeysFollowClick, OnKeyDown, DesktopInv, InWindow
  <1>8. QED BY <1>1, <1>4, <1>6, <1>7 DEF DesktopInv

(* Every step keeps the invariant,                                         *)
LEMMA GuiNextInv == DesktopInv /\ [GuiNext]_guiVars => DesktopInv'
  <1> SUFFICES ASSUME DesktopInv, [GuiNext]_guiVars PROVE DesktopInv'
    OBVIOUS
  <1>1. CASE BootMode \/ AddChild \/ ActivateInterrupts \/ UNCHANGED guiVars
    BY <1>1, BootInv
  <1>2. ASSUME NEW button \in Buttons, ButtonDown(button) PROVE DesktopInv'
    BY <1>2, ButtonDownInv
  <1>3. ASSUME NEW button \in Buttons, ButtonUp(button) PROVE DesktopInv'
    BY <1>3, ButtonUpInv
  <1>4. ASSUME NEW xoffset \in MouseOffsets, NEW yoffset \in MouseOffsets,
               MovePointer(xoffset, yoffset)
        PROVE  DesktopInv'
    BY <1>4, MovePointerInv
  <1>5. QED BY <1>1, <1>2, <1>3, <1>4 DEF GuiNext

(* so that it holds of all behaviours.                                     *)
LEMMA AlwaysDesktopInv == GuiSpec => []DesktopInv
  BY GuiInitInv, GuiNextInv, PTL DEF GuiSpec

(* The window in front follows the pointer only while the first button is  *)
(* down and the pointer in it (window.cpp:19-40).                          *)
THEOREM FrontAlwaysLetsGo == GuiSpec => []FrontLetsGo
  <1>1. DesktopInv => FrontLetsGo
    BY DEF DesktopInv
  <1>2. QED BY <1>1, AlwaysDesktopInv, PTL

(* Keys go to the widget that was clicked last (widget.cpp:90-95, 155-159).*)
THEOREM KeysAlwaysFollowClick == GuiSpec => []KeysFollowClick
  <1>1. DesktopInv => KeysFollowClick
    BY DEF DesktopInv
  <1>2. QED BY <1>1, AlwaysDesktopInv, PTL

(* No movement is handed to a window twice (widget.cpp:134-152).           *)
THEOREM WindowsMoveOnce == GuiSpec => MovesOnce
  <1> DEFINE Once == \A k \in Numbers :
                        place'[k] # place[k] =>
                            Minus(place'[k], place[k]) = Minus(pointer', pointer)
  <1>1. ASSUME DesktopInv, [GuiNext]_guiVars PROVE [Once]_guiVars
    <2>1. CASE UNCHANGED place
      BY <2>1
    <2>2. ASSUME NEW xoffset \in MouseOffsets, NEW yoffset \in MouseOffsets,
                 MovePointer(xoffset, yoffset)
          PROVE  Once
      <3> SUFFICES ASSUME NEW k \in Numbers, place'[k] # place[k]
                   PROVE  Minus(place'[k], place[k]) = Minus(pointer', pointer)
        OBVIOUS
      <3>1. GuiTypeOK
        BY <1>1 DEF DesktopInv
      <3>2. pointer' \in Int \X Int /\ place' = MovedPlaces(pointer, pointer')
        BY <2>2, <3>1, PointerMoves
      <3>3. place'[k] = Plus(place[k], Minus(pointer', pointer))
        BY <3>1, <3>2, MovedPlacesOnce
      <3>4. place[k] \in Int \X Int /\ pointer \in Int \X Int
        BY <3>1 DEF GuiTypeOK
      <3>5. QED BY <3>2, <3>3, <3>4, PlusMinus
    <2>3. CASE UNCHANGED guiVars
      BY <2>3 DEF guiVars
    <2>4. CASE GuiNext
      <3>1. UNCHANGED place \/ \E xoffset, yoffset \in MouseOffsets :
                                   MovePointer(xoffset, yoffset)
        BY <2>4 DEF GuiNext, BootMode, AddChild, ActivateInterrupts, ButtonDown, ButtonUp
      <3>2. QED BY <2>1, <2>2, <3>1
    <2>5. QED BY <1>1, <2>3, <2>4
  <1>2. QED BY <1>1, AlwaysDesktopInv, PTL DEF GuiSpec, MovesOnce

-----------------------------------------------------------------------------
(* From a place on the screen on, the loops visit a rectangle's places.    *)
LEMMA VisitedOnScreen ==
    ASSUME NEW from \in Int, NEW size \in Nat, from >= 0, NEW at \in Int
    PROVE  at \in Visited(from, size) <=> from <= at /\ at < from + size
  BY DEF Visited

(* A rectangle on the screen is filled where it contains the pixel.        *)
LEMMA FilledContains ==
    ASSUME NEW from \in Int \X Int, NEW size \in Nat \X Nat,
           from[1] >= 0, from[2] >= 0, NEW p \in Pixels
    PROVE  p \in FillRectangle(from, size) <=> ContainsCoordinate(from, size, p)
  <1>1. p[1] \in Int /\ p[2] \in Int
    BY ScreenAssumption DEF Pixels
  <1>2. p[1] \in Visited(from[1], size[1])
        <=> from[1] <= p[1] /\ p[1] < from[1] + size[1]
    BY <1>1, VisitedOnScreen
  <1>3. p[2] \in Visited(from[2], size[2])
        <=> from[2] <= p[2] /\ p[2] < from[2] + size[2]
    BY <1>1, VisitedOnScreen
  <1>4. QED BY <1>2, <1>3 DEF FillRectangle, ContainsCoordinate

(* A window and its widgets are painted where they are hit,                *)
LEMMA PaintedIsHit ==
    ASSUME GuiTypeOK, NEW k \in 1 .. children,
           place[k][1] >= 0, place[k][2] >= 0, NEW p \in Pixels
    PROVE  /\ p \in Painted(k, 0) <=> InWindow(place, k, p)
           /\ \A n \in 1 .. Len(Inner[k]) :
                 /\ p \in Painted(k, n) <=> InnerContains(k, n, p)
                 /\ p \in Painted(k, n) => InWindow(place, k, p)
  <1>1. k \in Numbers /\ k \in 1 .. Len(Windows) /\ place[k] \in Int \X Int
    <2>1. k \in 1 .. Len(Windows)
      BY WindowsAssumption DEF GuiTypeOK
    <2>2. QED BY <2>1 DEF GuiTypeOK, Numbers
  <1>2. /\ Box[Windows[k]] \in [x : Int, y : Int, w : Nat, h : Nat]
        /\ Size(Windows[k]) \in Nat \X Nat
    BY <1>1, BoxAssumption DEF Size
  <1>3. p \in Painted(k, 0) <=> InWindow(place, k, p)
    BY <1>1, <1>2, FilledContains DEF Painted, InWindow
  <1>4. ASSUME NEW n \in 1 .. Len(Inner[k])
        PROVE  /\ p \in Painted(k, n) <=> InnerContains(k, n, p)
               /\ p \in Painted(k, n) => InWindow(place, k, p)
    <2> DEFINE widget == Inner[k][n]
    <2>1. widget \in InnerWidgets
      BY <1>1 DEF InnerWidgets
    <2>2. /\ Box[widget] \in [x : Int, y : Int, w : Nat, h : Nat]
          /\ Box[widget].x >= 0 /\ Box[widget].x + Box[widget].w <= Box[Windows[k]].w
          /\ Box[widget].y >= 0 /\ Box[widget].y + Box[widget].h <= Box[Windows[k]].h
      BY <1>1, <2>1, BoxAssumption, InsideAssumption
    <2> DEFINE a1 == place[k][1]
               a2 == place[k][2]
               c1 == p[1]
               c2 == p[2]
               i1 == Box[widget].x
               i2 == Box[widget].y
               w1 == Box[widget].w
               w2 == Box[widget].h
               v1 == Box[Windows[k]].w
               v2 == Box[Windows[k]].h
    <2>3. /\ a1 \in Int /\ a2 \in Int /\ a1 >= 0 /\ a2 >= 0
          /\ c1 \in Int /\ c2 \in Int
          /\ i1 \in Int /\ i2 \in Int /\ i1 >= 0 /\ i2 >= 0
          /\ w1 \in Nat /\ w2 \in Nat /\ v1 \in Nat /\ v2 \in Nat
          /\ i1 + w1 <= v1 /\ i2 + w2 <= v2
      <3>1. /\ a1 \in Int /\ a2 \in Int /\ a1 >= 0 /\ a2 >= 0
        BY <1>1
      <3>2. c1 \in Int /\ c2 \in Int
        BY ScreenAssumption DEF Pixels
      <3>3. v1 \in Nat /\ v2 \in Nat
        BY <1>2
      <3>4. /\ i1 \in Int /\ i2 \in Int /\ i1 >= 0 /\ i2 >= 0
            /\ w1 \in Nat /\ w2 \in Nat
            /\ i1 + w1 <= v1 /\ i2 + w2 <= v2
        BY <2>2
      <3>5. QED BY <3>1, <3>2, <3>3, <3>4
    <2>4. Painted(k, n) = FillRectangle(<<a1 + i1, a2 + i2>>, <<w1, w2>>)
      BY DEF Painted, Plus, Origin, Size
    <2>5. InnerContains(k, n, p)
          <=> ContainsCoordinate(<<i1, i2>>, <<w1, w2>>, <<c1 - a1, c2 - a2>>)
      BY DEF InnerContains, Origin, Size, Minus
    <2>6. InWindow(place, k, p)
          <=> /\ a1 <= c1 /\ c1 < a1 + v1
              /\ a2 <= c2 /\ c2 < a2 + v2
      BY DEF InWindow, ContainsCoordinate, Size
    <2>7. ContainsCoordinate(<<a1 + i1, a2 + i2>>, <<w1, w2>>, p)
          <=> /\ a1 + i1 <= c1 /\ c1 < (a1 + i1) + w1
              /\ a2 + i2 <= c2 /\ c2 < (a2 + i2) + w2
      BY DEF ContainsCoordinate
    <2> HIDE DEF a1, a2, c1, c2, i1, i2, w1, w2, v1, v2
    <2>8. p \in FillRectangle(<<a1 + i1, a2 + i2>>, <<w1, w2>>)
          <=> ContainsCoordinate(<<a1 + i1, a2 + i2>>, <<w1, w2>>, p)
      <3>1. /\ <<a1 + i1, a2 + i2>> \in Int \X Int /\ <<w1, w2>> \in Nat \X Nat
            /\ a1 + i1 >= 0 /\ a2 + i2 >= 0
        BY <2>3
      <3>2. QED BY <3>1, FilledContains
    <2>9. InnerContains(k, n, p)
          <=> /\ i1 <= c1 - a1 /\ c1 - a1 < i1 + w1
              /\ i2 <= c2 - a2 /\ c2 - a2 < i2 + w2
      BY <2>5 DEF ContainsCoordinate
    <2>10. /\ a1 + i1 <= c1 <=> i1 <= c1 - a1
           /\ c1 < (a1 + i1) + w1 <=> c1 - a1 < i1 + w1
           /\ i1 <= c1 - a1 /\ c1 - a1 < i1 + w1 => a1 <= c1 /\ c1 < a1 + v1
      <3>1. /\ a1 \in Int /\ c1 \in Int /\ i1 \in Int /\ w1 \in Int /\ v1 \in Int
            /\ i1 >= 0 /\ i1 + w1 <= v1
        BY <2>3
      <3>2. QED BY ONLY <3>1
    <2>11. /\ a2 + i2 <= c2 <=> i2 <= c2 - a2
           /\ c2 < (a2 + i2) + w2 <=> c2 - a2 < i2 + w2
           /\ i2 <= c2 - a2 /\ c2 - a2 < i2 + w2 => a2 <= c2 /\ c2 < a2 + v2
      <3>1. /\ a2 \in Int /\ c2 \in Int /\ i2 \in Int /\ w2 \in Int /\ v2 \in Int
            /\ i2 >= 0 /\ i2 + w2 <= v2
        BY <2>3
      <3>2. QED BY ONLY <3>1
    <2>12. QED BY ONLY <2>4, <2>6, <2>7, <2>8, <2>9, <2>10, <2>11
  <1>5. QED BY <1>3, <1>4

(* so that the last rectangle painted at a pixel is the first one hit.     *)
LEMMA LastPaintedIsFirstHit == GuiTypeOK => ShownIsHit
  <1> SUFFICES ASSUME GuiTypeOK,
                      \A l \in 1 .. children : place[l][1] >= 0 /\ place[l][2] >= 0,
                      NEW p \in Pixels
               PROVE  LET k == FirstAt(place, p)
                      IN  IF k = 0
                          THEN \A l \in 1 .. children : \A m \in 0 .. Len(Inner[l]) :
                                   p \notin Painted(l, m)
                          ELSE \E n \in 0 .. Len(Inner[k]) :
                                   /\ Shows(p, k, n)
                                   /\ InnerAt(k, p) = IF n = 0 THEN None ELSE Inner[k][n]
    BY DEF ShownIsHit
  <1> DEFINE k == FirstAt(place, p)
  <1>1. children \in Nat /\ 1 .. children \subseteq Numbers
    BY WindowsAssumption DEF GuiTypeOK, Numbers
  <1>2. /\ k \in 0 .. children
        /\ k # 0 => InWindow(place, k, p)
        /\ \A n \in 1 .. children : InWindow(place, n, p) => k # 0 /\ k <= n
    BY <1>1, FirstAtIsFirst
  <1> HIDE DEF k
  <1>3. ASSUME NEW l \in 1 .. children, NEW m \in 0 .. Len(Inner[l]), p \in Painted(l, m)
        PROVE  InWindow(place, l, p)
    <2>1. m = 0 \/ m \in 1 .. Len(Inner[l])
      BY <1>1, WindowsAssumption DEF Numbers
    <2>2. QED BY <1>3, <2>1, PaintedIsHit
  <1>4. CASE k = 0
    BY <1>2, <1>3, <1>4 DEF k
  <1>5. CASE k # 0
    <2>1. k \in 1 .. children /\ k \in Numbers /\ Len(Inner[k]) \in Nat
      BY <1>1, <1>2, <1>5, WindowsAssumption DEF Numbers
    <2>2. PICK n \in 0 .. Len(Inner[k]) :
              /\ InnerAt(k, p) = IF n = 0 THEN None ELSE Inner[k][n]
              /\ n # 0 => InnerContains(k, n, p)
              /\ \A m \in 1 .. Len(Inner[k]) :
                    n = 0 \/ m < n => ~InnerContains(k, m, p)
      <3>1. CASE /\ InnerAt(k, p) = None
                 /\ \A m \in 1 .. Len(Inner[k]) : ~InnerContains(k, m, p)
        <4>1. 0 \in 0 .. Len(Inner[k])
          BY <2>1
        <4>2. QED BY <3>1, <4>1
      <3>2. ASSUME NEW n \in 1 .. Len(Inner[k]),
                   InnerAt(k, p) = Inner[k][n], InnerContains(k, n, p),
                   \A m \in 1 .. n - 1 : ~InnerContains(k, m, p)
            PROVE  /\ n \in 0 .. Len(Inner[k]) /\ n # 0
                   /\ \A m \in 1 .. Len(Inner[k]) : m < n => ~InnerContains(k, m, p)
        BY <2>1, <3>2
      <3>3. QED BY <2>1, <3>1, <3>2, InnerAtIsFirst
    <2>3. n = 0 \/ n \in 1 .. Len(Inner[k])
      BY <2>1
    <2>4. p \in Painted(k, n)
      BY <1>2, <1>5, <2>1, <2>2, <2>3, PaintedIsHit
    <2>5. ASSUME NEW l \in 1 .. children, NEW m \in 0 .. Len(Inner[l]),
                 Over(l, m, k, n), p \in Painted(l, m)
          PROVE  FALSE
      <3>1. InWindow(place, l, p)
        BY <1>3, <2>5
      <3>2. l = k
        BY <1>2, <2>1, <2>5, <3>1 DEF Over
      <3>3. m > 0 /\ (n = 0 \/ m < n) /\ m \in 1 .. Len(Inner[k])
        BY <2>1, <2>5, <3>2 DEF Over
      <3>4. InnerContains(k, m, p)
        BY <2>1, <2>5, <3>2, <3>3, PaintedIsHit
      <3>5. QED BY <2>2, <3>3, <3>4
    <2>6. Shows(p, k, n)
      BY <2>4, <2>5 DEF Shows
    <2>7. QED BY <1>5, <2>2, <2>6 DEF k
  <1>6. QED BY <1>4, <1>5 DEF k

(* What the user sees is what a click reaches (widget.cpp:57-63, 98-122).  *)
THEOREM ShownIsAlwaysHit == GuiSpec => []ShownIsHit
  <1>1. DesktopInv => ShownIsHit
    BY LastPaintedIsFirstHit DEF DesktopInv
  <1>2. QED BY <1>1, AlwaysDesktopInv, PTL

-----------------------------------------------------------------------------
(* The card's registers, of whatever number in each group.                 *)
Files == UNION {[1 .. n -> Byte] : n \in Nat}
IsFile(rs) ==
    /\ rs \in [Groups -> Files]
    /\ \A g \in Groups : rs[g] \in [1 .. Len(Registers[g]) -> Byte]

(* When a group's turn comes.                                              *)
Turn(g) == IF g = "misc" THEN 1 ELSE IF g = "sequencer" THEN 2
           ELSE IF g = "crtc" THEN 4 ELSE IF g = "graphics" THEN 5 ELSE 6

(* What was written stays as it is wanted, and from its group's turn on    *)
(* the controller is unlocked.                                             *)
ModeInv ==
    /\ IsFile(registers)
    /\ setting \in (1 .. 8) \X Nat
    /\ \A g \in Groups : \A k \in 1 .. Len(Registers[g]) :
          Turn(g) < setting[1] \/ (Turn(g) = setting[1] /\ k <= setting[2])
          => registers[g][k] = Wanted(g, k - 1)
    /\ setting[1] >= 4 => registers["crtc"][18] < 128
    /\ setting[1] = 8 => expects = "data"

(* Each group has its turn.                                                *)
LEMMA Turns ==
    ASSUME NEW g \in Groups
    PROVE  /\ Turn(g) \in 1 .. 6 /\ Turn(g) # 3
           /\ \A s \in 1 .. 8 : Order[s] = g => s = Turn(g)
           /\ \A h \in Groups : Turn(h) = Turn(g) => h = g
           /\ g = "crtc" <=> Turn(g) = 4
  <1>1. /\ Turn("misc") = 1 /\ Turn("sequencer") = 2 /\ Turn("crtc") = 4
        /\ Turn("graphics") = 5 /\ Turn("attribute") = 6
    BY DEF Turn
  <1>2. /\ Order[1] = "misc" /\ Order[2] = "sequencer" /\ Order[3] = "unlock"
        /\ Order[4] = "crtc" /\ Order[5] = "graphics" /\ Order[6] = "attribute"
        /\ Order[7] = "enable" /\ Order[8] = "done"
    BY DEF Order
  <1>3. \A s \in 1 .. 8 : Order[s] = g => s = Turn(g)
    <2> SUFFICES ASSUME NEW s \in 1 .. 8, Order[s] = g PROVE s = Turn(g)
      OBVIOUS
    <2>1. s \in {1, 2, 3, 4, 5, 6, 7, 8}
      OBVIOUS
    <2>2. QED BY <1>1, <1>2, <2>1 DEF Groups
  <1>4. QED BY <1>1, <1>3 DEF Groups

(* Bytes with one bit changed.                                             *)
LEMMA Bits ==
    ASSUME NEW v \in Byte
    PROVE  /\ WithBit7(v) \in Byte
           /\ WithoutBit7(v) \in Byte /\ WithoutBit7(v) < 128
  BY DEF Byte, WithBit7, WithoutBit7

(* The bytes of the table are bytes; that of the lock does not lock.       *)
LEMMA WantedBytes ==
    ASSUME NEW g \in Groups, NEW i \in Nat, i + 1 \in 1 .. Len(Registers[g])
    PROVE  Wanted(g, i) \in Byte /\ (g = "crtc" /\ i = 17 => Wanted(g, i) < 128)
  <1>1. Registers[g] \in Seq(Byte)
    BY RegistersAssumption
  <1>2. Registers[g][i + 1] \in Byte
    BY <1>1
  <1>3. QED BY <1>2, Bits DEF Wanted

(* A write that is not ignored changes one register.                       *)
LEMMA PortedAt ==
    ASSUME NEW rs, IsFile(rs), NEW g \in Groups, NEW i \in Nat, NEW v,
           i + 1 \in 1 .. Len(Registers[g]) => v \in Byte, ~Locked(rs, g, i)
    PROVE  /\ IsFile(Ported(rs, g, i, v))
           /\ \A h \in Groups : \A k \in 1 .. Len(Registers[h]) :
                 Ported(rs, g, i, v)[h][k] =
                     IF h = g /\ k = i + 1 THEN v ELSE rs[h][k]
  <1> DEFINE new == [rs[g] EXCEPT ![i + 1] = v]
             n == Len(Registers[g])
  <1>1. Ported(rs, g, i, v) = [rs EXCEPT ![g] = new]
    BY DEF Ported
  <1>2. n \in Nat /\ rs[g] \in [1 .. n -> Byte]
    <2>1. Registers[g] \in Seq(Byte)
      BY RegistersAssumption
    <2>2. QED BY <2>1 DEF IsFile
  <1>3. /\ new \in [1 .. n -> Byte]
        /\ \A k \in 1 .. n : new[k] = IF k = i + 1 THEN v ELSE rs[g][k]
    <2> HIDE DEF n
    <2>1. CASE i + 1 \in 1 .. n
      BY <1>2, <2>1 DEF n
    <2>2. CASE i + 1 \notin 1 .. n
      BY <1>2, <2>2
    <2>3. QED BY <2>1, <2>2
  <1>4. new \in Files
    <2> HIDE DEF new, n
    <2> QED BY <1>2, <1>3 DEF Files
  <1> HIDE DEF new
  <1>5. /\ [rs EXCEPT ![g] = new] \in [Groups -> Files]
        /\ \A h \in Groups : [rs EXCEPT ![g] = new][h] = IF h = g THEN new ELSE rs[h]
    BY <1>4 DEF IsFile
  <1>6. QED BY <1>1, <1>3, <1>5 DEF IsFile

(* One byte of a group, where the loops are.                               *)
LEMMA WriteInv ==
    ASSUME ModeInv, NEW g \in Groups, g = Group,
           registers' = Ported(registers, g, Index, Wanted(g, Index)),
           setting' = NextIndex(g)
    PROVE  ModeInv'
  <1> DEFINE s == setting[1]
             i == setting[2]
  <1>1. s \in 1 .. 8 /\ i \in Nat /\ IsFile(registers)
    BY DEF ModeInv
  <1>2. s = Turn(g) /\ s \in 1 .. 6 /\ s # 3 /\ (g = "crtc" => s = 4)
        /\ \A h \in Groups : Turn(h) \in 1 .. 6 /\ (Turn(h) = s => h = g)
    BY <1>1, Turns DEF Group
  <1>3. ~Locked(registers, g, i)
    <2>1. CASE g = "crtc"
      <3>1. setting[1] >= 4
        BY <1>2, <2>1
      <3>2. registers["crtc"][18] < 128
        BY <3>1 DEF ModeInv
      <3>3. registers["crtc"][18] \in Int
        <4>1. "crtc" \in Groups /\ 18 \in 1 .. Len(Registers["crtc"])
          <5>1. Registers["crtc"] \in Seq(Byte) /\ Len(Registers["crtc"]) > 17
            BY RegistersAssumption DEF Groups
          <5>2. QED BY <5>1 DEF Groups
        <4>2. registers["crtc"][18] \in Byte
          BY <1>1, <4>1 DEF IsFile
        <4>3. QED BY <4>2 DEF Byte
      <3>4. QED BY <3>2, <3>3 DEF Locked
    <2>2. QED BY <2>1 DEF Locked
  <1>4. registers' = Ported(registers, g, i, Wanted(g, i))
    BY DEF Index
  <1>5. /\ IsFile(registers')
        /\ \A h \in Groups : \A k \in 1 .. Len(Registers[h]) :
              registers'[h][k] = IF h = g /\ k = i + 1 THEN Wanted(g, i)
                                 ELSE registers[h][k]
    <2> HIDE DEF s, i
    <2> QED BY <1>1, <1>3, <1>4, WantedBytes, PortedAt
  <1>6. /\ s + 1 \in 1 .. 8
        /\ \/ setting' = <<s, i + 1>>
           \/ ~(i + 1 < Len(Registers[g])) /\ setting' = <<s + 1, 0>>
    BY <1>2 DEF NextIndex, Index
  <1>7. ASSUME NEW h \in Groups, NEW k \in 1 .. Len(Registers[h]),
               Turn(h) < setting'[1] \/ (Turn(h) = setting'[1] /\ k <= setting'[2])
        PROVE  registers'[h][k] = Wanted(h, k - 1)
    <2>1. Turn(h) < s \/ (Turn(h) = s /\ k <= i) => registers[h][k] = Wanted(h, k - 1)
      BY DEF ModeInv
    <2>2. k \in Nat /\ k > 0 /\ k <= Len(Registers[h]) /\ Len(Registers[h]) \in Nat
      <3>1. Registers[h] \in Seq(Byte)
        BY RegistersAssumption
      <3>2. Len(Registers[h]) \in Nat
        BY <3>1
      <3>3. QED BY <3>2
    <2> HIDE DEF s, i
    <2>3. Turn(h) < s \/ (h = g /\ k <= i + 1)
      BY <1>1, <1>2, <1>6, <1>7, <2>2
    <2>4. CASE Turn(h) < s
      <3>1. h # g
        BY <1>2, <2>4
      <3>2. QED BY <1>5, <2>1, <2>4, <3>1
    <2>5. CASE h = g /\ k = i + 1
      <3>1. k - 1 = i
        BY <1>1, <2>5
      <3>2. QED BY <1>5, <2>5, <3>1
    <2>6. CASE h = g /\ k <= i /\ k # i + 1
      BY <1>2, <1>5, <2>1, <2>6
    <2>7. QED BY <1>1, <2>2, <2>3, <2>4, <2>5, <2>6
  <1>8. ASSUME setting'[1] >= 4 PROVE registers'["crtc"][18] < 128
    <2>1. "crtc" \in Groups /\ 18 \in 1 .. Len(Registers["crtc"])
      <3>1. Registers["crtc"] \in Seq(Byte) /\ Len(Registers["crtc"]) > 17
        BY RegistersAssumption DEF Groups
      <3>2. QED BY <3>1 DEF Groups
    <2>2. s >= 4
      <3> HIDE DEF s, i
      <3> QED BY <1>2, <1>6, <1>8
    <2>3. registers["crtc"][18] < 128
      BY <2>2 DEF ModeInv
    <2> HIDE DEF s, i
    <2>4. CASE g = "crtc" /\ 18 = i + 1
      <3>1. i = 17
        BY <1>1, <2>4
      <3>2. Wanted(g, i) < 128
        BY <1>1, <2>1, <2>4, <3>1, WantedBytes
      <3>3. QED BY <1>5, <2>1, <2>4, <3>2
    <2>5. CASE ~(g = "crtc" /\ 18 = i + 1)
      BY <1>5, <2>1, <2>3, <2>5
    <2>6. QED BY <2>4, <2>5
  <1>9. setting' \in (1 .. 8) \X Nat /\ setting'[1] # 8
    <2> HIDE DEF s, i
    <2> QED BY <1>1, <1>2, <1>6
  <1>10. QED BY <1>5, <1>7, <1>8, <1>9 DEF ModeInv, IsFile, Wanted

(* The bits that unlock the controller.                                    *)
LEMMA UnlockInv == ASSUME ModeInv, Unlock PROVE ModeInv'
  <1> DEFINE third == WithBit7(registers["crtc"][4])
             first == Ported(registers, "crtc", 3, third)
             lock == WithoutBit7(first["crtc"][18])
  <1>1. "crtc" \in Groups /\ 18 \in 1 .. Len(Registers["crtc"])
        /\ 4 \in 1 .. Len(Registers["crtc"])
    <2>1. Registers["crtc"] \in Seq(Byte) /\ Len(Registers["crtc"]) > 17
      BY RegistersAssumption DEF Groups
    <2>2. QED BY <2>1 DEF Groups
  <1>2. IsFile(registers) /\ setting[1] \in 1 .. 8
    BY DEF ModeInv
  <1>3. third \in Byte
    BY <1>1, <1>2, Bits DEF IsFile
  <1>4. /\ IsFile(first)
        /\ \A h \in Groups \ {"crtc"} : \A k \in 1 .. Len(Registers[h]) :
              first[h][k] = registers[h][k]
    <2> HIDE DEF third
    <2>1. CASE Locked(registers, "crtc", 3)
      BY <1>2, <2>1 DEF Ported
    <2>2. CASE ~Locked(registers, "crtc", 3)
      BY <1>1, <1>2, <1>3, <2>2, PortedAt
    <2>3. QED BY <2>1, <2>2
  <1> HIDE DEF first
  <1>5. lock \in Byte /\ lock < 128
    BY <1>1, <1>4, Bits DEF IsFile
  <1>6. registers' = Ported(first, "crtc", 17, lock)
    BY DEF Unlock, Unlocked, first
  <1>7. ~Locked(first, "crtc", 17)
    BY DEF Locked
  <1> HIDE DEF lock
  <1>8. /\ IsFile(registers')
        /\ \A h \in Groups : \A k \in 1 .. Len(Registers[h]) :
              registers'[h][k] = IF h = "crtc" /\ k = 17 + 1 THEN lock ELSE first[h][k]
    BY <1>1, <1>4, <1>5, <1>6, <1>7, PortedAt
  <1>9. setting[1] = 3 /\ setting' = <<4, 0>>
    <2>1. setting[1] \in {1, 2, 3, 4, 5, 6, 7, 8}
      BY <1>2
    <2>2. Order[setting[1]] = "unlock" /\ setting' = <<setting[1] + 1, 0>>
      BY DEF Unlock, Group
    <2>3. setting[1] = 3
      BY <2>1, <2>2 DEF Order
    <2>4. QED BY <2>2, <2>3
  <1>10. registers'["crtc"][18] < 128
    BY <1>1, <1>5, <1>8
  <1>11. ASSUME NEW h \in Groups, NEW k \in 1 .. Len(Registers[h]),
                Turn(h) < 4 \/ (Turn(h) = 4 /\ k <= 0)
         PROVE  registers'[h][k] = Wanted(h, k - 1)
    <2>1. Turn(h) < 3 /\ h # "crtc"
      BY <1>11, Turns
    <2>2. registers[h][k] = Wanted(h, k - 1)
      BY <1>9, <2>1 DEF ModeInv
    <2>3. QED BY <1>4, <1>8, <2>1, <2>2
  <1>12. QED BY <1>8, <1>9, <1>10, <1>11 DEF ModeInv, IsFile, Wanted

(* The last write of all.                                                  *)
LEMMA EnableInv == ASSUME ModeInv, Enable PROVE ModeInv'
  <1>1. setting[1] \in 1 .. 8 /\ Order[setting[1]] = "enable"
    BY DEF ModeInv, Enable, Group
  <1>2. setting[1] \in {1, 2, 3, 4, 5, 6, 7, 8}
    BY <1>1
  <1>3. setting[1] = 7
    BY <1>1, <1>2 DEF Order
  <1>4. setting' = <<8, 0>> /\ UNCHANGED registers /\ expects' = "data"
    BY <1>3 DEF Enable, ResetPort
  <1>5. \A h \in Groups : \A k \in 1 .. Len(Registers[h]) :
            registers[h][k] = Wanted(h, k - 1)
    BY <1>3, Turns DEF ModeInv
  <1>6. registers["crtc"][18] < 128
    BY <1>3 DEF ModeInv
  <1>7. QED BY <1>4, <1>5, <1>6 DEF ModeInv, IsFile, Wanted

(* The card as the loader leaves it.                                       *)
LEMMA VgaInitInv == VgaInit => ModeInv
  <1> SUFFICES ASSUME VgaInit PROVE ModeInv
    OBVIOUS
  <1>1. PICK third \in {0, 128}, eleventh \in {0, 128} :
            registers = [g \in Groups |-> [k \in 1 .. Len(Registers[g]) |->
                IF g = "crtc" /\ k = 4 THEN third
                ELSE IF g = "crtc" /\ k = 18 THEN eleventh ELSE 0]]
    BY DEF VgaInit
  <1>2. ASSUME NEW g \in Groups
        PROVE  registers[g] \in [1 .. Len(Registers[g]) -> Byte] /\ registers[g] \in Files
    <2>1. registers[g] = [k \in 1 .. Len(Registers[g]) |->
                IF g = "crtc" /\ k = 4 THEN third
                ELSE IF g = "crtc" /\ k = 18 THEN eleventh ELSE 0]
      BY <1>1
    <2>2. registers[g] \in [1 .. Len(Registers[g]) -> Byte]
      BY <2>1 DEF Byte
    <2>3. Registers[g] \in Seq(Byte)
      BY RegistersAssumption
    <2>4. Len(Registers[g]) \in Nat
      BY <2>3
    <2>5. QED BY <2>2, <2>4 DEF Files
  <1>3. registers \in [Groups -> Files]
    <2>1. registers = [g \in Groups |-> registers[g]]
      BY <1>1
    <2>2. QED BY <1>2, <2>1
  <1>4. setting = <<1, 0>>
    BY DEF VgaInit
  <1>6. setting[1] = 1 /\ setting[2] = 0 /\ setting \in (1 .. 8) \X Nat
    BY <1>4
  <1>7. ASSUME NEW g \in Groups, NEW k \in 1 .. Len(Registers[g])
        PROVE  ~(Turn(g) < setting[1] \/ (Turn(g) = setting[1] /\ k <= setting[2]))
    <2>1. Turn(g) \in Int /\ Turn(g) >= 1
      BY Turns
    <2>2. QED BY <1>6, <2>1
  <1>8. QED BY <1>2, <1>3, <1>6, <1>7 DEF ModeInv, IsFile

(* The mode that is set is the table's (vga.cpp:30-76).                    *)
THEOREM ModeIsAlwaysSet == GuiSpec => []ModeIsSet
  <1>1. GuiInit => ModeInv
    BY VgaInitInv DEF GuiInit
  <1>2. ASSUME ModeInv, [GuiNext]_guiVars PROVE ModeInv'
    <2>1. CASE UNCHANGED vgaVars
      BY <1>2, <2>1 DEF vgaVars, ModeInv, IsFile, Wanted
    <2>2. CASE WriteRegister
      BY <1>2, <2>2, WriteInv DEF WriteRegister, Groups
    <2>3. CASE WriteAttribute
      BY <1>2, <2>3, WriteInv DEF WriteAttribute, ResetPort, Groups
    <2>4. CASE Unlock
      BY <1>2, <2>4, UnlockInv
    <2>5. CASE Enable
      BY <1>2, <2>5, EnableInv
    <2>6. SetMode \/ UNCHANGED vgaVars
      BY <1>2 DEF GuiNext, BootMode, AddChild, ActivateInterrupts, ButtonDown, ButtonUp,
                  MovePointer, guiVars
    <2>7. QED BY <2>1, <2>2, <2>3, <2>4, <2>5, <2>6 DEF SetMode
  <1>3. ASSUME ModeInv PROVE ModeIsSet
    <2> SUFFICES ASSUME IsSet PROVE ModeIsSet
      BY DEF ModeIsSet
    <2>1. setting[1] \in 1 .. 8 /\ Order[setting[1]] = "done"
      BY <1>3 DEF ModeInv, IsSet, Group
    <2>2. setting[1] \in {1, 2, 3, 4, 5, 6, 7, 8}
      BY <2>1
    <2>3. setting[1] = 8
      BY <2>1, <2>2 DEF Order
    <2>4. \A g \in Groups : Turn(g) < 8
      BY Turns
    <2>5. QED BY <1>3, <2>3, <2>4 DEF ModeInv, ModeIsSet
  <1>4. QED BY <1>1, <1>2, <1>3, PTL DEF GuiSpec
-----------------------------------------------------------------------------
(* The calculator                                                          *)

(* A function that takes the digits of a text one by one.                  *)
NumberSolves(f, text, size) ==
    f[0] = 0 /\ \A k \in 1 .. size : f[k] = f[k - 1] * Base + text[k]

(* A digit is a number.                                                    *)
LEMMA DigitIsNat == \A d \in Digits : d \in Nat
  BY BaseAssumption DEF Digits

(* NumberOf of a numeral is the last value of such a function, ...         *)
LEMMA NumberFunction ==
    ASSUME NEW s \in Seq(Digits), NEW n \in Nat, n = Len(s)
    PROVE  \E f \in [0 .. n -> Nat] : NumberSolves(f, s, n) /\ NumberOf(s) = f[n]
  <1> DEFINE Step(f) == [k \in 0 .. Len(s) |-> IF k = 0 THEN 0 ELSE f[k - 1] * Base + s[k]]
             number == CHOOSE f : f = Step(f)
             to == [k \in 1 .. n |-> k - 1]
             made == [k \in 1 .. n |-> [m \in Nat |-> m * Base + s[k]]]
  <1>1. \A k \in 1 .. n : s[k] \in Nat
    BY DigitIsNat, ElementOfSeq
  <1>2. to \in [1 .. n -> 0 .. n] /\ \A k \in 1 .. n : to[k] = k - 1 /\ to[k] < k
    OBVIOUS
  <1>3. /\ made \in [1 .. n -> [Nat -> Nat]]
        /\ \A k \in 1 .. n : \A m \in Nat : made[k][m] = m * Base + s[k]
    BY <1>1, BaseAssumption
  <1>4. PICK g \in [0 .. n -> Nat] : NumberSolves(g, s, n)
    <2> HIDE DEF to, made
    <2>1. PICK g \in [0 .. n -> Nat] : Solves(g, n, 0, to, made)
      BY <1>2, <1>3, Recursion
    <2>2. ASSUME NEW k \in 1 .. n PROVE g[k] = g[k - 1] * Base + s[k]
      <3>1. g[k - 1] \in Nat
        OBVIOUS
      <3> QED  BY <1>2, <1>3, <2>1, <3>1 DEF Solves
    <2> QED  BY <2>1, <2>2 DEF Solves, NumberSolves
  <1>5. g = Step(g)
    <2>1. ASSUME NEW k \in 0 .. n
          PROVE  g[k] = IF k = 0 THEN 0 ELSE g[k - 1] * Base + s[k]
      <3>1. k = 0 \/ k \in 1 .. n
        OBVIOUS
      <3> QED  BY <1>4, <3>1 DEF NumberSolves
    <2>2. g = [k \in 0 .. n |-> g[k]]
      OBVIOUS
    <2> QED  BY <2>1, <2>2
  <1>6. number = Step(number)
    <2> HIDE DEF Step
    <2> QED  BY <1>5
  <1>7. NumberOf(s) = number[n]
    BY DEF NumberOf
  <1>8. \A k \in 0 .. n : number[k] = IF k = 0 THEN 0 ELSE number[k - 1] * Base + s[k]
    <2> HIDE DEF number
    <2> QED  BY <1>6
  <1> HIDE DEF number, Step
  <1>9. ASSUME NEW k \in 0 .. n, \A j \in 0 .. k - 1 : number[j] = g[j]
        PROVE  number[k] = g[k]
    <2>1. CASE k = 0
      BY <1>4, <1>8, <2>1 DEF NumberSolves
    <2>2. CASE k # 0
      <3>1. k - 1 \in 0 .. k - 1 /\ k \in 1 .. n
        BY <2>2
      <3> QED  BY <1>4, <1>8, <1>9, <2>2, <3>1 DEF NumberSolves
    <2> QED  BY <2>1, <2>2
  <1>10. Alike(number, g, n)
    BY <1>9 DEF Alike
  <1>11. number[n] = g[n]
    BY <1>10, SameUpTo
  <1> QED  BY <1>4, <1>7, <1>11

(* ... so that a digit behind it counts once, and the others Base times.   *)
LEMMA NumberOfAppend ==
    ASSUME NEW s \in Seq(Digits), NEW d \in Digits
    PROVE  NumberOf(Append(s, d)) = NumberOf(s) * Base + d
  <1>1. PICK n \in Nat : n = Len(s)
    BY LenProperties
  <1>2. PICK t \in Seq(Digits) : /\ t = Append(s, d) /\ Len(t) = n + 1
                                 /\ \A k \in 1 .. n : t[k] = s[k]
                                 /\ t[n + 1] = d
    BY <1>1, AppendProperties
  <1>3. PICK f \in [0 .. n -> Nat] : NumberSolves(f, s, n) /\ NumberOf(s) = f[n]
    BY <1>1, NumberFunction
  <1>4. PICK g \in [0 .. n + 1 -> Nat] : NumberSolves(g, t, n + 1) /\ NumberOf(t) = g[n + 1]
    <2>1. PICK m \in Nat : m = n + 1 /\ m = Len(t)
      BY <1>2
    <2>2. \E g \in [0 .. m -> Nat] : NumberSolves(g, t, m) /\ NumberOf(t) = g[m]
      BY <2>1, NumberFunction
    <2> QED  BY <2>1, <2>2
  <1>5. ASSUME NEW k \in 0 .. n, \A j \in 0 .. k - 1 : f[j] = g[j] PROVE f[k] = g[k]
    <2>1. CASE k = 0
      BY <1>3, <1>4, <2>1 DEF NumberSolves
    <2>2. CASE k # 0
      <3>1. k - 1 \in 0 .. k - 1 /\ k \in 1 .. n /\ k \in 1 .. n + 1
        BY <2>2
      <3> QED  BY <1>2, <1>3, <1>4, <1>5, <3>1 DEF NumberSolves
    <2> QED  BY <2>1, <2>2
  <1>6. f[n] = g[n]
    <2>1. Alike(f, g, n)
      BY <1>5 DEF Alike
    <2> QED  BY <2>1, SameUpTo
  <1>7. g[n + 1] = g[n] * Base + t[n + 1]
    <2>1. n + 1 \in 1 .. n + 1 /\ (n + 1) - 1 = n
      OBVIOUS
    <2> QED  BY <1>4, <2>1 DEF NumberSolves
  <1> QED  BY <1>2, <1>3, <1>4, <1>6, <1>7

(* Without digits that is 0.                                               *)
LEMMA NumberOfEmpty == NumberOf(<<>>) = 0
  <1>1. <<>> \in Seq(Digits) /\ Len(<<>>) = 0
    OBVIOUS
  <1>2. PICK f : NumberSolves(f, <<>>, 0) /\ NumberOf(<<>>) = f[0]
    BY <1>1, NumberFunction
  <1> QED  BY <1>2 DEF NumberSolves

(* The value of a numeral is a number.                                     *)
LEMMA NumberIsNat == ASSUME NEW s \in Seq(Digits) PROVE NumberOf(s) \in Nat
  <1>1. PICK n \in Nat : n = Len(s)
    BY LenProperties
  <1>2. PICK f \in [0 .. n -> Nat] : NumberOf(s) = f[n]
    BY <1>1, NumberFunction
  <1> QED  BY <1>2

(* The loop of chartoint adds the digit it is at, ...                      *)
LEMMA LastDigit ==
    ASSUME NEW s \in Seq(Digits), NEW n \in 1 .. Len(s)
    PROVE  Temp(s, n) = s[n]
  <1>1. \A k \in 1 .. n : s[k] \in Digits
    <2>1. \A k \in 1 .. n : k \in 1 .. Len(s)
      OBVIOUS
    <2> QED  BY <2>1, ElementOfSeq
  <1> DEFINE Is(k) == s[k] \in Digits /\ \A m \in k + 1 .. n : s[m] \notin Digits
  <1>2. n \in 1 .. n /\ Is(n)
    BY <1>1
  <1>3. \A k \in 1 .. n : Is(k) => k = n
    <2> TAKE k \in 1 .. n
    <2>1. k # n => n \in k + 1 .. n
      OBVIOUS
    <2> QED  BY <1>1, <2>1
  <1> HIDE DEF Is
  <1>4. (CHOOSE k \in 1 .. n : Is(k)) = n
    BY <1>2, <1>3
  <1> QED  BY <1>4 DEF Temp, Is

(* ... so that it returns the value of the numeral modulo the word.        *)
LEMMA CharToInt ==
    ASSUME NEW s \in Seq(Digits)
    PROVE  chartoint(s) = NumberOf(s) % WordSize
  <1>1. PICK n \in Nat : n = Len(s)
    BY LenProperties
  <1> DEFINE Step(f) == [k \in 0 .. Len(s) |-> IF k = 0 THEN 0
                            ELSE (f[k - 1] * Base + Temp(s, k)) % WordSize]
             integer == CHOOSE f : f = Step(f)
  <1>2. PICK f \in [0 .. n -> Nat] : NumberSolves(f, s, n) /\ NumberOf(s) = f[n]
    BY <1>1, NumberFunction
  <1> DEFINE g == [k \in 0 .. n |-> f[k] % WordSize]
  <1>3. g[0] = 0
    <2>1. 0 % WordSize = 0
      BY SizesAssumption
    <2> QED  BY <1>2, <2>1 DEF NumberSolves
  <1>4. ASSUME NEW k \in 1 .. n PROVE g[k] = (g[k - 1] * Base + Temp(s, k)) % WordSize
    <2>1. PICK m \in Nat, c \in Nat : m = f[k - 1] /\ c = s[k]
      <3>1. k - 1 \in 0 .. n /\ s[k] \in Digits
        BY <1>1, ElementOfSeq
      <3> QED  BY <1>2, <3>1, DigitIsNat
    <2>2. ((m % WordSize) * Base + c) % WordSize = (m * Base + c) % WordSize
      <3>1. PICK w \in Nat \ {0}, h \in Nat : w = WordSize /\ h = Base
        BY SizesAssumption, BaseAssumption
      <3>2. Horner(m % w, h, c, w) = Horner(m, h, c, w)
        BY HornerModulo
      <3>3. ((m % w) * h + c) % w = (m * h + c) % w
        BY <3>2 DEF Horner
      <3> QED  BY <3>1, <3>3
    <2>3. f[k] = m * Base + c
      BY <1>2, <2>1 DEF NumberSolves
    <2>4. Temp(s, k) = c
      BY <1>1, <2>1, LastDigit
    <2>5. g[k] = f[k] % WordSize /\ g[k - 1] = f[k - 1] % WordSize
      OBVIOUS
    <2> HIDE DEF g
    <2> QED  BY <2>1, <2>2, <2>3, <2>4, <2>5
  <1>5. g = Step(g)
    <2>1. g = [k \in 0 .. n |-> g[k]]
      OBVIOUS
    <2> HIDE DEF g
    <2>2. ASSUME NEW k \in 0 .. n
          PROVE  g[k] = IF k = 0 THEN 0 ELSE (g[k - 1] * Base + Temp(s, k)) % WordSize
      <3>1. k = 0 \/ k \in 1 .. n
        OBVIOUS
      <3> QED  BY <1>3, <1>4, <3>1
    <2> QED  BY <1>1, <2>1, <2>2
  <1>6. integer = Step(integer)
    <2> HIDE DEF Step, g
    <2> QED  BY <1>5
  <1>7. chartoint(s) = integer[n]
    BY <1>1 DEF chartoint
  <1>8. \A k \in 0 .. n : integer[k] = IF k = 0 THEN 0
                               ELSE (integer[k - 1] * Base + Temp(s, k)) % WordSize
    <2> HIDE DEF integer
    <2> QED  BY <1>1, <1>6
  <1> HIDE DEF integer, Step
  <1>9. g[n] = NumberOf(s) % WordSize
    BY <1>2
  <1> HIDE DEF g
  <1>10. ASSUME NEW k \in 0 .. n, \A j \in 0 .. k - 1 : integer[j] = g[j]
        PROVE  integer[k] = g[k]
    <2>1. CASE k = 0
      BY <1>3, <1>8, <2>1
    <2>2. CASE k # 0
      <3>1. k - 1 \in 0 .. k - 1 /\ k \in 1 .. n
        BY <2>2
      <3> QED  BY <1>4, <1>8, <1>10, <2>2, <3>1
    <2> QED  BY <2>1, <2>2
  <1>11. integer[n] = g[n]
    <2>1. Alike(integer, g, n)
      BY <1>10 DEF Alike
    <2> QED  BY <2>1, SameUpTo
  <1> QED  BY <1>7, <1>9, <1>11

-----------------------------------------------------------------------------
(* A digit in front is the last one backwards.                             *)
LEMMA BackwardsOfCons ==
    ASSUME NEW s \in Seq(Digits), NEW d \in Digits
    PROVE  /\ Backwards(s) \in Seq(Digits)
           /\ Backwards(<<d>> \o s) = Append(Backwards(s), d)
  <1>1. PICK n \in Nat : n = Len(s)
    BY LenProperties
  <1>2. \A k \in 1 .. n : s[k] \in Digits
    BY <1>1, ElementOfSeq
  <1>5. PICK t \in Seq(Digits) :
            /\ t = <<d>> \o s /\ Len(t) = n + 1
            /\ t[1] = d /\ \A k \in 1 .. n : t[k + 1] = s[k]
    <2>1. /\ <<d>> \o s \in Seq(Digits) /\ Len(<<d>> \o s) = n + 1
          /\ (<<d>> \o s)[1] = d
          /\ \A k \in 1 .. n : (<<d>> \o s)[k + 1] = s[k]
      BY <1>1, ConsElements
    <2> QED  BY <2>1
  <1>6. Len(t) = n + 1 /\ t[1] = d /\ \A k \in 2 .. n + 1 : t[k] = s[k - 1]
    <2>2. \A k \in 2 .. n + 1 : k - 1 \in 1 .. n /\ (k - 1) + 1 = k
      OBVIOUS
    <2> QED  BY <1>5, <2>2
  <1>7. PICK u \in Seq(Digits) : /\ u = Backwards(s) /\ Len(u) = n
                                 /\ \A k \in 1 .. n : u[k] = s[(n + 1) - k]
    <2>1. \A k \in 1 .. n : s[(n + 1) - k] \in Digits
      <3>1. \A k \in 1 .. n : (n + 1) - k \in 1 .. n
        OBVIOUS
      <3> QED  BY <1>2, <3>1
    <2>2. Backwards(s) = [k \in 1 .. n |-> s[(n + 1) - k]]
      BY <1>1 DEF Backwards
    <2>3. /\ Backwards(s) \in Seq(Digits) /\ Len(Backwards(s)) = n
          /\ \A k \in 1 .. n : Backwards(s)[k] = s[(n + 1) - k]
      BY <2>1, <2>2
    <2> QED  BY <2>3
  <1>8. PICK v \in Seq(Digits) : /\ v = Backwards(t) /\ Len(v) = n + 1
                                 /\ \A k \in 1 .. n + 1 : v[k] = t[(n + 2) - k]
    <2>1. \A k \in 1 .. n + 1 : t[(n + 2) - k] \in Digits
      <3>1. \A k \in 1 .. n + 1 : (n + 2) - k \in 1 .. n + 1
        OBVIOUS
      <3> QED  BY <1>6, <3>1, ElementOfSeq
    <2>2. Backwards(t) = [k \in 1 .. n + 1 |-> t[(n + 2) - k]]
      <3>1. (n + 1) + 1 = n + 2
        OBVIOUS
      <3>2. Len(t) = n + 1
        BY <1>6
      <3> QED  BY <3>1, <3>2 DEF Backwards
    <2>3. PICK m \in Nat : m = n + 1
      OBVIOUS
    <2>4. /\ Backwards(t) \in Seq(Digits) /\ Len(Backwards(t)) = m
          /\ \A k \in 1 .. m : Backwards(t)[k] = t[(n + 2) - k]
      BY <2>1, <2>2, <2>3
    <2> QED  BY <2>3, <2>4
  <1>9. PICK w \in Seq(Digits) : /\ w = Append(u, d) /\ Len(w) = n + 1
                                 /\ \A k \in 1 .. n : w[k] = u[k]
                                 /\ w[n + 1] = d
    <2>1. n = Len(u)
      BY <1>7
    <2>2. /\ Append(u, d) \in Seq(Digits) /\ Len(Append(u, d)) = n + 1
          /\ \A k \in 1 .. n : Append(u, d)[k] = u[k]
          /\ Append(u, d)[n + 1] = d
      BY <2>1, AppendProperties
    <2> QED  BY <2>2
  <1>10. ASSUME NEW k \in 1 .. n + 1 PROVE v[k] = w[k]
    <2>1. CASE k = n + 1
      <3>1. (n + 2) - k = 1
        BY <2>1
      <3> QED  BY <1>6, <1>8, <1>9, <2>1, <3>1
    <2>2. CASE k # n + 1
      <3>1. k \in 1 .. n /\ (n + 2) - k \in 2 .. n + 1 /\ ((n + 2) - k) - 1 = (n + 1) - k
        BY <2>2
      <3>2. v[k] = t[(n + 2) - k]
        BY <1>8
      <3>3. t[(n + 2) - k] = s[(n + 1) - k]
        BY <1>6, <3>1
      <3>4. w[k] = s[(n + 1) - k]
        BY <1>7, <1>9, <3>1
      <3> QED  BY <3>2, <3>3, <3>4
    <2> QED  BY <2>1, <2>2
  <1>11. v = w
    BY <1>8, <1>9, <1>10, SeqEqual
  <1> QED  BY <1>5, <1>7, <1>8, <1>9, <1>11

(* The last of some digits with another in front.                          *)
LEMMA LastOfCons ==
    ASSUME NEW s \in Seq(Digits), NEW d \in Digits
    PROVE  /\ <<d>> \o s \in Seq(Digits) /\ <<d>> \o s # <<>>
           /\ (<<d>> \o s)[Len(<<d>> \o s)] = IF s = <<>> THEN d ELSE s[Len(s)]
  <1>1. PICK n \in Nat : n = Len(s)
    BY LenProperties
  <1>2. PICK t \in Seq(Digits) :
            /\ t = <<d>> \o s /\ Len(t) = n + 1
            /\ t[1] = d /\ \A k \in 1 .. n : t[k + 1] = s[k]
    <2>1. /\ <<d>> \o s \in Seq(Digits) /\ Len(<<d>> \o s) = n + 1
          /\ (<<d>> \o s)[1] = d
          /\ \A k \in 1 .. n : (<<d>> \o s)[k + 1] = s[k]
      BY <1>1, ConsElements
    <2> QED  BY <2>1
  <1>3. t # <<>>
    BY <1>2
  <1>4. CASE s = <<>>
    <2>1. n = 0
      BY <1>1, <1>4
    <2> QED  BY <1>2, <1>3, <1>4, <2>1
  <1>5. CASE s # <<>>
    <2>1. n \in 1 .. n
      BY <1>1, <1>5, EmptySeq
    <2> QED  BY <1>1, <1>2, <1>3, <1>5, <2>1
  <1> QED  BY <1>4, <1>5

(* What the loop of inttostring leaves of a number, and the digit.         *)
LEMMA Smaller ==
    ASSUME NEW k \in Nat \ {0}
    PROVE  /\ k \div Base \in 0 .. k - 1 /\ k % Base \in Digits
           /\ k = (k \div Base) * Base + (k % Base)
  <1>1. PICK d \in Nat \ {0} : d = Base /\ 2 <= d
    BY BaseAssumption
  <1>2. PICK q \in Nat, r \in 0 .. d - 1 :
            q = k \div d /\ r = k % d /\ k = d * q + r
    BY Division
  <1>3. d * q >= 2 * q
    <2>1. PICK e \in Nat : d = 2 + e
      <3>1. d - 2 \in Nat /\ d = 2 + (d - 2)
        BY <1>1
      <3> QED  BY <3>1
    <2>2. d * q = 2 * q + e * q
      BY <2>1
    <2>3. e * q \in Nat
      OBVIOUS
    <2> QED  BY <2>2, <2>3
  <1>4. PICK p \in Nat : p = d * q
    OBVIOUS
  <1>5. q < k
    BY <1>2, <1>3, <1>4
  <1>6. d * q = q * d
    OBVIOUS
  <1> QED  BY <1>1, <1>2, <1>5, <1>6 DEF Digits

(* A function that gives the digits of the numbers up to v.                *)
Solution(f, v) == /\ f[0] = <<>>
                  /\ \A k \in 1 .. v : f[k] = <<k % Base>> \o f[k \div Base]

(* inttostring is a value of such a function, ...                          *)
LEMMA StringFunction ==
    ASSUME NEW v \in Words
    PROVE  \E f \in [0 .. WordSize -> Seq(Digits)] :
               Solution(f, WordSize) /\ inttostring(v) = f[v]
  <1>1. PICK n \in Nat : n = WordSize
    BY SizesAssumption
  <1> DEFINE Step(f) == [k \in 0 .. WordSize |->
                            IF k = 0 THEN <<>> ELSE <<k % Base>> \o f[k \div Base]]
             rest == CHOOSE f : f = Step(f)
             to == [k \in 1 .. n |-> k \div Base]
             D == Seq(Digits)
             made == [k \in 1 .. n |-> [t \in D |-> <<k % Base>> \o t]]
  <1>2. \A k \in 1 .. n : k \div Base \in 0 .. k - 1 /\ k % Base \in Digits
    <2>1. \A k \in 1 .. n : k \in Nat \ {0}
      OBVIOUS
    <2> QED  BY <2>1, Smaller
  <1>3. to \in [1 .. n -> 0 .. n] /\ \A k \in 1 .. n : to[k] = k \div Base /\ to[k] < k
    <2>1. \A k \in 1 .. n : k \div Base \in 0 .. n /\ k \div Base < k
      BY <1>2
    <2> QED  BY <2>1
  <1>4. /\ made \in [1 .. n -> [D -> D]]
        /\ \A k \in 1 .. n : \A t \in D : made[k][t] = <<k % Base>> \o t
    <2>1. \A k \in 1 .. n : \A t \in D : <<k % Base>> \o t \in D
      BY <1>2, LastOfCons
    <2> HIDE DEF D
    <2> QED  BY <2>1
  <1>5. <<>> \in D
    OBVIOUS
  <1>6. PICK g \in [0 .. n -> D] : Solution(g, n)
    <2> HIDE DEF to, made, D
    <2>1. PICK g \in [0 .. n -> D] : Solves(g, n, <<>>, to, made)
      BY <1>3, <1>4, <1>5, Recursion
    <2>2. ASSUME NEW k \in 1 .. n PROVE g[k] = <<k % Base>> \o g[k \div Base]
      <3>1. k \div Base \in 0 .. n
        BY <1>3
      <3>2. g[k \div Base] \in D
        BY <3>1
      <3> QED  BY <1>3, <1>4, <2>1, <3>2 DEF Solves
    <2> QED  BY <2>1, <2>2 DEF Solves, Solution
  <1>7. g = Step(g)
    <2>1. ASSUME NEW k \in 0 .. n
          PROVE  g[k] = IF k = 0 THEN <<>> ELSE <<k % Base>> \o g[k \div Base]
      <3>1. k = 0 \/ k \in 1 .. n
        OBVIOUS
      <3> QED  BY <1>6, <3>1 DEF Solution
    <2>2. g = [k \in 0 .. n |-> g[k]]
      OBVIOUS
    <2> QED  BY <1>1, <2>1, <2>2
  <1>8. rest = Step(rest)
    <2> HIDE DEF Step
    <2> QED  BY <1>7
  <1>9. inttostring(v) = rest[v]
    BY DEF inttostring
  <1>10. \A k \in 0 .. n : rest[k] = IF k = 0 THEN <<>> ELSE <<k % Base>> \o rest[k \div Base]
    <2> HIDE DEF rest
    <2> QED  BY <1>1, <1>8
  <1> HIDE DEF rest, Step, to, made, D
  <1>11. ASSUME NEW k \in 0 .. n, \A j \in 0 .. k - 1 : rest[j] = g[j]
         PROVE  rest[k] = g[k]
    <2>1. CASE k = 0
      BY <1>6, <1>10, <2>1 DEF Solution
    <2>2. CASE k # 0
      <3>1. k \in 1 .. n
        BY <2>2
      <3>2. k \div Base \in 0 .. k - 1
        BY <1>2, <3>1
      <3> QED  BY <1>6, <1>10, <1>11, <2>2, <3>1, <3>2 DEF Solution
    <2> QED  BY <2>1, <2>2
  <1>12. v \in Nat /\ v <= n
    BY <1>1 DEF Words
  <1>13. Alike(rest, g, v)
    <2>1. \A k \in 0 .. v : k \in 0 .. n
      BY <1>12
    <2> QED  BY <1>11, <2>1 DEF Alike
  <1>14. rest[v] = g[v]
    BY <1>12, <1>13, SameUpTo
  <1> QED  BY <1>1, <1>6, <1>9, <1>14 DEF D

(* ... so that it gives the digits of its argument, the last one first, with*)
(* no zero in front of them.                                               *)
LEMMA IntToString ==
    ASSUME NEW v \in Words
    PROVE  /\ inttostring(v) \in Seq(Digits)
           /\ NumberOf(Backwards(inttostring(v))) = v
           /\ inttostring(v) # <<>> => inttostring(v)[Len(inttostring(v))] # 0
  <1>1. PICK f \in [0 .. WordSize -> Seq(Digits)] :
            Solution(f, WordSize) /\ inttostring(v) = f[v]
    BY StringFunction
  <1>2. PICK n \in Nat : n = v /\ n <= WordSize /\ WordSize \in Nat
    BY SizesAssumption DEF Words
  <1>3. \A k \in 0 .. n : k \in 0 .. WordSize /\ f[k] \in Seq(Digits)
    <2>1. \A k \in 0 .. n : k \in 0 .. WordSize
      BY <1>2
    <2> QED  BY <2>1
  <1> DEFINE P == {k \in 0 .. n : /\ NumberOf(Backwards(f[k])) = k
                                  /\ f[k] # <<>> => f[k][Len(f[k])] # 0}
  <1>4. ASSUME NEW k \in 0 .. n, 0 .. k - 1 \subseteq P PROVE k \in P
    <2>1. CASE k = 0
      <3>1. f[0] = <<>>
        BY <1>1 DEF Solution
      <3>2. Backwards(<<>>) = <<>>
        BY DEF Backwards
      <3> QED  BY <2>1, <3>1, <3>2, NumberOfEmpty
    <2>2. CASE k # 0
      <3>1. k \in Nat \ {0} /\ k \in 1 .. WordSize
        BY <1>2, <2>2
      <3>2. PICK q \in 0 .. k - 1, d \in Digits :
                q = k \div Base /\ d = k % Base /\ k = q * Base + d
        BY <3>1, Smaller
      <3>3. PICK t \in Seq(Digits) : t = f[q]
        <4>1. q \in 0 .. n
          OBVIOUS
        <4> QED  BY <1>3, <4>1
      <3>4. NumberOf(Backwards(t)) = q /\ (t # <<>> => t[Len(t)] # 0)
        BY <1>4, <3>2, <3>3
      <3>5. f[k] = <<d>> \o t
        BY <1>1, <3>1, <3>2, <3>3 DEF Solution
      <3>6. NumberOf(Backwards(f[k])) = k
        <4>1. PICK u \in Seq(Digits) : u = Backwards(t) /\ Backwards(<<d>> \o t) = Append(u, d)
          BY BackwardsOfCons
        <4>2. NumberOf(Append(u, d)) = NumberOf(u) * Base + d
          BY NumberOfAppend
        <4> QED  BY <3>2, <3>4, <3>5, <4>1, <4>2
      <3>7. f[k][Len(f[k])] = IF t = <<>> THEN d ELSE t[Len(t)]
        BY <3>5, LastOfCons
      <3>8. t = <<>> => d # 0
        <4>1. t = <<>> => q = 0
          <5>1. Backwards(<<>>) = <<>>
            BY DEF Backwards
          <5> QED  BY <3>4, <5>1, NumberOfEmpty
        <4>2. q = 0 => k = d
          BY <3>2, DigitIsNat, BaseAssumption
        <4> QED  BY <2>2, <4>1, <4>2
      <3> QED  BY <3>4, <3>6, <3>7, <3>8
    <2> QED  BY <2>1, <2>2
  <1>5. \A k \in 0 .. n : k \in P
    <2> HIDE DEF P
    <2> QED  BY <1>4, StrongInduction
  <1>6. n \in P
    <2>1. n \in 0 .. n
      OBVIOUS
    <2> QED  BY <1>5, <2>1
  <1> QED  BY <1>1, <1>2, <1>3, <1>6

-----------------------------------------------------------------------------
(* The terms of a command with its comma at i.                             *)
First(i) == SubSeq(line.rest, 2, i - 1)
Second(i) == SubSeq(line.rest, i + 1, Len(line.rest) - 1)

(* The command is an operation on a numeral and digits, its comma at i.    *)
IsSum(i) ==
    /\ line.word \in Operations
    /\ i \in 1 .. Len(line.rest)
    /\ line.rest[1] # Comma /\ line.rest[i] = Comma
    /\ IsNumeral(First(i)) /\ AreDigits(Second(i))

(* How far it has got.                                                     *)
Progress(i) ==
    /\ step = "search" => comma <= i + 2
    /\ step \in {"first", "second", "compute", "printed"} => comma = i + 2
    /\ step \in {"second", "compute", "printed"} /\ clean => a = NumberOf(First(i)) % WordSize
    /\ step \in {"compute", "printed"} /\ clean => b = NumberOf(Second(i)) % WordSize
    /\ step = "printed" /\ clean =>
          answer = inttostring(Result) /\ ~(line.word = "div" /\ b = 0)

(* The inductive invariant.                                                *)
CalcInv ==
    /\ line \in Lines \union {NoLine}
    /\ behind \in DataSize .. ByteSize
    /\ comma \in Nat
    /\ step = "ready" => comma = 0
    /\ \A i \in Nat : IsSum(i) => Progress(i)

Characters == Digits \union {Comma, Other}

(* What the assumptions say of the sizes.                                  *)
LEMMA CalcSizes ==
    /\ Base \in Nat /\ 2 <= Base /\ ByteSize \in Nat /\ WordSize \in Nat \ {0}
    /\ TermSize \in Nat /\ DataSize \in Nat
    /\ TermSize + 5 <= DataSize /\ DataSize <= ByteSize
  BY BaseAssumption, SizesAssumption

(* A line is one of characters that fits into data.                        *)
LEMMA LineFits ==
    ASSUME line \in Lines \union {NoLine}
    PROVE  /\ line.rest \in Seq(Characters)
           /\ Len(line.rest) \in Nat /\ Len(line.rest) + 3 < DataSize
  <1>1. CASE line \in Lines
    <2>1. line.rest \in Seq(Characters) /\ Len(line.rest) + 3 < DataSize
      BY <1>1, LinesAssumption DEF Characters
    <2> QED  BY <2>1, LenProperties
  <1>2. CASE line = NoLine
    <2>1. line.rest = <<>>
      BY <1>2 DEF NoLine
    <2>2. <<>> \in Seq(Characters) /\ Len(<<>>) = 0
      OBVIOUS
    <2> QED  BY <2>1, <2>2, CalcSizes
  <1> QED  BY <1>1, <1>2

(* The characters of a part of a line.                                     *)
LEMMA PartOfLine ==
    ASSUME NEW r \in Seq(Characters), NEW m \in 1 .. Len(r) + 1, NEW n \in 0 .. Len(r)
    PROVE  /\ SubSeq(r, m, n) \in Seq(Characters)
           /\ m > n => SubSeq(r, m, n) = <<>>
           /\ m <= n => \A k \in m .. n : (k - m) + 1 \in 1 .. Len(SubSeq(r, m, n))
                                          /\ SubSeq(r, m, n)[(k - m) + 1] = r[k]
  <1>1. PICK size \in Nat : size = Len(r)
    BY LenProperties
  <1>2. \A k \in m .. n : r[k] \in Characters
    <2>1. \A k \in m .. n : k \in 1 .. size
      BY <1>1
    <2> QED  BY <1>1, <2>1, ElementOfSeq
  <1>3. m \in Nat /\ n \in Nat /\ m >= 1
    BY <1>1
  <1>4. /\ SubSeq(r, m, n) \in Seq(Characters)
        /\ Len(SubSeq(r, m, n)) = IF m <= n THEN n - m + 1 ELSE 0
        /\ \A k \in 1 .. n - m + 1 : SubSeq(r, m, n)[k] = r[m + k - 1]
    BY <1>2, <1>3, SubSeqProperties
  <1>5. PICK t \in Seq(Characters) : t = SubSeq(r, m, n)
    BY <1>4
  <1>6. m > n => t = <<>>
    <2>1. m > n => Len(t) = 0
      BY <1>3, <1>4, <1>5
    <2> QED  BY <2>1, EmptySeq
  <1>7. \A k \in m .. n : /\ (k - m) + 1 \in 1 .. n - m + 1
                          /\ m + ((k - m) + 1) - 1 = k
    BY <1>3
  <1>8. m <= n => \A k \in m .. n : (k - m) + 1 \in 1 .. Len(t) /\ t[(k - m) + 1] = r[k]
    BY <1>4, <1>5, <1>7
  <1> QED  BY <1>5, <1>6, <1>8

(* Digits are a sequence of digits, ...                                    *)
LEMMA DigitsSeq ==
    ASSUME NEW t \in Seq(Characters), AreDigits(t)
    PROVE  t \in Seq(Digits)
  <1>1. PICK n \in Nat : n = Len(t) /\ DOMAIN t = 1 .. n
    BY LenProperties
  <1>2. \A k \in 1 .. n : t[k] \in Digits
    BY <1>1 DEF AreDigits
  <1>3. t = [k \in 1 .. n |-> t[k]]
    BY <1>1
  <1> QED  BY <1>1, <1>2, <1>3

(* ... and a numeral is one that has a first.                              *)
LEMMA NumeralSeq ==
    ASSUME NEW t \in Seq(Characters), IsNumeral(t)
    PROVE  t \in Seq(Digits) /\ t # <<>> /\ t[1] \in Digits
  <1>1. PICK n \in Nat : n = Len(t) /\ DOMAIN t = 1 .. n
    BY LenProperties
  <1>2. 1 \in 1 .. n
    BY <1>1, EmptySeq DEF IsNumeral
  <1> QED  BY <1>1, <1>2, DigitsSeq DEF IsNumeral, AreDigits

(* Its comma is the first one, and its terms are digits.                   *)
LEMMA CommaOfSum ==
    ASSUME CalcInv, NEW i \in Nat, IsSum(i)
    PROVE  /\ 3 <= i /\ i + 3 <= Len(line.rest) + 3 /\ Len(line.rest) + 3 < DataSize
           /\ Len(line.rest) \in Nat
           /\ \A k \in 1 .. Len(line.rest) : line.rest[k] = Comma => i <= k
           /\ First(i) \in Seq(Digits) /\ First(i) # <<>> /\ First(i)[1] \in Digits
           /\ Second(i) \in Seq(Digits)
  <1>1. PICK r \in Seq(Characters), n \in Nat : r = line.rest /\ n = Len(r) /\ n + 3 < DataSize
    BY LineFits DEF CalcInv
  <1>2. i \in 1 .. n /\ r[1] # Comma /\ r[i] = Comma
    BY <1>1 DEF IsSum
  <1>3. PICK f \in Seq(Characters) : f = SubSeq(r, 2, i - 1) /\ f = First(i)
    <2>1. 2 \in 1 .. n + 1 /\ i - 1 \in 0 .. n
      BY <1>2
    <2> QED  BY <1>1, <2>1, PartOfLine DEF First
  <1>4. PICK g \in Seq(Characters) : g = SubSeq(r, i + 1, n - 1) /\ g = Second(i)
    <2>1. i + 1 \in 1 .. n + 1 /\ n - 1 \in 0 .. n
      BY <1>2
    <2> QED  BY <1>1, <2>1, PartOfLine DEF Second
  <1>5. /\ f \in Seq(Digits) /\ f # <<>> /\ f[1] \in Digits
        /\ g \in Seq(Digits)
    BY <1>3, <1>4, NumeralSeq, DigitsSeq DEF IsSum
  <1>6. 2 <= i - 1
    <2>1. 2 \in 1 .. n + 1 /\ i - 1 \in 0 .. n
      BY <1>2
    <2>2. 2 > i - 1 => f = <<>>
      BY <1>1, <1>3, <2>1, PartOfLine
    <2> QED  BY <1>2, <1>5, <2>2
  <1>7. ASSUME NEW k \in 1 .. n, r[k] = Comma, k < i PROVE FALSE
    <2>1. k # 1
      BY <1>2, <1>7
    <2>2. k \in 2 .. i - 1
      BY <1>7, <2>1
    <2>3. 2 \in 1 .. n + 1 /\ i - 1 \in 0 .. n
      BY <1>2
    <2>4. (k - 2) + 1 \in 1 .. Len(f) /\ f[(k - 2) + 1] = r[k]
      BY <1>1, <1>3, <1>6, <2>2, <2>3, PartOfLine
    <2>5. f[(k - 2) + 1] \in Digits
      BY <1>5, <2>4, ElementOfSeq
    <2> QED  BY <1>7, <2>4, <2>5, CalcSizes DEF Comma, Digits
  <1>8. \A k \in 1 .. n : r[k] = Comma => i <= k
    BY <1>2, <1>7
  <1>9. 3 <= i /\ i + 3 <= n + 3
    BY <1>2, <1>6
  <1>10. /\ 3 <= i /\ i + 3 <= Len(line.rest) + 3 /\ Len(line.rest) + 3 < DataSize
         /\ Len(line.rest) \in Nat
    BY <1>1, <1>9
  <1>11. \A k \in 1 .. Len(line.rest) : line.rest[k] = Comma => i <= k
    BY <1>1, <1>8
  <1> QED  BY <1>3, <1>4, <1>5, <1>10, <1>11

(* No command is under way at the start.                                   *)
LEMMA CalcInitInv == CalcInit => CalcInv
  <1> SUFFICES ASSUME CalcInit PROVE CalcInv
    OBVIOUS
  <1>1. line = NoLine /\ behind = ByteSize /\ comma = 0
    BY DEF CalcInit
  <1>2. \A i \in Nat : ~IsSum(i)
    BY <1>1 DEF IsSum, NoLine, Operations
  <1> QED  BY <1>1, <1>2, CalcSizes DEF CalcInv

(* A step of a command that leaves the line alone.                         *)
LEMMA SumStays ==
    ASSUME CalcInv, UNCHANGED <<line, behind>>, comma' \in Nat, step' = "ready" => comma' = 0,
           \A i \in Nat : IsSum(i) => Progress(i)'
    PROVE  CalcInv'
  <1>1. \A i \in Nat : IsSum(i)' = IsSum(i)
    BY DEF IsSum, First, Second
  <1> QED  BY <1>1 DEF CalcInv

(* A command begins.                                                       *)
LEMMA CommandInv ==
    ASSUME CalcInv, NEW l \in Lines, Command(l)
    PROVE  CalcInv'
  <1>1. /\ line' = l /\ behind' \in DataSize .. ByteSize /\ comma' = 0
        /\ step' \in {"search", "printed"}
    BY DEF Command, CalcInv
  <1>2. ASSUME NEW i \in Nat, IsSum(i)' PROVE Progress(i)'
    <2>1. l.word \in Operations
      BY <1>1, <1>2 DEF IsSum
    <2>2. step' = "search"
      BY <2>1 DEF Command
    <2> QED  BY <1>1, <2>2 DEF Progress
  <1> QED  BY <1>1, <1>2 DEF CalcInv

(* The search stops at the first comma, before the index wraps.            *)
LEMMA SearchInv ==
    ASSUME CalcInv, Search
    PROVE  CalcInv'
  <1>1. /\ step = "search" /\ UNCHANGED <<line, behind, a, b, answer, clean>>
        /\ \/ IsComma(comma) /\ step' = "first" /\ comma' = comma
           \/ ~IsComma(comma) /\ step' = "search" /\ comma' = (comma + 1) % ByteSize
    BY DEF Search, Advanced
  <1>2. comma \in Nat /\ behind \in DataSize .. ByteSize
    BY DEF CalcInv
  <1>3. comma' \in Nat
    <2>1. (comma + 1) % ByteSize \in Nat
      <3>1. PICK d \in Nat \ {0}, m \in Nat : d = ByteSize /\ m = comma + 1
        BY <1>2, CalcSizes
      <3> QED  BY <3>1, Division
    <2> QED  BY <1>1, <1>2, <2>1
  <1>4. ASSUME NEW i \in Nat, IsSum(i) PROVE Progress(i)'
    <2>1. comma <= i + 2
      BY <1>1, <1>4 DEF CalcInv, Progress
    <2>2. PICK n \in Nat : n = Len(line.rest) /\ 3 <= i /\ i <= n /\ n + 3 < DataSize
      <3>1. /\ 3 <= i /\ i + 3 <= Len(line.rest) + 3 /\ Len(line.rest) + 3 < DataSize
            /\ Len(line.rest) \in Nat
        BY <1>4, CommaOfSum
      <3> QED  BY <3>1
    <2>3. \A k \in 1 .. n : line.rest[k] = Comma => i <= k
      BY <1>4, <2>2, CommaOfSum
    <2>4. DOMAIN line.rest = 1 .. n
      BY <2>2, LineFits, LenProperties DEF CalcInv
    <2>5. comma # behind
      BY <1>2, <2>1, <2>2, CalcSizes
    <2>6. CASE IsComma(comma)
      <3>1. comma - 2 \in 1 .. n /\ line.rest[comma - 2] = Comma
        BY <2>4, <2>5, <2>6 DEF IsComma
      <3>2. i <= comma - 2
        BY <2>3, <3>1
      <3>3. comma = i + 2
        BY <1>2, <2>1, <3>2
      <3>4. step' = "first" /\ comma' = i + 2
        BY <1>1, <2>6, <3>3
      <3> QED  BY <3>4 DEF Progress
    <2>7. CASE ~IsComma(comma)
      <3>1. comma # i + 2
        <4>1. i \in 1 .. n /\ line.rest[i] = Comma
          BY <1>4, <2>2 DEF IsSum
        <4>2. comma = i + 2 => comma - 2 = i
          BY <1>2
        <4> QED  BY <2>4, <2>7, <4>1, <4>2 DEF IsComma
      <3>2. comma + 1 <= i + 2 /\ comma + 1 < ByteSize
        BY <1>2, <2>1, <2>2, <3>1, CalcSizes
      <3>3. (comma + 1) % ByteSize = comma + 1
        <4>1. \A d \in Nat \ {0} : \A m \in Nat : m < d => m % d = m
          OBVIOUS
        <4> QED  BY <1>2, <3>2, <4>1, CalcSizes
      <3>4. step' = "search" /\ comma' = comma + 1
        BY <1>1, <2>7, <3>3
      <3> QED  BY <3>2, <3>4 DEF Progress
    <2> QED  BY <2>6, <2>7
  <1> QED  BY <1>1, <1>3, <1>4, SumStays

(* A term whose array ended in zeros is read as its value.                 *)
LEMMA TermValue ==
    ASSUME NEW t \in Seq(Digits), NEW v \in Read(t, TRUE)
    PROVE  v = NumberOf(t) % WordSize
  <1>1. t = <<>> \/ t[1] \in Digits
    <2>1. CASE t # <<>>
      <3>1. 1 \in 1 .. Len(t)
        BY <2>1, EmptySeq, LenProperties
      <3> QED  BY <3>1, ElementOfSeq
    <2> QED  BY <2>1
  <1>2. v = chartoint(t)
    BY <1>1 DEF Read
  <1> QED  BY <1>2, CharToInt

(* The first term is what is before the comma, ...                         *)
LEMMA TermOneInv ==
    ASSUME CalcInv, TermOne
    PROVE  CalcInv'
  <1>1. /\ step = "first" /\ UNCHANGED <<line, behind, comma, answer, b>>
        /\ step' \in {"lost", "second"}
    BY DEF TermOne, Term
  <1>2. ASSUME NEW i \in Nat, IsSum(i) PROVE Progress(i)'
    <2>1. comma = i + 2
      BY <1>1, <1>2 DEF CalcInv, Progress
    <2>2. PICK t \in Seq(Digits) : t = First(i) /\ t # <<>> /\ t[1] \in Digits
      BY <1>2, CommaOfSum
    <2>3. comma < DataSize
      <3>1. /\ i + 3 <= Len(line.rest) + 3 /\ Len(line.rest) + 3 < DataSize
            /\ Len(line.rest) \in Nat
        BY <1>2, CommaOfSum
      <3> QED  BY <2>1, <3>1, CalcSizes
    <2>4. Copied(4, comma) = t
      <3>1. 4 - 2 = 2 /\ comma - 3 = i - 1
        BY <2>1
      <3> QED  BY <2>2, <3>1 DEF Copied, First
    <2>5. Term(t, "first", "second", a)
      BY <2>3, <2>4 DEF TermOne
    <2>6. CASE step' = "lost"
      BY <2>6 DEF Progress
    <2>7. CASE step' # "lost"
      <3>1. PICK terminated \in BOOLEAN :
                step' = "second" /\ a' \in Read(t, terminated) /\ clean' = (clean /\ terminated)
        BY <2>5, <2>7 DEF Term
      <3>2. clean' => a' \in Read(t, TRUE)
        BY <3>1
      <3>3. clean' => a' = NumberOf(t) % WordSize
        BY <2>2, <3>2, TermValue
      <3>4. First(i)' = t
        BY <1>1, <2>2 DEF First
      <3> QED  BY <1>1, <2>1, <3>1, <3>3, <3>4 DEF Progress
    <2> QED  BY <2>6, <2>7
  <1> QED  BY <1>1, <1>2, SumStays DEF CalcInv

(* ... the second what is behind it, but the last character.               *)
LEMMA TermTwoInv ==
    ASSUME CalcInv, TermTwo
    PROVE  CalcInv'
  <1>1. /\ step = "second" /\ UNCHANGED <<line, behind, comma, answer, a>>
        /\ step' \in {"lost", "compute"}
    BY DEF TermTwo, Term
  <1>2. ASSUME NEW i \in Nat, IsSum(i) PROVE Progress(i)'
    <2>1. comma = i + 2 /\ (clean => a = NumberOf(First(i)) % WordSize)
      BY <1>1, <1>2 DEF CalcInv, Progress
    <2>2. PICK t \in Seq(Digits) : t = Second(i)
      BY <1>2, CommaOfSum
    <2>3. Copied(comma + 1, len) = t
      <3>1. PICK n \in Nat : n = Len(line.rest)
        BY <1>2, CommaOfSum
      <3>2. (comma + 1) - 2 = i + 1 /\ (n + 2) - 3 = n - 1
        BY <2>1
      <3> QED  BY <2>2, <3>1, <3>2 DEF Copied, Second, len
    <2>4. Term(t, "second", "compute", b)
      BY <2>3 DEF TermTwo
    <2>5. CASE step' = "lost"
      BY <2>5 DEF Progress
    <2>6. CASE step' # "lost"
      <3>1. PICK terminated \in BOOLEAN :
                step' = "compute" /\ b' \in Read(t, terminated) /\ clean' = (clean /\ terminated)
        BY <2>4, <2>6 DEF Term
      <3>2. clean' => b' \in Read(t, TRUE) /\ clean
        BY <3>1
      <3>3. clean' => b' = NumberOf(t) % WordSize
        BY <2>2, <3>2, TermValue
      <3>4. Second(i)' = t /\ First(i)' = First(i)
        BY <1>1, <2>2 DEF First, Second
      <3> QED  BY <1>1, <2>1, <3>1, <3>2, <3>3, <3>4 DEF Progress
    <2> QED  BY <2>5, <2>6
  <1> QED  BY <1>1, <1>2, SumStays DEF CalcInv

(* The answer is printed.                                                  *)
LEMMA OperateInv ==
    ASSUME CalcInv, Operate
    PROVE  CalcInv'
  <1>1. /\ step = "compute" /\ ~Faults /\ step' = "printed"
        /\ UNCHANGED <<line, behind, comma, a, b>> /\ answer' = inttostring(Result)
        /\ clean' => clean
    BY DEF Operate
  <1>2. ASSUME NEW i \in Nat, IsSum(i) PROVE Progress(i)'
    <2>1. Progress(i)
      BY <1>2 DEF CalcInv
    <2>2. First(i)' = First(i) /\ Second(i)' = Second(i) /\ Result' = Result
      BY <1>1 DEF First, Second, Result
    <2>3. ~(line.word = "div" /\ b = 0)
      BY <1>1 DEF Faults
    <2> QED  BY <1>1, <2>1, <2>2, <2>3 DEF Progress
  <1> QED  BY <1>1, <1>2, SumStays DEF CalcInv

(* The next command finds nothing of the last.                             *)
LEMMA ReturnInv ==
    ASSUME CalcInv, Return
    PROVE  CalcInv'
  <1>1. line' = NoLine /\ behind' = ByteSize /\ comma' = 0
    BY DEF Return
  <1>2. \A i \in Nat : ~IsSum(i)'
    BY <1>1 DEF IsSum, NoLine, Operations
  <1> QED  BY <1>1, <1>2, CalcSizes DEF CalcInv

(* Each step keeps the invariant.                                          *)
LEMMA CalcNextInv == CalcInv /\ [CalcNext]_calcVars => CalcInv'
  <1> SUFFICES ASSUME CalcInv, [CalcNext]_calcVars PROVE CalcInv'
    OBVIOUS
  <1>1. CASE UNCHANGED calcVars
    <2>1. UNCHANGED <<line, behind, step, comma, a, b, answer, clean>>
      BY <1>1 DEF calcVars
    <2>2. \A i \in Nat : Progress(i)' = Progress(i)
      BY <2>1 DEF Progress, First, Second, Result
    <2> QED  BY <2>1, <2>2, SumStays DEF CalcInv
  <1> QED
    BY <1>1, CommandInv, SearchInv, TermOneInv, TermTwoInv, OperateInv, ReturnInv
    DEF CalcNext, Calculate, DivideError, Undefined

(* The operations of the code are those on numbers modulo the word.        *)
LEMMA ResultIs ==
    ASSUME line.word \in Operations, a \in Words, b \in Words, ~(line.word = "div" /\ b = 0)
    PROVE  Result \in Words /\ IsResult(line.word, a, b, Result)
  <1>1. PICK w \in Nat \ {0}, m \in Nat, h \in Nat :
            w = WordSize /\ m = a /\ h = b /\ m < w /\ h < w
    BY CalcSizes DEF Words
  <1>2. \A z \in Int : z % w \in 0 .. w - 1
    OBVIOUS
  <1>3. CASE line.word = "add"
    <2>1. Result = (m + h) % w
      BY <1>1, <1>3 DEF Result
    <2> QED  BY <1>1, <1>2, <1>3, <2>1 DEF IsResult, Words
  <1>4. CASE line.word = "sub"
    <2>1. Result = (m - h) % w
      BY <1>1, <1>4 DEF Result
    <2>2. (((m - h) % w) + h) % w = m
      <3>1. \A z \in Nat : z < w => z % w = z /\ (z + w) % w = z
        <4> TAKE z \in Nat
        <4> HAVE z < w
        <4>1. z % w = z
          OBVIOUS
        <4>2. (w * 1 + z) % w = z % w
          BY Multiples
        <4>3. w * 1 + z = z + w
          OBVIOUS
        <4> QED  BY <4>1, <4>2, <4>3
      <3>2. CASE h <= m
        <4>1. m - h \in Nat /\ m - h < w /\ (m - h) + h = m
          BY <1>1, <3>2
        <4> QED  BY <1>1, <3>1, <4>1
      <3>3. CASE m < h
        <4>1. (m - h) % w = (m - h) + w
          BY <1>1, <3>3
        <4>2. ((m - h) + w) + h = m + w
          OBVIOUS
        <4> QED  BY <1>1, <3>1, <4>1, <4>2
      <3> QED  BY <3>2, <3>3
    <2>3. m - h \in Int
      OBVIOUS
    <2> QED  BY <1>1, <1>2, <1>4, <2>1, <2>2, <2>3 DEF IsResult, Words
  <1>5. CASE line.word = "mul"
    <2>1. Result = (m * h) % w /\ m * h \in Int
      BY <1>1, <1>5 DEF Result
    <2> QED  BY <1>1, <1>2, <1>5, <2>1 DEF IsResult, Words
  <1>6. CASE line.word = "div"
    <2>1. h \in Nat \ {0}
      BY <1>1, <1>6
    <2>2. PICK q \in Nat, r \in 0 .. h - 1 : q = m \div h /\ m = h * q + r
      BY <2>1, Division
    <2>3. Result = q
      BY <1>1, <1>6, <2>2 DEF Result
    <2>4. q * h = h * q /\ (q + 1) * h = h * q + h
      OBVIOUS
    <2>5. q * h <= m /\ m < (q + 1) * h
      <3>1. PICK p \in Nat : p = h * q
        OBVIOUS
      <3> QED  BY <2>1, <2>2, <2>4, <3>1
    <2>6. q <= m
      <3>1. PICK e \in Nat : h = 1 + e
        <4>1. h - 1 \in Nat /\ h = 1 + (h - 1)
          BY <2>1
        <4> QED  BY <4>1
      <3>2. q * h = q + q * e
        BY <3>1
      <3>3. q * e \in Nat
        OBVIOUS
      <3> QED  BY <2>5, <3>2, <3>3
    <2> QED  BY <1>1, <1>6, <2>3, <2>5, <2>6 DEF IsResult, Words
  <1> QED  BY <1>3, <1>4, <1>5, <1>6 DEF Operations

(* Nothing is wrong with the answer but that the second term lacks its     *)
(* last character and that the digits are printed backwards, none for 0:   *)
(* for any base, sizes of arrays and bytes, and commands, while no array   *)
(* that is not terminated is read on (kernel.cpp:188-510).                 *)
THEOREM CalculatorHasNoOtherFault == CalcSpec => []NoOtherFault
  <1>1. CalcInv => NoOtherFault
    <2> SUFFICES ASSUME CalcInv, step = "printed", clean, line.word \in Operations,
                        NEW i \in DOMAIN line.rest,
                        line.rest[1] # Comma, line.rest[i] = Comma,
                        IsNumeral(First(i)), AreDigits(Second(i))
                 PROVE  /\ answer \in Seq(Digits) /\ NumberOf(Backwards(answer)) \in Words
                        /\ IsResult(line.word, NumberOf(First(i)) % WordSize,
                                    NumberOf(Second(i)) % WordSize, NumberOf(Backwards(answer)))
                        /\ answer # <<>> => answer[Len(answer)] # 0
      BY DEF NoOtherFault, First, Second
    <2>1. i \in Nat /\ IsSum(i)
      <3>1. i \in 1 .. Len(line.rest) /\ Len(line.rest) \in Nat
        BY LineFits, LenProperties DEF CalcInv
      <3> QED  BY <3>1 DEF IsSum
    <2>2. /\ a = NumberOf(First(i)) % WordSize /\ b = NumberOf(Second(i)) % WordSize
          /\ answer = inttostring(Result) /\ ~(line.word = "div" /\ b = 0)
      BY <2>1 DEF CalcInv, Progress
    <2>3. a \in Words /\ b \in Words
      <3>1. NumberOf(First(i)) \in Nat /\ NumberOf(Second(i)) \in Nat
        BY <2>1, CommaOfSum, NumberIsNat
      <3>2. \A n \in Nat : n % WordSize \in Words
        BY CalcSizes, Division DEF Words
      <3> QED  BY <2>2, <3>1, <3>2
    <2>4. Result \in Words /\ IsResult(line.word, a, b, Result)
      BY <2>2, <2>3, ResultIs
    <2>5. /\ answer \in Seq(Digits) /\ NumberOf(Backwards(answer)) = Result
          /\ answer # <<>> => answer[Len(answer)] # 0
      BY <2>2, <2>4, IntToString
    <2> QED  BY <2>2, <2>4, <2>5
  <1>2. CalcInit => CalcInv
    BY CalcInitInv
  <1> QED  BY <1>1, <1>2, CalcNextInv, PTL DEF CalcSpec
=============================================================================
