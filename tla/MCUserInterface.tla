-------------------------- MODULE MCUserInterface ---------------------------
(* The text screen, or the desktop of a build with GRAPHICSMODE: kernelMain *)
(* has one of the two.                                                     *)
(* A text screen of four by two, which the marker leaves at the end of     *)
(* each row and of the last, and mouse movements that wrap in eight values.*)
(* A desktop of four by two pixels with two windows that overlap, both     *)
(* with widgets, of which two overlap as well, and a third window that     *)
(* finds no room; the sizes of the card's groups of registers are the      *)
(* code's for the controller with the lock, and less for the others.       *)
EXTENDS Console, Gui

VARIABLE graphicsMode

vars == <<consoleVars, guiVars, graphicsMode>>

MCRegisters == [g \in Groups |->
    CASE g = "misc" -> <<99>>
      [] g = "crtc" -> [k \in 1 .. 25 |-> (k * 37) % 256]
      [] OTHER -> <<3, 130>>]

MCWindows == <<"front", "back", "refused">>
MCInner == << <<"ok">>, <<"upper", "lower">>, <<>> >>
MCBox == [front |-> [x |-> 0, y |-> 0, w |-> 2, h |-> 1],
          back |-> [x |-> 1, y |-> 0, w |-> 2, h |-> 2],
          refused |-> [x |-> 0, y |-> 0, w |-> 4, h |-> 2],
          ok |-> [x |-> 1, y |-> 0, w |-> 1, h |-> 1],
          upper |-> [x |-> 0, y |-> 0, w |-> 2, h |-> 1],
          lower |-> [x |-> 0, y |-> 0, w |-> 1, h |-> 2]]
MCMouseOffsets == {-4, -3, 4, 8}

(* The text screen does not look at the card's registers: one state of     *)
(* them is enough beside it.                                               *)
Init ==
    /\ ConsoleInit /\ GuiInit
    /\ graphicsMode \in BOOLEAN
    /\ ~graphicsMode =>
           expects = "index" /\ \A k \in {4, 18} : registers["crtc"][k] = 0

TextMode == ~graphicsMode /\ ConsoleNext /\ UNCHANGED <<guiVars, graphicsMode>>
GraphicsMode == graphicsMode /\ GuiNext /\ UNCHANGED <<consoleVars, graphicsMode>>

Next == TextMode \/ GraphicsMode

Spec == Init /\ [][Next]_vars
=============================================================================
