--------------------------------- MODULE Gui ---------------------------------
(***************************************************************************)
(* The desktop of a build with GRAPHICSMODE: widget.cpp, window.cpp and    *)
(* desktop.cpp on the screen of vga.cpp.  kernelMain sets the mode, adds   *)
(* the windows and activates interrupts; then it draws for ever, while the *)
(* mouse's and the keyboard's interrupts call the desktop.                 *)
(*                                                                         *)
(* The tree is the desktop, its windows, and plain widgets in a window,    *)
(* which kernelMain has none of and the classes allow.  A window's place   *)
(* is relative to the desktop, which lies at 0, a widget's to its window.  *)
(* An event is handled in one step, as interrupts are disabled meanwhile;  *)
(* drawing changes no state but the screen's, which is read off the places.*)
(***************************************************************************)
EXTENDS Vga

CONSTANTS Windows,      \* in the order of their AddChild
          Inner,        \* the widgets of each window, in order
          Box,          \* of each window and widget: x, y, w, h
          MaxChildren,  \* of a composite widget, 100
          Buttons,      \* of the mouse, 1 to 3
          MouseOffsets, \* that a packet can hold, as handed to the desktop
          None

InnerWidgets == UNION {{Inner[k][n] : n \in 1 .. Len(Inner[k])} :
                           k \in 1 .. Len(Windows)}

ASSUME WindowsAssumption ==
    /\ Len(Windows) \in Nat
    /\ \A k, n \in 1 .. Len(Windows) : Windows[k] = Windows[n] => k = n
    /\ \A k \in 1 .. Len(Windows) : Inner[k] \in Seq(InnerWidgets)
ASSUME BoxAssumption ==
    \A widget \in {Windows[k] : k \in 1 .. Len(Windows)} \union InnerWidgets :
        Box[widget] \in [x : Int, y : Int, w : Nat, h : Nat]
(* A widget lies in its window: Draw does not clip what is outside.        *)
ASSUME InsideAssumption ==
    \A k \in 1 .. Len(Windows) : \A n \in 1 .. Len(Inner[k]) :
        LET window == Box[Windows[k]]
            inner == Box[Inner[k][n]]
        IN  /\ inner.x >= 0 /\ inner.x + inner.w <= window.w
            /\ inner.y >= 0 /\ inner.y + inner.h <= window.h
ASSUME NoneAssumption == None \notin Nat
ASSUME ButtonsAssumption == 1 \in Buttons
ASSUME MouseOffsetsAssumption == MouseOffsets \subseteq Int
ASSUME MaxChildrenAssumption == MaxChildren \in Nat

VARIABLES children,  \* how many windows the desktop has
          active,    \* interrupts are
          place,     \* x and y of each window
          Dragging,  \* of each window
          focussed,  \* focussedChild of the desktop and of each window
          pointer,   \* MouseX and MouseY
          held,      \* the buttons that the driver reported down
          clicked    \* history: the widget that was clicked last

guiVars == <<vgaVars, children, active, place, Dragging, focussed, pointer,
             held, clicked>>

Desktop == 0
Numbers == 1 .. Len(Windows)

GuiInit ==
    /\ VgaInit
    /\ children = 0 /\ active = FALSE
    /\ place = [k \in Numbers |-> <<Box[Windows[k]].x, Box[Windows[k]].y>>]
    /\ Dragging = [k \in Numbers |-> FALSE]
    /\ focussed = [k \in Numbers \union {Desktop} |-> None]
    /\ pointer = <<Columns \div 2, Rows \div 2>>
    /\ held = {}
    /\ clicked = None

Plus(p, d) == <<p[1] + d[1], p[2] + d[2]>>
Minus(p, d) == <<p[1] - d[1], p[2] - d[2]>>

ContainsCoordinate(origin, size, p) ==
    /\ origin[1] <= p[1] /\ p[1] < origin[1] + size[1]
    /\ origin[2] <= p[2] /\ p[2] < origin[2] + size[2]

Size(widget) == <<Box[widget].w, Box[widget].h>>
Origin(widget) == <<Box[widget].x, Box[widget].y>>

InWindow(places, k, p) == ContainsCoordinate(places[k], Size(Windows[k]), p)

(* The first child that an event at p goes to, or 0.                       *)
FirstAt(places, p) ==
    IF \E k \in 1 .. children : InWindow(places, k, p)
    THEN CHOOSE k \in 1 .. children :
             /\ InWindow(places, k, p)
             /\ \A n \in 1 .. k - 1 : ~InWindow(places, n, p)
    ELSE 0

InnerContains(k, n, p) ==
    ContainsCoordinate(Origin(Inner[k][n]), Size(Inner[k][n]), Minus(p, place[k]))

(* The widget of a window that a click at p goes to, or None.              *)
InnerAt(k, p) ==
    IF \E n \in 1 .. Len(Inner[k]) : InnerContains(k, n, p)
    THEN Inner[k][CHOOSE n \in 1 .. Len(Inner[k]) :
                      /\ InnerContains(k, n, p)
                      /\ \A m \in 1 .. n - 1 : ~InnerContains(k, m, p)]
    ELSE None

-----------------------------------------------------------------------------
BootMode ==
    /\ SetMode
    /\ UNCHANGED <<children, active, place, Dragging, focussed, pointer, held,
                   clicked>>

(* desktop.AddChild of the next window.                                    *)
AddChild ==
    /\ IsSet /\ ~active /\ children < Len(Windows)
    /\ children < MaxChildren
    /\ children' = children + 1
    /\ UNCHANGED <<vgaVars, active, place, Dragging, focussed, pointer, held,
                   clicked>>

(* All windows are added that find room.                                   *)
ActivateInterrupts ==
    /\ IsSet /\ ~active
    /\ children = Len(Windows) \/ children = MaxChildren
    /\ active' = TRUE
    /\ UNCHANGED <<vgaVars, children, place, Dragging, focussed, pointer, held,
                   clicked>>

(* Mutant of GetFocus: the desktop is not told.                            *)
GetFocusOfWindow(k, widget) == [focussed EXCEPT ![k] = widget]

(* A widget, its window, and the desktop.                                  *)
GetFocus(k, widget) == [focussed EXCEPT ![k] = widget, ![Desktop] = k]

(* Desktop, Window and CompositeWidget, down to the widget's OnMouseDown.  *)
ButtonDown(button) ==
    /\ active /\ button \notin held
    /\ held' = held \union {button}
    /\ LET k == FirstAt(place, pointer)
           widget == IF k = 0 THEN None ELSE InnerAt(k, pointer)
       IN  /\ Dragging' = IF k = 0 THEN Dragging
                          ELSE [Dragging EXCEPT ![k] = (button = 1)]
           /\ focussed' = IF widget = None THEN focussed ELSE GetFocus(k, widget)
           /\ clicked' = IF widget = None THEN clicked ELSE widget
    /\ UNCHANGED <<vgaVars, children, active, place, pointer>>

(* Mutant of Released: the window that is dragged is not told.             *)
ReleasedElsewhere(k) == Dragging

(* The window under the pointer is no longer dragged; another still is.    *)
Released(k) == IF k = 0 THEN Dragging ELSE [Dragging EXCEPT ![k] = FALSE]

ButtonUp(button) ==
    /\ active /\ button \in held
    /\ held' = held \ {button}
    /\ Dragging' = Released(FirstAt(place, pointer))
    /\ UNCHANGED <<vgaVars, children, active, place, focussed, pointer, clicked>>

(* Division by four, towards zero.                                         *)
Quarter(v) == IF v >= 0 THEN v \div 4 ELSE -((-v) \div 4)

Within(v, size) == IF v < 0 THEN 0 ELSE IF v >= size THEN size - 1 ELSE v

(* A window's OnMouseMove.                                                 *)
Dragged(places, k, d) ==
    IF k = 0 \/ ~Dragging[k] THEN places
    ELSE [places EXCEPT ![k] = Plus(@, d)]

(* Mutant of MovedPlaces: the second loop forgets whom the first told.     *)
MovedPlacesTwice(old, new) ==
    LET places == Dragged(place, FirstAt(place, old), Minus(new, old))
    IN  Dragged(places, FirstAt(places, new), Minus(new, old))

(* CompositeWidget's two loops: the child under the old place, then the    *)
(* one that is under the new one by now.                                   *)
MovedPlaces(old, new) ==
    LET first == FirstAt(place, old)
        places == Dragged(place, first, Minus(new, old))
        second == FirstAt(places, new)
    IN  IF second = first THEN places ELSE Dragged(places, second, Minus(new, old))

MovePointer(xoffset, yoffset) ==
    /\ active
    /\ pointer' = <<Within(pointer[1] + Quarter(xoffset), Columns),
                    Within(pointer[2] + Quarter(yoffset), Rows)>>
    /\ place' = MovedPlaces(pointer, pointer')
    /\ UNCHANGED <<vgaVars, children, active, Dragging, focussed, held, clicked>>

GuiNext ==
    \/ BootMode \/ AddChild \/ ActivateInterrupts
    \/ \E button \in Buttons : ButtonDown(button) \/ ButtonUp(button)
    \/ \E xoffset, yoffset \in MouseOffsets : MovePointer(xoffset, yoffset)

GuiSpec == GuiInit /\ [][GuiNext]_guiVars

-----------------------------------------------------------------------------
(* What Draw paints: of window k, the rectangle n of a widget, 0 its own.  *)
Painted(k, n) ==
    IF n = 0 THEN FillRectangle(place[k], Size(Windows[k]))
    ELSE FillRectangle(Plus(place[k], Origin(Inner[k][n])), Size(Inner[k][n]))

(* Mutant of Over: the desktop draws its first child first.                *)
OverReversed(k, n, l, m) == k > l \/ (k = l /\ n > 0 /\ (m = 0 \/ n < m))

(* A composite draws itself, then its children from the last to the first: *)
(* the rectangle n of window k comes after m of l.                         *)
Over(k, n, l, m) == k < l \/ (k = l /\ n > 0 /\ (m = 0 \/ n < m))

(* A pixel shows this rectangle, or the pointer's cross.                   *)
Shows(p, k, n) ==
    /\ p \in Painted(k, n)
    /\ \A l \in 1 .. children : \A m \in 0 .. Len(Inner[l]) :
           Over(l, m, k, n) => p \notin Painted(l, m)

(* Where OnKeyDown ends, handed on by the desktop and by its window.       *)
OnKeyDown ==
    IF focussed[Desktop] = None THEN None ELSE focussed[focussed[Desktop]]

-----------------------------------------------------------------------------
(* What the user sees is what a click reaches, however windows were moved  *)
(* over each other: the order of drawing is the reverse of the order of    *)
(* the search, and both add the same places.  It holds while no window has *)
(* a negative place: such a window is hit and not shown, since             *)
(* FillRectangle compares without a sign (widget.cpp:106-122, vga.cpp:154).*)
ShownIsHit ==
    active /\ (\A k \in 1 .. children : place[k][1] >= 0 /\ place[k][2] >= 0) =>
        \A p \in Pixels :
            LET k == FirstAt(place, p)
            IN  IF k = 0
                THEN \A l \in 1 .. children : \A m \in 0 .. Len(Inner[l]) :
                         p \notin Painted(l, m)
                ELSE \E n \in 0 .. Len(Inner[k]) :
                         /\ Shows(p, k, n)
                         /\ InnerAt(k, p) = IF n = 0 THEN None ELSE Inner[k][n]

(* A window moves by as much as the pointer did or stays: no movement is   *)
(* handed to it twice, although it is searched for at the old place and,   *)
(* after a window has moved, at the new one (widget.cpp:134-152).          *)
MovesOnce ==
    [][\A k \in Numbers :
           place'[k] # place[k] =>
               Minus(place'[k], place[k]) = Minus(pointer', pointer)]_guiVars

(* The window in front follows the pointer only while the first button is  *)
(* down and the pointer in it.  A window behind another may go on: it is   *)
(* not told of a button that is released over one in front (window.cpp:27).*)
FrontLetsGo ==
    children > 0 /\ Dragging[1] => 1 \in held /\ InWindow(place, 1, pointer)

(* Keys go to the widget that was clicked last, whatever windows were      *)
(* clicked beside their widgets, moved or covered since: both levels of    *)
(* focus agree (widget.cpp:90-95, 155-159).                                *)
KeysFollowClick == OnKeyDown = clicked
=============================================================================
