--------------------------------- MODULE Vga ---------------------------------
(***************************************************************************)
(* The graphics of vga.cpp: SetMode, which kernelMain calls once, with     *)
(* interrupts disabled, and the pixels that FillRectangle and PutPixel     *)
(* paint.                                                                  *)
(*                                                                         *)
(* The card is external.  It ignores writes to the first eight registers   *)
(* of its cathode ray tube controller while bit 7 of the register 0x11 is  *)
(* set, and takes index and data of its attribute controller alternately   *)
(* on one port.  How the loader left both is open.  The table of a mode is *)
(* a constant: which bytes it holds is the card's affair.                  *)
(***************************************************************************)
EXTENDS Integers, Sequences

CONSTANTS Columns, Rows,  \* of the screen, 320 by 200
          Registers       \* the bytes of each group of registers, in order

Groups == {"misc", "sequencer", "crtc", "graphics", "attribute"}
Byte == 0 .. 255

ASSUME ScreenAssumption == Columns \in Nat \ {0} /\ Rows \in Nat \ {0}
ASSUME RegistersAssumption ==
    /\ Registers \in [Groups -> Seq(Byte)]
    /\ Len(Registers["crtc"]) > 17

VARIABLES registers,   \* the card's, by group
          expects,     \* what the attribute controller's port takes next
          setting      \* the group being written and the next index in it

vgaVars == <<registers, expects, setting>>

Order == <<"misc", "sequencer", "unlock", "crtc", "graphics", "attribute",
           "enable", "done">>

WithBit7(v) == IF v < 128 THEN v + 128 ELSE v
WithoutBit7(v) == v % 128

(* The bytes as the loops find them: two of them were changed in place.    *)
Wanted(group, index) ==
    LET v == Registers[group][index + 1]
    IN  IF group = "crtc" /\ index = 3 THEN WithBit7(v)
        ELSE IF group = "crtc" /\ index = 17 THEN WithoutBit7(v)
        ELSE v

(* The bytes that matter before: those that lock and unlock.               *)
VgaInit ==
    /\ \E third, eleventh \in {0, 128} :
          registers = [g \in Groups |-> [k \in 1 .. Len(Registers[g]) |->
              IF g = "crtc" /\ k = 4 THEN third
              ELSE IF g = "crtc" /\ k = 18 THEN eleventh ELSE 0]]
    /\ expects \in {"index", "data"}
    /\ setting = <<1, 0>>

Group == Order[setting[1]]
Index == setting[2]
IsSet == Group = "done"

-----------------------------------------------------------------------------
(* A data port's write at an index.                                        *)
Locked(rs, group, index) == group = "crtc" /\ index < 8 /\ rs["crtc"][18] >= 128
Ported(rs, group, index, v) ==
    IF Locked(rs, group, index) THEN rs
    ELSE [rs EXCEPT ![group][index + 1] = v]

NextIndex(group) ==
    IF Index + 1 < Len(Registers[group]) THEN <<setting[1], Index + 1>>
    ELSE <<setting[1] + 1, 0>>

(* The first byte, or a pass of a loop with a port of its own for indices. *)
WriteRegister ==
    /\ Group \in {"misc", "sequencer", "crtc", "graphics"}
    /\ registers' = Ported(registers, Group, Index, Wanted(Group, Index))
    /\ setting' = NextIndex(Group)
    /\ UNCHANGED expects

(* Mutant of Unlocked: the register 0x11 is written as it was.             *)
UnlockedNever(rs) == Ported(rs, "crtc", 3, WithBit7(rs["crtc"][4]))

(* Bit 7 of the registers 3 and 0x11.                                      *)
Unlocked(rs) ==
    LET first == Ported(rs, "crtc", 3, WithBit7(rs["crtc"][4]))
    IN  Ported(first, "crtc", 17, WithoutBit7(first["crtc"][18]))

Unlock ==
    /\ Group = "unlock"
    /\ registers' = Unlocked(registers)
    /\ setting' = <<setting[1] + 1, 0>>
    /\ UNCHANGED expects

(* After a read of the reset port an index is expected.                    *)
ResetPort(state) == "index"

(* A pass of the last loop: two writes to the one port.                    *)
WriteAttribute ==
    /\ Group = "attribute"
    /\ registers' = IF ResetPort(expects) = "index"
                    THEN Ported(registers, Group, Index, Wanted(Group, Index))
                    ELSE registers
    /\ expects' = ResetPort(expects)
    /\ setting' = NextIndex(Group)

(* The index 0x20 gives the palette back to the screen.                    *)
Enable ==
    /\ Group = "enable"
    /\ expects' = IF ResetPort(expects) = "index" THEN "data" ELSE "index"
    /\ setting' = <<setting[1] + 1, 0>>
    /\ UNCHANGED registers

SetMode == WriteRegister \/ Unlock \/ WriteAttribute \/ Enable

-----------------------------------------------------------------------------
(* The pixels that PutPixel does not pass over.                            *)
Pixels == (0 .. Columns - 1) \X (0 .. Rows - 1)

(* The places that a loop of FillRectangle visits.  It compares without a  *)
(* sign: a rectangle that begins before the screen and reaches it has none.*)
Visited(from, size) ==
    IF from < 0 /\ from + size >= 0 THEN {} ELSE from .. from + size - 1

FillRectangle(from, size) ==
    {p \in Pixels : /\ p[1] \in Visited(from[1], size[1])
                    /\ p[2] \in Visited(from[2], size[2])}

-----------------------------------------------------------------------------
(* Whatever state the loader left the card in, after SetMode every         *)
(* register holds its byte of the table and the palette is the screen's:   *)
(* the controller is unlocked in time and the attributes' port never takes *)
(* a byte for an index (vga.cpp:30-76).                                    *)
ModeIsSet ==
    IsSet =>
        /\ \A g \in Groups : \A k \in 1 .. Len(Registers[g]) :
               registers[g][k] = Wanted(g, k - 1)
        /\ expects = "data"
=============================================================================
