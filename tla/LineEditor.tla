----------------------------- MODULE LineEditor -----------------------------
(***************************************************************************)
(* The input line of the shell, class PrintfKeyboardEventHandler of        *)
(* kernel.cpp: OnKeyDown, which the keyboard's interrupt calls.            *)
(*                                                                         *)
(* The handler's members input, data, i and j follow each other in memory  *)
(* and no index is checked, so the object is modelled as its bytes.  What  *)
(* lies behind it belongs to others: a write there is lost to this module, *)
(* a read gives any byte.  A line that ends is copied, executed and        *)
(* cleared byte by byte, with interrupts disabled.  processdata, the       *)
(* module Calculator, only reads data: it returns, or it does not.         *)
(***************************************************************************)
EXTENDS Integers, Sequences

CONSTANTS Length,    \* of input and of data, 100 in the code
          ByteMod,   \* values of a byte, 256
          Chars,     \* codes of the characters that keys type
          Hanging    \* commands from which processdata does not return

ASSUME LengthAssumption == Length \in Nat \ {0}
ASSUME ByteModAssumption == ByteMod \in Nat /\ 2 * Length + 2 <= ByteMod
ASSUME CharsAssumption == Chars \subseteq 1 .. 2 * Length - 1
ASSUME HangingAssumption == Hanging \subseteq Seq(Chars)

VARIABLES memory,    \* the object's bytes, from input[0] on
          phase,     \* "idle", or how far the end of a line has got
          typed,     \* history: the characters of the line that stand
          orderly,   \* history: no backspace came on an empty line
          overrun    \* history: a line was too long for the arrays

lineVars == <<memory, phase, typed, orderly, overrun>>

Bytes == 0 .. ByteMod - 1
Data == Length               \* where data begins
I == 2 * Length
J == 2 * Length + 1
Object == 0 .. J

i == memory[I]
j == memory[J]

(* Only i and j are initialised; the stack below them is taken to be zero. *)
LineInit ==
    /\ memory = [a \in Object |-> 0]
    /\ phase = "idle"
    /\ typed = <<>>
    /\ orderly = TRUE
    /\ overrun = FALSE

(* "input[k] = v", where input[k] may be any member, or none.              *)
Stored(m, k, v) == IF k \in Object THEN [m EXCEPT ![k] = v] ELSE m

(* What input[k] may be.                                                   *)
Loaded(k) == IF k \in Object THEN {memory[k]} ELSE Bytes

(* Mutant of Incremented: the loops stay where they are.                   *)
IncrementedNotJ(m, k) == IF k = J THEN m ELSE [m EXCEPT ![k] = (@ + 1) % ByteMod]

(* A member counted up, read after the stores before it.                   *)
Incremented(m, k) == [m EXCEPT ![k] = (@ + 1) % ByteMod]

-----------------------------------------------------------------------------
(* A character; one too many overwrites i.                                 *)
TypeChar(c) ==
    /\ phase = "idle"
    /\ memory' = Incremented(Stored(memory, i, c), I)
    /\ overrun' = (overrun \/ Len(typed) = I)
    /\ typed' = IF overrun' THEN typed ELSE Append(typed, c)
    /\ UNCHANGED <<phase, orderly>>

(* i-- and the end of the string at its new value.                         *)
Retreated ==
    LET k == (i + ByteMod - 1) % ByteMod
    IN  Stored([memory EXCEPT ![I] = k], k, 0)

Backspace ==
    /\ phase = "idle"
    /\ memory' = Retreated
    /\ typed' = IF typed = <<>> \/ overrun THEN typed
                ELSE SubSeq(typed, 1, Len(typed) - 1)
    /\ orderly' = (orderly /\ typed # <<>>)
    /\ UNCHANGED <<phase, overrun>>

(* Enter, up to the first look at input[j] in the loop that copies.        *)
Enter ==
    /\ phase = "idle"
    /\ memory' = [Stored(memory, i, 0) EXCEPT ![J] = 0]
    /\ phase' = "copy"
    /\ overrun' = (overrun \/ Len(typed) >= Length)
    /\ UNCHANGED <<typed, orderly>>

Copy ==
    /\ phase = "copy"
    /\ \E v \in Loaded(j) \ {0} :
          memory' = Incremented(Stored(memory, Data + j, v), J)
    /\ UNCHANGED <<phase, typed, orderly, overrun>>

CopyEnds ==
    /\ phase = "copy"
    /\ 0 \in Loaded(j)
    /\ phase' = "process"
    /\ UNCHANGED <<memory, typed, orderly, overrun>>

(* The string that data holds.                                             *)
DataText ==
    LET size == CHOOSE k \in 0 .. J - Data + 1 :
                    /\ k = J - Data + 1 \/ memory[Data + k] = 0
                    /\ \A m \in 0 .. k - 1 : memory[Data + m] # 0
    IN  [k \in 1 .. size |-> memory[Data + k - 1]]

(* processdata(data), and j = 0 for the loop that clears.                  *)
Process ==
    /\ phase = "process"
    /\ DataText \notin Hanging
    /\ memory' = [memory EXCEPT ![J] = 0]
    /\ phase' = "clear"
    /\ UNCHANGED <<typed, orderly, overrun>>

(* Mutant of Blanked: data is not cleared.                                 *)
BlankedInputOnly == Stored(memory, j, 0)

(* Both strings at j; storing in input may change j itself.                *)
Blanked ==
    LET m == Stored(memory, j, 0) IN Stored(m, Data + m[J], 0)

Clear ==
    /\ phase = "clear"
    /\ Loaded(j) # {0}
    /\ memory' = Incremented(Blanked, J)
    /\ UNCHANGED <<phase, typed, orderly, overrun>>

ClearEnds ==
    /\ phase = "clear"
    /\ 0 \in Loaded(j)
    /\ memory' = [memory EXCEPT ![I] = 0]
    /\ phase' = "idle"
    /\ typed' = IF overrun THEN typed ELSE <<>>
    /\ orderly' = TRUE
    /\ UNCHANGED overrun

ProcessHangs == phase = "process" /\ DataText \in Hanging /\ UNCHANGED lineVars

EndOfLine == Copy \/ CopyEnds \/ Process \/ ProcessHangs \/ Clear \/ ClearEnds

LineNext ==
    \/ \E c \in Chars : TypeChar(c)
    \/ Backspace
    \/ Enter
    \/ EndOfLine

(* The interrupt handler goes on; nobody need type.                        *)
LineSpec == LineInit /\ [][LineNext]_lineVars /\ WF_lineVars(EndOfLine)

-----------------------------------------------------------------------------
(* The command that processdata gets is the line as the user left it, not  *)
(* a character of an earlier command behind it, although data has no end   *)
(* of string of its own, the line may have run into data before it was     *)
(* shortened again, and earlier lines may have had too many backspaces     *)
(* (kernel.cpp:143-166).                                                   *)
CommandIsTyped ==
    phase = "process" /\ orderly /\ ~overrun =>
        /\ \A k \in 1 .. Len(typed) : memory[Data + k - 1] = typed[k]
        /\ memory[Data + Len(typed)] = 0

(* Every line comes to its end and the interrupt returns, whatever number  *)
(* of backspaces it had, as long as none was too long and its command does *)
(* not hang (kernel.cpp:148-167).                                          *)
CommandsEnd ==
    [](phase # "idle" /\ ~overrun
       => <>(phase = "idle" \/ (phase = "process" /\ DataText \in Hanging)))
=============================================================================
