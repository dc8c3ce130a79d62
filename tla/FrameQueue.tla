----------------------------- MODULE FrameQueue -----------------------------
(***************************************************************************)
(* What one direction of a network card promises: frames leave in the      *)
(* order they were put in, each once, and as they were put in unless they  *)
(* shared memory with another.  The promise ends when a caller puts a      *)
(* frame into a full queue, or while another caller is entering.           *)
(***************************************************************************)
EXTENDS Sequences, Naturals

CONSTANTS Items,      \* frames, each with a field "intact"
          Nothing, Capacity

VARIABLES queue,      \* the frames on their way
          last,       \* the last frame that left, Nothing at first
          entering,   \* a caller is between asking for a place and having it
          crowded,    \* two frames share memory: given by the buffers
          broken      \* the callers did not keep to the rules

fifoVars == <<queue, last, entering, crowded, broken>>

Init ==
    /\ queue = <<>> /\ last = Nothing
    /\ entering = FALSE /\ crowded = FALSE /\ broken = FALSE

(* While frames share memory, any of them may lose what it held.           *)
MayBecome(q, r) ==
    /\ Len(r) = Len(q)
    /\ \A k \in 1 .. Len(q) :
          r[k] = q[k] \/ (crowded' /\ r[k] = [q[k] EXCEPT !.intact = FALSE])

Enter ==
    /\ ~entering
    /\ entering' = TRUE
    /\ UNCHANGED <<queue, last, broken>>

Put(f) ==
    /\ Len(queue) < Capacity
    /\ MayBecome(Append(queue, f), queue')
    /\ entering' = FALSE
    /\ UNCHANGED <<last, broken>>

Take ==
    /\ queue # <<>>
    /\ last' = Head(queue)
    /\ queue' = Tail(queue)
    /\ UNCHANGED <<entering, broken>>

Mix == MayBecome(queue, queue') /\ UNCHANGED <<last, entering, broken>>

Break == (entering \/ Len(queue) = Capacity) /\ broken'

Next ==
    IF broken THEN broken'
    ELSE Enter \/ Take \/ Mix \/ Break \/ \E f \in Items : Put(f)

Spec == Init /\ [][Next]_fifoVars
=============================================================================
