---------------------------- MODULE MCEtherCard ----------------------------
(* The rings, of two descriptors.  Frame f takes one line, g and d two.    *)
(* The buffers for sending begin a line apart, so that only an f before    *)
(* another frame does not overlap it; those for receiving begin at the     *)
(* same line.  Receive changes nothing that it reads of the other ring:    *)
(* it is looked at alone, with every frame, or with everything that sends, *)
(* when only f arrives, and one at a time while a thread sends.  Send      *)
(* promises nothing once it was overrun.                                   *)
EXTENDS EtherCard

CONSTANTS f, g, d

VARIABLE part      \* which of the two is looked at

vars == <<cardVars, part>>

MCSize == [frame \in {f, g, d} |-> IF frame = f THEN 1 ELSE 2]

Init == CardInit /\ part \in {"sending", "receiving"}

FewArrive ==
    \A i, j \in Arrived : recvRing[i].frame = f /\ (i = j \/ thread = Idle)

Sending == part = "sending" /\ ~overrun /\ CardNext /\ FewArrive' /\ UNCHANGED part
Receiving ==
    /\ part = "receiving"
    /\ \/ ReceiveFrame \/ HandlerWrites \/ GiveBack \/ Skip \/ CardReceive
       \/ \E frame \in Frames \union Damaged : CardBegins(frame)
    /\ UNCHANGED part
Overrun == overrun /\ UNCHANGED vars

(* The fairness of EtherCard.                                              *)
InSending(A) == part = "sending" /\ ~overrun /\ A /\ UNCHANGED part

Spec ==
    /\ Init /\ [][Sending \/ Receiving \/ Overrun]_vars
    /\ WF_vars(InSending(CardTransmit))
    /\ SF_vars(InSending(SendStore))
    /\ SF_vars(InSending(SendCopy))
    /\ SF_vars(InSending(SendGive))
=============================================================================
