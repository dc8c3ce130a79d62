----------------------------- MODULE EtherCard -----------------------------
(***************************************************************************)
(* The driver of the network card, drivers/amd_am79c973.cpp: two rings of  *)
(* buffer descriptors that driver and card hand to each other by the bit   *)
(* OWN in a descriptor's flags.                                            *)
(*                                                                         *)
(* Send is called by a thread, which an interrupt may split, and by the    *)
(* handler of a received frame, inside the interrupt.  The card is         *)
(* external: it goes round each ring on its own and stops at a descriptor  *)
(* that it does not own.                                                   *)
(*                                                                         *)
(* The buffers of a ring are rows of 8 bytes of one array, of which each   *)
(* begins at the next multiple of 16: they overlap.  Memory is counted in  *)
(* lines of 16 bytes.  A descriptor is its owner, the frame that was put   *)
(* into its buffer, and whether that is intact: nothing else was written   *)
(* over it since.                                                          *)
(***************************************************************************)
EXTENDS Integers, Sequences, Kept

CONSTANTS Frames,     \* the frames the network layers send and receive
          Damaged,    \* frames that arrive with ERR, or not in one piece
          Nothing,    \* what a free buffer holds
          RingSize,   \* descriptors in a ring, 8 in the code
          SendStart, RecvStart,   \* addresses of sendBuffers and recvBuffers
          Size        \* lines that a frame takes

ASSUME NothingAssumption == Nothing \notin Frames \union Damaged
ASSUME DamagedAssumption == Frames \cap Damaged = {}
ASSUME RingAssumption == RingSize \in Nat \ {0}
ASSUME MemoryAssumption ==
    /\ SendStart \in Nat /\ RecvStart \in Nat
    /\ Size \in [Frames \union Damaged -> Nat \ {0}]

VARIABLES sendRing, currentSendBuffer,
          recvRing, currentRecvBuffer,
          cardSend, cardRecv,   \* the card's own place in each ring
          thread,               \* a thread's call of Send: see Idle
          handling,             \* Receive: "no", "handler" or "done"
          sent, received,       \* last frame on the wire, last frame handed up
          overrun               \* a frame was put where one still was

sendVars == <<sendRing, currentSendBuffer, cardSend, thread, sent, overrun>>
recvVars == <<recvRing, currentRecvBuffer, cardRecv, handling, received>>
cardVars == <<sendVars, recvVars>>

Slots == 0 .. RingSize - 1
Descriptor(contents) ==
    [owner : {"driver", "card"}, frame : contents \union {Nothing}, intact : BOOLEAN]

Free(side) == [owner |-> side, frame |-> Nothing, intact |-> TRUE]

After(i) == (i + 1) % RingSize

-----------------------------------------------------------------------------
(* The line at which buffer i of an array begins, and those that a frame   *)
(* in it takes.                                                            *)
Place(start, i) == (start + 8 * i + 15) \div 16
Lines(start, i, f) == Place(start, i) .. (Place(start, i) + Size[f]) - 1

(* Whether frame f in buffer i and frame g in buffer j have a line in      *)
(* common.                                                                 *)
Overlap(start, i, f, j, g) == Lines(start, i, f) \cap Lines(start, j, g) # {}

(* A ring after some lines were written.                                   *)
Overwritten(ring, start, lines) ==
    [i \in Slots |->
        IF ring[i].frame # Nothing /\ Lines(start, i, ring[i].frame) \cap lines # {}
        THEN [ring[i] EXCEPT !.intact = FALSE] ELSE ring[i]]

-----------------------------------------------------------------------------
(* No call: where it is, its descriptor, its frame, the lines still to be  *)
(* copied, and whether those that were are intact.                         *)
Idle == [at |-> "idle", slot |-> 0, frame |-> Nothing, left |-> 0, intact |-> TRUE]

CardInit ==
    /\ sendRing = [i \in Slots |-> Free("driver")]
    /\ recvRing = [i \in Slots |-> Free("card")]
    /\ currentSendBuffer = 0
    /\ currentRecvBuffer = 0
    /\ cardSend = 0
    /\ cardRecv = 0
    /\ thread = Idle
    /\ handling = "no"
    /\ sent = Nothing
    /\ received = Nothing
    /\ overrun = FALSE

-----------------------------------------------------------------------------
(* The place that the current descriptor stands for is taken: the card has *)
(* not sent its frame yet, or a thread is about to fill it.                *)
Taken(i) ==
    \/ sendRing[i].owner = "card"
    \/ thread.at \in {"store", "fill"} /\ thread.slot = i

Given(ring, i, f, intact) ==
    [ring EXCEPT ![i] = [owner |-> "card", frame |-> f, intact |-> intact]]
Freed(ring, i, side) == [ring EXCEPT ![i] = Free(side)]

(* Mutant of Claim: Send forgets to advance.                               *)
ClaimStays(i) == i

(* The value of currentSendBuffer after Send took descriptor i.            *)
Claim(i) == After(i)

(* "int sendDescriptor = currentSendBuffer" in a thread.                   *)
SendBegin(f) ==
    /\ handling = "no"
    /\ thread = Idle
    /\ thread' = [at |-> "store", slot |-> currentSendBuffer, frame |-> f,
                  left |-> Size[f], intact |-> TRUE]
    /\ UNCHANGED <<sendRing, currentSendBuffer, cardSend, sent, overrun, recvVars>>

(* The next statement adds one to the value already read, or to the        *)
(* variable read again: they differ when an interrupt has sent meanwhile.  *)
SendStore ==
    /\ handling = "no"
    /\ thread.at = "store"
    /\ \E i \in {thread.slot, currentSendBuffer} : currentSendBuffer' = Claim(i)
    /\ thread' = [thread EXCEPT !.at = "fill"]
    /\ overrun' = (overrun \/ sendRing[thread.slot].owner = "card")
    /\ UNCHANGED <<sendRing, cardSend, sent, recvVars>>

(* The copy, from the last line to the first.                              *)
SendCopy ==
    /\ handling = "no"
    /\ thread.at = "fill" /\ thread.left > 0
    /\ sendRing' = Overwritten(sendRing, SendStart,
                               {(Place(SendStart, thread.slot) + thread.left) - 1})
    /\ thread' = [thread EXCEPT !.left = @ - 1]
    /\ UNCHANGED <<currentSendBuffer, cardSend, sent, overrun, recvVars>>

(* The flags with OWN and the demand to transmit.                          *)
SendGive ==
    /\ handling = "no"
    /\ thread.at = "fill" /\ thread.left = 0
    /\ sendRing' = Given(sendRing, thread.slot, thread.frame, thread.intact)
    /\ thread' = Idle
    /\ UNCHANGED <<currentSendBuffer, cardSend, sent, overrun, recvVars>>

(* What a thread has copied so far.                                        *)
Copied ==
    IF thread.at # "fill" THEN {}
    ELSE Lines(SendStart, thread.slot, thread.frame) \
             Place(SendStart, thread.slot) .. (Place(SendStart, thread.slot) + thread.left) - 1

(* Send from its first statement to its last, with interrupts disabled.    *)
SendWhole(f, intact) ==
    LET lines == Lines(SendStart, currentSendBuffer, f) IN
    /\ sendRing' = Given(Overwritten(sendRing, SendStart, lines),
                         currentSendBuffer, f, intact)
    /\ thread' = [thread EXCEPT !.intact = @ /\ Copied \cap lines = {}]
    /\ currentSendBuffer' = Claim(currentSendBuffer)
    /\ overrun' = (overrun \/ Taken(currentSendBuffer))
    /\ UNCHANGED <<cardSend, sent>>

-----------------------------------------------------------------------------
(* A frame and whether it is intact.                                       *)
Item(d) == [frame |-> d.frame, intact |-> d.intact]

(* Mutant of Lent: the descriptor goes back before its frame is handled.   *)
LentNotAtAll(ring, i) == [ring EXCEPT ![i].owner = "card"]

(* The ring while the frame in descriptor i is handled.                    *)
Lent(ring, i) == ring

(* Mutant of Whole: the flags are not looked at.                           *)
WholeUnchecked(f) == TRUE

(* No ERR, and both STP and ENP: the frame is in this buffer, undamaged.   *)
Whole(f) == f \notin Damaged

(* Receive finds a whole frame and calls the handler.                      *)
ReceiveFrame ==
    /\ handling = "no"
    /\ recvRing[currentRecvBuffer].owner = "driver"
    /\ Whole(recvRing[currentRecvBuffer].frame)
    /\ received' = Item(recvRing[currentRecvBuffer])
    /\ recvRing' = Lent(recvRing, currentRecvBuffer)
    /\ handling' = "handler"
    /\ UNCHANGED <<sendVars, currentRecvBuffer, cardRecv>>

(* A layer above writes its answer over a part of the frame, and so over   *)
(* the others that lie there.                                              *)
HandlerWrites ==
    /\ handling = "handler"
    /\ \E part \in SUBSET Lines(RecvStart, currentRecvBuffer, received.frame) :
          recvRing' = [Overwritten(recvRing, RecvStart, part)
                          EXCEPT ![currentRecvBuffer] = recvRing[currentRecvBuffer]]
    /\ UNCHANGED <<sendVars, currentRecvBuffer, cardRecv, handling, received>>

(* A layer above sends while it handles the frame.                         *)
HandlerSends(f) ==
    /\ handling = "handler"
    /\ SendWhole(f, TRUE)
    /\ UNCHANGED recvVars

(* The handler returns true: the frame goes back, from its own buffer.     *)
SendBack ==
    /\ handling = "handler"
    /\ handling' = "done"
    /\ SendWhole(recvRing[currentRecvBuffer].frame, recvRing[currentRecvBuffer].intact)
    /\ UNCHANGED <<recvRing, currentRecvBuffer, cardRecv, received>>

(* The end of the loop's body.                                             *)
Advance ==
    /\ recvRing' = Freed(recvRing, currentRecvBuffer, "card")
    /\ currentRecvBuffer' = After(currentRecvBuffer)
    /\ handling' = "no"
    /\ UNCHANGED <<sendVars, cardRecv, received>>

GiveBack == handling # "no" /\ Advance

(* A frame that is damaged has no handler.                                 *)
Skip ==
    /\ handling = "no"
    /\ recvRing[currentRecvBuffer].owner = "driver"
    /\ ~Whole(recvRing[currentRecvBuffer].frame)
    /\ Advance

-----------------------------------------------------------------------------
(* The card sends what it owns, in turn, and hands the descriptor back.    *)
CardTransmit ==
    /\ sendRing[cardSend].owner = "card"
    /\ sent' = Item(sendRing[cardSend])
    /\ sendRing' = Freed(sendRing, cardSend, "driver")
    /\ cardSend' = After(cardSend)
    /\ UNCHANGED <<currentSendBuffer, thread, overrun, recvVars>>

(* A frame begins to arrive; without a descriptor of the card's it is      *)
(* missed.                                                                 *)
CardBegins(f) ==
    /\ recvRing[cardRecv] = Free("card")
    /\ recvRing' = [Overwritten(recvRing, RecvStart, Lines(RecvStart, cardRecv, f))
                       EXCEPT ![cardRecv] = [owner |-> "card", frame |-> f, intact |-> TRUE]]
    /\ UNCHANGED <<sendVars, currentRecvBuffer, cardRecv, handling, received>>

(* It is in memory, and the descriptor is handed to the driver.            *)
CardReceive ==
    /\ recvRing[cardRecv].owner = "card" /\ recvRing[cardRecv].frame # Nothing
    /\ recvRing' = [recvRing EXCEPT ![cardRecv].owner = "driver"]
    /\ cardRecv' = After(cardRecv)
    /\ UNCHANGED <<sendVars, currentRecvBuffer, handling, received>>

-----------------------------------------------------------------------------
ThreadStep == (\E f \in Frames : SendBegin(f)) \/ SendStore \/ SendCopy \/ SendGive

HandlerStep ==
    ReceiveFrame \/ HandlerWrites \/ (\E f \in Frames : HandlerSends(f)) \/ SendBack

CardNext ==
    \/ ThreadStep
    \/ HandlerStep
    \/ GiveBack
    \/ Skip
    \/ CardTransmit
    \/ \E f \in Frames \union Damaged : CardBegins(f)
    \/ CardReceive

(* The card goes on with what it was given; a thread that has begun runs   *)
(* again and again.  No frame need be sent or arrive, and nothing calls    *)
(* Receive: the call is commented out (amd_am79c973.cpp:150).              *)
CardFairness ==
    /\ WF_cardVars(CardTransmit)
    /\ SF_cardVars(SendStore)
    /\ SF_cardVars(SendCopy)
    /\ SF_cardVars(SendGive)

CardSpec == CardInit /\ [][CardNext]_cardVars /\ CardFairness

-----------------------------------------------------------------------------
Items == [frame : Frames, intact : BOOLEAN]

(* Types of the driver's and the card's state (amd_am79c973.h).            *)
CardTypeOK ==
    /\ sendRing \in [Slots -> Descriptor(Frames)]
    /\ recvRing \in [Slots -> Descriptor(Frames \union Damaged)]
    /\ {currentSendBuffer, currentRecvBuffer, cardSend, cardRecv} \subseteq Slots
    /\ thread \in [at : {"idle", "store", "fill"}, slot : Slots,
                   frame : Frames \union {Nothing}, left : Nat, intact : BOOLEAN]
    /\ handling \in {"no", "handler", "done"}
    /\ sent \in Items \union {Nothing}
    /\ received \in Items \union {Nothing}
    /\ overrun \in BOOLEAN

(* The slots of S from i on without a gap, in the order of the ring.       *)
Run(i, S) ==
    LET slot(k) == (i + k) % RingSize
        lengths == {n \in 0 .. RingSize : \A k \in 0 .. n - 1 : slot(k) \in S}
        longest == CHOOSE n \in lengths : \A m \in lengths : m <= n
    IN  [k \in 1 .. longest |-> slot(k - 1)]

(* What the slots of a run hold, in their order.                           *)
Along(run, contents) == [k \in DOMAIN run |-> contents[run[k]]]

(* Two of the frames in slots S have a line in common.                     *)
Sharing(S, start, contents) ==
    \E i, j \in S : i # j /\ Overlap(start, i, contents[i].frame, j, contents[j].frame)

(* The descriptors that Send has claimed and the card has not handed back, *)
(* the one into which a thread still copies included.                      *)
Claimed == {i \in Slots : \/ sendRing[i].owner = "card"
                          \/ thread.at = "fill" /\ thread.slot = i}

ClaimedItems ==
    [i \in Slots |-> IF thread.at = "fill" /\ thread.slot = i
                     THEN Item(thread) ELSE Item(sendRing[i])]

(* The frames that Send accepted and the card has not sent: from the       *)
(* card's place on.                                                        *)
Outgoing == Along(Run(cardSend, Claimed), ClaimedItems)

(* The descriptors with a frame, those that wait for Receive, the one that *)
(* arrives included and the one being handled not, and the first of them.  *)
Arrived == {i \in Slots : recvRing[i].frame # Nothing}
Waiting == {i \in Arrived : handling = "no" \/ i # currentRecvBuffer}

FirstWaiting ==
    IF handling = "no" THEN currentRecvBuffer ELSE After(currentRecvBuffer)

ArrivedItems == [i \in Slots |-> Item(recvRing[i])]

(* The whole frames that wait for Receive.                                 *)
Incoming == Kept(Along(Run(FirstWaiting, Waiting), ArrivedItems), Items)

SendQueue == INSTANCE FrameQueue WITH
    Capacity <- RingSize, queue <- Outgoing, last <- sent,
    entering <- thread.at = "store", broken <- overrun,
    crowded <- Sharing(Claimed, SendStart, ClaimedItems)

RecvQueue == INSTANCE FrameQueue WITH
    Capacity <- RingSize, queue <- Incoming, last <- received,
    entering <- FALSE, broken <- FALSE,
    crowded <- Sharing(Arrived, RecvStart, ArrivedItems)

(* Send implements the queue: frames leave in the order of the calls, each *)
(* once, and intact while no two that are on their way overlap, until a    *)
(* caller finds all descriptors taken or splits another in its first two   *)
(* statements (amd_am79c973.cpp:163-189).  With the buffers of the code    *)
(* any two frames of more than 64 bytes overlap.                           *)
SendIsQueue == SendQueue!Spec

(* Receive implements the queue: whole frames go up in the order of their  *)
(* arrival, each once, whatever is damaged between them and however full   *)
(* the ring is, and intact while no two overlap (amd_am79c973.cpp:191-222).*)
RecvIsQueue == RecvQueue!Spec

(* While the layers above work on a frame, and answer in its buffer, its   *)
(* descriptor stays the driver's, and it is as it was handed up unless     *)
(* another has arrived that overlaps it: in the code the next one does, if *)
(* both have more than 64 bytes (amd_am79c973.cpp:100, 214-220).           *)
FrameHeldWhileHandled ==
    handling = "handler" =>
        LET i == currentRecvBuffer IN
        /\ recvRing[i].owner = "driver" /\ recvRing[i].frame = received.frame
        /\ \/ recvRing[i].intact = received.intact
           \/ \E j \in Arrived \ {i} :
                 Overlap(RecvStart, i, received.frame, j, recvRing[j].frame)

(* The card gives back every descriptor for sending that it was given,     *)
(* although a thread may be split anywhere in its call, unless Send was    *)
(* overrun or a handler never returns (amd_am79c973.cpp:163-189).          *)
SendSlotsComeBack ==
    []<>(handling = "no") =>
        \A i \in Slots :
            sendRing[i].owner = "card" ~> sendRing[i].owner = "driver" \/ overrun
=============================================================================
