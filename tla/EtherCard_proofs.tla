--------------------------- MODULE EtherCard_proofs ---------------------------
(* Proofs about EtherCard, for any set of frames, any size of the rings and *)
(* wherever the buffers lie.                                               *)
EXTENDS EtherCard, SequenceLemmas

-----------------------------------------------------------------------------
(* The rings                                                               *)

(* new is ring but for descriptor i; new is ring but for frames that lost  *)
(* their contents to something written over the given lines.               *)
Replaced(new, ring, i, o, f, b) ==
    \A j \in Slots :
        /\ new[j].owner = IF j = i THEN o ELSE ring[j].owner
        /\ new[j].frame = IF j = i THEN f ELSE ring[j].frame
        /\ new[j].intact = IF j = i THEN b ELSE ring[j].intact

With(ring, i, o, f, b) == [ring EXCEPT ![i] = [owner |-> o, frame |-> f, intact |-> b]]

OnlySpoilt(new, ring, start, lines) ==
    \A j \in Slots :
        /\ new[j].owner = ring[j].owner /\ new[j].frame = ring[j].frame
        /\ \/ new[j].intact = ring[j].intact
           \/ /\ new[j].intact = FALSE /\ ring[j].frame # Nothing
              /\ Lines(start, j, ring[j].frame) \cap lines # {}

(* The place after the last is the first.                                  *)
LEMMA AfterInSlots == ASSUME NEW i \in Slots PROVE After(i) \in Slots
  BY RingAssumption DEF After, Slots

(* A ring in which a descriptor is replaced, whatever was there, ...       *)
LEMMA RingAt ==
    ASSUME NEW C, NEW ring \in [Slots -> Descriptor(C)], NEW i \in Slots,
           NEW o, o = "driver" \/ o = "card", NEW f, f \in C \/ f = Nothing, NEW b \in BOOLEAN
    PROVE  /\ With(ring, i, o, f, b) \in [Slots -> Descriptor(C)]
           /\ Replaced(With(ring, i, o, f, b), ring, i, o, f, b)
  <1> DEFINE d == [owner |-> o, frame |-> f, intact |-> b]
  <1>1. d \in Descriptor(C) /\ d.owner = o /\ d.frame = f /\ d.intact = b
    BY DEF Descriptor
  <1>2. PICK new : new = With(ring, i, o, f, b) /\ new = [ring EXCEPT ![i] = d]
    BY DEF With
  <1> HIDE DEF d
  <1>3. \A j \in Slots : new[j] = IF j = i THEN d ELSE ring[j]
    BY <1>2
  <1>4. new \in [Slots -> Descriptor(C)]
    BY <1>1, <1>2
  <1>5. ASSUME NEW j \in Slots
        PROVE  /\ new[j].owner = IF j = i THEN o ELSE ring[j].owner
               /\ new[j].frame = IF j = i THEN f ELSE ring[j].frame
               /\ new[j].intact = IF j = i THEN b ELSE ring[j].intact
    <2>1. CASE j = i
      BY <1>1, <1>3, <2>1
    <2>2. CASE j # i
      BY <1>3, <2>2
    <2> QED  BY <2>1, <2>2
  <1> QED  BY <1>2, <1>4, <1>5 DEF Replaced

(* ... and one in which lines were written.                                *)
LEMMA OverwrittenAt ==
    ASSUME NEW C, NEW ring \in [Slots -> Descriptor(C)], NEW start, NEW lines
    PROVE  /\ Overwritten(ring, start, lines) \in [Slots -> Descriptor(C)]
           /\ OnlySpoilt(Overwritten(ring, start, lines), ring, start, lines)
  <1> DEFINE Hit(j) == ring[j].frame # Nothing
                       /\ Lines(start, j, ring[j].frame) \cap lines # {}
             new == [j \in Slots |->
                        IF Hit(j) THEN [ring[j] EXCEPT !.intact = FALSE] ELSE ring[j]]
  <1>1. Overwritten(ring, start, lines) = new
    BY DEF Overwritten
  <1>2. ASSUME NEW j \in Slots
        PROVE  LET e == [ring[j] EXCEPT !.intact = FALSE] IN
               /\ e \in Descriptor(C)
               /\ e.owner = ring[j].owner /\ e.frame = ring[j].frame /\ e.intact = FALSE
    <2>1. PICK r \in Descriptor(C) : r = ring[j]
      OBVIOUS
    <2>2. LET e == [r EXCEPT !.intact = FALSE] IN
          /\ e \in Descriptor(C)
          /\ e.owner = r.owner /\ e.frame = r.frame /\ e.intact = FALSE
      BY DEF Descriptor
    <2> QED  BY <2>1, <2>2
  <1>3. new \in [Slots -> Descriptor(C)]
    BY <1>2
  <1>4. ASSUME NEW j \in Slots
        PROVE  /\ new[j].owner = ring[j].owner /\ new[j].frame = ring[j].frame
               /\ new[j].intact = ring[j].intact \/ (new[j].intact = FALSE /\ Hit(j))
    <2>1. new[j] = IF Hit(j) THEN [ring[j] EXCEPT !.intact = FALSE] ELSE ring[j]
      OBVIOUS
    <2> HIDE DEF new, Hit
    <2>2. CASE Hit(j)
      BY <1>2, <2>1, <2>2
    <2>3. CASE ~Hit(j)
      BY <2>1, <2>3
    <2> QED  BY <2>2, <2>3
  <1> HIDE DEF new
  <1> QED  BY <1>1, <1>3, <1>4 DEF OnlySpoilt

-----------------------------------------------------------------------------
(* Types, and the frame that is handled                                    *)

(* The descriptor that Receive is at stays the driver's, with the frame it *)
(* handed up, until Receive gives it back; it is as it was handed up       *)
(* unless one that overlaps it has arrived.                                *)
Undisturbed(i) ==
    \/ recvRing[i].intact = received.intact
    \/ \E j \in Arrived \ {i} :
          Overlap(RecvStart, i, received.frame, j, recvRing[j].frame)

Held == handling # "no" =>
            /\ received \in Items
            /\ recvRing[currentRecvBuffer].owner = "driver"
            /\ recvRing[currentRecvBuffer].frame = received.frame
            /\ Undisturbed(currentRecvBuffer)

(* What the card or a caller of Send has given over is a frame, of which a *)
(* thread has no more to copy than there is; in the driver's descriptors   *)
(* for receiving are frames, and in the card's only what arrives now.      *)
Frameful ==
    /\ \A i \in Slots : sendRing[i].owner = "card" => sendRing[i].frame \in Frames
    /\ thread.at # "idle" => thread.frame \in Frames /\ thread.left <= Size[thread.frame]
    /\ \A i \in Slots : recvRing[i].owner = "driver"
                           => recvRing[i].frame \in Frames \union Damaged
    /\ \A i \in Slots : recvRing[i].owner = "card" /\ recvRing[i].frame # Nothing
                           => i = cardRecv

IInv == CardTypeOK /\ Held /\ Frameful

Threads == [at : {"idle", "store", "fill"}, slot : Slots,
            frame : Frames \union {Nothing}, left : Nat, intact : BOOLEAN]

(* The types, each by itself.                                              *)
LEMMA Typed ==
    ASSUME CardTypeOK
    PROVE  /\ sendRing \in [Slots -> Descriptor(Frames)]
           /\ recvRing \in [Slots -> Descriptor(Frames \union Damaged)]
           /\ currentSendBuffer \in Slots /\ currentRecvBuffer \in Slots
           /\ cardSend \in Slots /\ cardRecv \in Slots
           /\ thread \in Threads /\ thread.slot \in Slots /\ overrun \in BOOLEAN
           /\ handling \in {"no", "handler", "done"}
           /\ sent \in Items \union {Nothing} /\ received \in Items \union {Nothing}
  BY DEF CardTypeOK, Threads

(* The size of a frame is a number.                                        *)
LEMMA Sized == \A f \in Frames \union Damaged : Size[f] \in Nat /\ Size[f] > 0
  BY MemoryAssumption

(* A descriptor with a frame, as an item.                                  *)
LEMMA ItemIs ==
    ASSUME NEW C, NEW d \in Descriptor(C)
    PROVE  /\ Item(d).frame = d.frame /\ Item(d).intact = d.intact
           /\ d.frame \in Frames => Item(d) \in Items
           /\ Item(d) \in Items => d.frame \in Frames
  BY DEF Item, Items, Descriptor

(* Both rings, and all places in them, are well formed at the start.       *)
LEMMA InitIInv == CardInit => IInv
  <1> SUFFICES ASSUME CardInit PROVE IInv
    OBVIOUS
  <1>1. 0 \in Slots
    BY RingAssumption DEF Slots
  <1>2. \A C : \A o \in {"driver", "card"} :
            [i \in Slots |-> Free(o)] \in [Slots -> Descriptor(C)]
    BY DEF Descriptor, Free
  <1>3. sendRing \in [Slots -> Descriptor(Frames)]
    BY <1>2 DEF CardInit
  <1>4. recvRing \in [Slots -> Descriptor(Frames \union Damaged)]
    BY <1>2 DEF CardInit
  <1>5. thread \in Threads /\ thread.at = "idle"
    BY <1>1 DEF CardInit, Idle, Threads
  <1>6. CardTypeOK
    BY <1>1, <1>3, <1>4, <1>5 DEF CardTypeOK, CardInit, Threads
  <1>7. Held
    BY DEF Held, CardInit
  <1>8. \A i \in Slots : sendRing[i].owner = "driver"
                         /\ recvRing[i].owner = "card" /\ recvRing[i].frame = Nothing
    BY DEF CardInit, Free
  <1>9. Frameful
    BY <1>5, <1>8 DEF Frameful
  <1> QED  BY <1>6, <1>7, <1>9 DEF IInv

(* What a step does to the ring for sending is enough to know of its part  *)
(* of the invariant, ...                                                   *)
LEMMA SendKeepsIInv ==
    ASSUME IInv, UNCHANGED <<recvRing, currentRecvBuffer, cardRecv, received>>,
           handling' \in {"no", "handler", "done"}, handling = "no" => handling' = "no",
           sendRing' \in [Slots -> Descriptor(Frames)],
           currentSendBuffer' \in Slots, cardSend' \in Slots,
           overrun' \in BOOLEAN, sent' \in Items \union {Nothing},
           thread' \in Threads,
           thread'.at # "idle"
               => thread'.frame \in Frames /\ thread'.left <= Size[thread'.frame],
           \A i \in Slots : sendRing'[i].owner = "card" => sendRing'[i].frame \in Frames
    PROVE  IInv'
  <1>1. CardTypeOK'
    BY DEF IInv, CardTypeOK, Threads
  <1>2. Held'
    BY DEF IInv, Held, Undisturbed, Arrived
  <1>3. Frameful'
    BY DEF IInv, Frameful
  <1> QED  BY <1>1, <1>2, <1>3 DEF IInv

(* ... as is what it does to the ring for receiving.                       *)
LEMMA RecvKeepsIInv ==
    ASSUME IInv, UNCHANGED sendVars,
           recvRing' \in [Slots -> Descriptor(Frames \union Damaged)],
           currentRecvBuffer' \in Slots, cardRecv' \in Slots,
           handling' \in {"no", "handler", "done"}, received' \in Items \union {Nothing},
           Held',
           \A i \in Slots : recvRing'[i].owner = "driver"
                               => recvRing'[i].frame \in Frames \union Damaged,
           \A i \in Slots : recvRing'[i].owner = "card" /\ recvRing'[i].frame # Nothing
                               => i = cardRecv'
    PROVE  IInv'
  <1>1. CardTypeOK'
    BY DEF IInv, CardTypeOK, sendVars
  <1>2. Frameful'
    BY DEF IInv, Frameful, sendVars
  <1> QED  BY <1>1, <1>2 DEF IInv

(* A whole Send.                                                           *)
LEMMA SendWholeIs ==
    ASSUME IInv, NEW f \in Frames, NEW b \in BOOLEAN, SendWhole(f, b)
    PROVE  LET lines == Lines(SendStart, currentSendBuffer, f) IN
           \E ring \in [Slots -> Descriptor(Frames)] :
              /\ OnlySpoilt(ring, sendRing, SendStart, lines)
              /\ sendRing' \in [Slots -> Descriptor(Frames)]
              /\ Replaced(sendRing', ring, currentSendBuffer, "card", f, b)
  <1>1. sendRing \in [Slots -> Descriptor(Frames)] /\ currentSendBuffer \in Slots
    BY Typed DEF IInv
  <1>2. PICK lines : lines = Lines(SendStart, currentSendBuffer, f)
    OBVIOUS
  <1>3. PICK ring \in [Slots -> Descriptor(Frames)] :
            ring = Overwritten(sendRing, SendStart, lines)
            /\ OnlySpoilt(ring, sendRing, SendStart, lines)
    BY <1>1, OverwrittenAt
  <1>4. sendRing' = [ring EXCEPT ![currentSendBuffer] =
                        [owner |-> "card", frame |-> f, intact |-> b]]
    BY <1>2, <1>3 DEF SendWhole, Given
  <1>5. /\ sendRing' \in [Slots -> Descriptor(Frames)]
        /\ Replaced(sendRing', ring, currentSendBuffer, "card", f, b)
    <2>1. PICK i \in Slots, e \in Frames, c \in BOOLEAN :
              i = currentSendBuffer /\ e = f /\ c = b
      BY <1>1
    <2>2. PICK new : new = With(ring, i, "card", e, c)
      OBVIOUS
    <2>3. /\ With(ring, i, "card", e, c) \in [Slots -> Descriptor(Frames)]
          /\ Replaced(With(ring, i, "card", e, c), ring, i, "card", e, c)
      BY RingAt, SMTT(60)
    <2> QED  BY <1>4, <2>1, <2>2, <2>3 DEF With
  <1> QED  BY <1>2, <1>3, <1>5

(* The thread meanwhile may lose what it has copied, no more.              *)
LEMMA SendWholeThread ==
    ASSUME IInv, NEW f \in Frames, NEW b \in BOOLEAN, SendWhole(f, b)
    PROVE  /\ thread' \in Threads
           /\ thread'.at = thread.at /\ thread'.slot = thread.slot
           /\ thread'.frame = thread.frame /\ thread'.left = thread.left
           /\ \/ thread'.intact = thread.intact
              \/ /\ thread'.intact = FALSE
                 /\ Copied \cap Lines(SendStart, currentSendBuffer, f) # {}
  <1>1. thread \in Threads
    BY Typed DEF IInv
  <1>2. PICK x \in BOOLEAN : x = (Copied \cap Lines(SendStart, currentSendBuffer, f) = {})
    OBVIOUS
  <1>3. thread' = [thread EXCEPT !.intact = thread.intact /\ x]
    BY <1>2 DEF SendWhole
  <1>4. (thread.intact /\ x) = IF x THEN thread.intact ELSE FALSE
    BY <1>1 DEF Threads
  <1>5. /\ thread' \in Threads
        /\ thread'.at = thread.at /\ thread'.slot = thread.slot
        /\ thread'.frame = thread.frame /\ thread'.left = thread.left
        /\ thread'.intact = (thread.intact /\ x)
    BY <1>1, <1>3 DEF Threads
  <1> QED  BY <1>2, <1>4, <1>5

(* It keeps the invariant.                                                 *)
LEMMA SendWholeKeeps ==
    ASSUME IInv, NEW f \in Frames, NEW b \in BOOLEAN, SendWhole(f, b),
           UNCHANGED <<recvRing, currentRecvBuffer, cardRecv, received>>,
           handling' \in {"no", "handler", "done"}, handling # "no"
    PROVE  IInv'
  <1>1. PICK ring \in [Slots -> Descriptor(Frames)] :
            /\ OnlySpoilt(ring, sendRing, SendStart, Lines(SendStart, currentSendBuffer, f))
            /\ sendRing' \in [Slots -> Descriptor(Frames)]
            /\ Replaced(sendRing', ring, currentSendBuffer, "card", f, b)
    BY SendWholeIs
  <1>2. \A i \in Slots : sendRing'[i].owner = "card" => sendRing'[i].frame \in Frames
    BY <1>1 DEF OnlySpoilt, Replaced, IInv, Frameful
  <1>3. currentSendBuffer' \in Slots
    BY Typed, AfterInSlots DEF SendWhole, Claim, IInv
  <1>4. Taken(currentSendBuffer) \in BOOLEAN
    BY DEF Taken
  <1>5. overrun' \in BOOLEAN /\ cardSend' \in Slots /\ sent' \in Items \union {Nothing}
    BY <1>4, Typed DEF SendWhole, IInv
  <1>6. thread' \in Threads
        /\ (thread'.at # "idle"
               => thread'.frame \in Frames /\ thread'.left <= Size[thread'.frame])
    BY SendWholeThread DEF IInv, Frameful
  <1> QED  BY <1>1, <1>2, <1>3, <1>5, <1>6, SendKeepsIInv

(* The card sends what it was given.                                       *)
LEMMA TransmitIs ==
    ASSUME IInv, CardTransmit
    PROVE  /\ sendRing[cardSend].owner = "card" /\ sendRing[cardSend].frame \in Frames
           /\ sent' = Item(sendRing[cardSend]) /\ sent' \in Items
           /\ cardSend' = After(cardSend) /\ cardSend' \in Slots
           /\ sendRing' \in [Slots -> Descriptor(Frames)]
           /\ Replaced(sendRing', sendRing, cardSend, "driver", Nothing, TRUE)
  <1>1. sendRing \in [Slots -> Descriptor(Frames)] /\ cardSend \in Slots
    BY Typed DEF IInv
  <1>2. sendRing[cardSend].owner = "card" /\ sendRing[cardSend].frame \in Frames
    BY <1>1 DEF CardTransmit, IInv, Frameful
  <1>3. sent' = Item(sendRing[cardSend]) /\ sent' \in Items
    <2>1. sendRing[cardSend] \in Descriptor(Frames)
      BY <1>1
    <2> QED  BY <1>2, <2>1, ItemIs DEF CardTransmit
  <1>4. cardSend' = After(cardSend) /\ cardSend' \in Slots
    BY <1>1, AfterInSlots DEF CardTransmit
  <1>5. /\ sendRing' \in [Slots -> Descriptor(Frames)]
        /\ Replaced(sendRing', sendRing, cardSend, "driver", Nothing, TRUE)
    <2>1. PICK i \in Slots, ring \in [Slots -> Descriptor(Frames)] :
              i = cardSend /\ ring = sendRing
      BY <1>1
    <2>2. PICK new : new = With(ring, i, "driver", Nothing, TRUE)
      OBVIOUS
    <2>3. /\ new \in [Slots -> Descriptor(Frames)]
          /\ Replaced(new, ring, i, "driver", Nothing, TRUE)
      BY <2>2, RingAt
    <2> QED  BY <2>1, <2>2, <2>3 DEF CardTransmit, Freed, Free, With
  <1> QED  BY <1>2, <1>3, <1>4, <1>5

(* The copy of a thread spoils at most what shares lines with its frame.   *)
LEMMA CopyIs ==
    ASSUME IInv, SendCopy
    PROVE  /\ thread.frame \in Frames
           /\ sendRing' \in [Slots -> Descriptor(Frames)]
           /\ OnlySpoilt(sendRing', sendRing, SendStart,
                         Lines(SendStart, thread.slot, thread.frame))
           /\ thread' \in Threads
           /\ thread'.at = thread.at /\ thread'.slot = thread.slot
           /\ thread'.frame = thread.frame /\ thread'.left <= thread.left
           /\ thread'.intact = thread.intact
  <1>1. sendRing \in [Slots -> Descriptor(Frames)] /\ thread \in Threads
    BY Typed DEF IInv
  <1>2. thread.frame \in Frames /\ thread.left <= Size[thread.frame]
        /\ thread.left \in Nat /\ thread.left > 0 /\ thread.slot \in Slots
    BY <1>1 DEF SendCopy, IInv, Frameful, Threads
  <1>3. PICK line : line = (Place(SendStart, thread.slot) + thread.left) - 1
    OBVIOUS
  <1>4. {line} \subseteq Lines(SendStart, thread.slot, thread.frame)
    <2>1. Place(SendStart, thread.slot) \in Int
      BY <1>2, MemoryAssumption, RingAssumption DEF Place, Slots
    <2>2. PICK p \in Int, k \in Nat, z \in Nat :
              p = Place(SendStart, thread.slot) /\ k = thread.left /\ z = Size[thread.frame]
      BY <1>2, <2>1, Sized
    <2>3. (p + k) - 1 \in p .. (p + z) - 1
      BY <1>2, <2>2
    <2> QED  BY <1>3, <2>2, <2>3 DEF Lines
  <1>5. /\ sendRing' \in [Slots -> Descriptor(Frames)]
        /\ OnlySpoilt(sendRing', sendRing, SendStart, {line})
    <2>1. sendRing' = Overwritten(sendRing, SendStart, {line})
      BY <1>3 DEF SendCopy
    <2> QED  BY <1>1, <2>1, OverwrittenAt
  <1>6. OnlySpoilt(sendRing', sendRing, SendStart,
                   Lines(SendStart, thread.slot, thread.frame))
    BY <1>4, <1>5 DEF OnlySpoilt
  <1>7. /\ thread' \in Threads
        /\ thread'.at = thread.at /\ thread'.slot = thread.slot
        /\ thread'.frame = thread.frame /\ thread'.left <= thread.left
        /\ thread'.intact = thread.intact
    BY <1>1, <1>2 DEF SendCopy, Threads
  <1> QED  BY <1>2, <1>5, <1>6, <1>7

(* The thread gives its descriptor to the card.                            *)
LEMMA GiveIs ==
    ASSUME IInv, SendGive
    PROVE  /\ thread.frame \in Frames
           /\ sendRing' \in [Slots -> Descriptor(Frames)]
           /\ Replaced(sendRing', sendRing, thread.slot, "card", thread.frame, thread.intact)
           /\ thread' \in Threads /\ thread'.at = "idle"
  <1>1. sendRing \in [Slots -> Descriptor(Frames)] /\ thread \in Threads
    BY Typed DEF IInv
  <1>2. thread.frame \in Frames /\ thread.slot \in Slots /\ thread.intact \in BOOLEAN
    BY <1>1 DEF SendGive, IInv, Frameful, Threads
  <1>3. /\ sendRing' \in [Slots -> Descriptor(Frames)]
        /\ Replaced(sendRing', sendRing, thread.slot, "card", thread.frame, thread.intact)
    <2>1. PICK i \in Slots, ring \in [Slots -> Descriptor(Frames)], f \in Frames,
              b \in BOOLEAN :
              i = thread.slot /\ ring = sendRing /\ f = thread.frame /\ b = thread.intact
      BY <1>1, <1>2
    <2>2. PICK new : new = With(ring, i, "card", f, b)
      OBVIOUS
    <2>3. new \in [Slots -> Descriptor(Frames)] /\ Replaced(new, ring, i, "card", f, b)
      BY <2>2, RingAt
    <2> QED  BY <2>1, <2>2, <2>3 DEF SendGive, Given, With
  <1>4. thread' \in Threads /\ thread'.at = "idle"
    BY RingAssumption DEF SendGive, Idle, Threads, Slots
  <1> QED  BY <1>2, <1>3, <1>4

(* Send in a thread keeps the invariant, ...                               *)
LEMMA ThreadKeeps ==
    ASSUME IInv, ThreadStep
    PROVE  IInv'
  <1>1. /\ sendRing \in [Slots -> Descriptor(Frames)] /\ thread \in Threads
        /\ currentSendBuffer \in Slots /\ cardSend \in Slots /\ overrun \in BOOLEAN
        /\ handling \in {"no", "handler", "done"} /\ sent \in Items \union {Nothing}
    BY Typed DEF IInv
  <1>2. \A i \in Slots : sendRing[i].owner = "card" => sendRing[i].frame \in Frames
    BY DEF IInv, Frameful
  <1>3. ASSUME NEW f \in Frames, SendBegin(f) PROVE IInv'
    <2>1. Size[f] \in Nat /\ Size[f] <= Size[f]
      BY Sized
    <2>2. thread' \in Threads /\ thread'.frame = f /\ thread'.left = Size[f]
      BY <1>1, <1>3, <2>1 DEF SendBegin, Threads
    <2> QED  BY <1>1, <1>2, <1>3, <2>1, <2>2, SendKeepsIInv DEF SendBegin, recvVars
  <1>4. CASE SendStore
    <2>1. PICK i \in {thread.slot, currentSendBuffer} : currentSendBuffer' = Claim(i)
      BY <1>4 DEF SendStore
    <2>2. currentSendBuffer' \in Slots
      BY <1>1, <2>1, AfterInSlots DEF Claim, Threads
    <2>3. /\ thread' \in Threads /\ thread'.frame = thread.frame
          /\ thread'.left = thread.left /\ thread.at # "idle"
      BY <1>1, <1>4 DEF SendStore, Threads
    <2>4. thread'.frame \in Frames /\ thread'.left <= Size[thread'.frame]
      BY <2>3 DEF IInv, Frameful
    <2>5. overrun' \in BOOLEAN
      BY <1>1, <1>4 DEF SendStore
    <2> QED
      BY <1>1, <1>2, <1>4, <2>2, <2>3, <2>4, <2>5, SendKeepsIInv DEF SendStore, recvVars
  <1>5. CASE SendCopy
    <2>1. \A i \in Slots : sendRing'[i].owner = "card" => sendRing'[i].frame \in Frames
      BY <1>2, <1>5, CopyIs DEF OnlySpoilt
    <2>2. thread'.frame \in Frames /\ thread'.left <= Size[thread'.frame]
      <3>1. thread.left <= Size[thread.frame] /\ thread.at # "idle"
        BY <1>5 DEF SendCopy, IInv, Frameful
      <3>2. PICK m \in Nat, k \in Nat, z \in Nat :
                m = thread'.left /\ k = thread.left /\ z = Size[thread.frame]
        BY <1>1, <1>5, CopyIs, Sized DEF Threads
      <3>3. m <= k /\ k <= z
        BY <1>5, <3>1, <3>2, CopyIs
      <3>4. m <= z
        BY <3>3
      <3> QED  BY <1>5, <3>2, <3>4, CopyIs
    <2> QED
      BY <1>1, <1>5, <2>1, <2>2, CopyIs, SendKeepsIInv DEF SendCopy, recvVars
  <1>6. CASE SendGive
    <2>1. \A i \in Slots : sendRing'[i].owner = "card" => sendRing'[i].frame \in Frames
      BY <1>2, <1>6, GiveIs DEF Replaced
    <2> QED  BY <1>1, <1>6, <2>1, GiveIs, SendKeepsIInv DEF SendGive, recvVars
  <1> QED  BY <1>3, <1>4, <1>5, <1>6 DEF ThreadStep

(* An answer that is written over a frame spoils at most others that share *)
(* lines with it.                                                          *)
LEMMA WritesIs ==
    ASSUME IInv, HandlerWrites
    PROVE  /\ recvRing' \in [Slots -> Descriptor(Frames \union Damaged)]
           /\ UNCHANGED recvRing[currentRecvBuffer]
           /\ \A j \in Slots :
                 /\ recvRing'[j].owner = recvRing[j].owner
                 /\ recvRing'[j].frame = recvRing[j].frame
                 /\ \/ recvRing'[j].intact = recvRing[j].intact
                    \/ /\ recvRing'[j].intact = FALSE
                       /\ Lines(RecvStart, j, recvRing[j].frame)
                            \cap Lines(RecvStart, currentRecvBuffer, received.frame) # {}
  <1>1. /\ recvRing \in [Slots -> Descriptor(Frames \union Damaged)]
        /\ currentRecvBuffer \in Slots
    BY Typed DEF IInv
  <1>2. PICK lines \in SUBSET Lines(RecvStart, currentRecvBuffer, received.frame) :
            recvRing' = [Overwritten(recvRing, RecvStart, lines)
                            EXCEPT ![currentRecvBuffer] = recvRing[currentRecvBuffer]]
    BY DEF HandlerWrites
  <1>3. PICK ring \in [Slots -> Descriptor(Frames \union Damaged)] :
            ring = Overwritten(recvRing, RecvStart, lines)
            /\ OnlySpoilt(ring, recvRing, RecvStart, lines)
    BY <1>1, OverwrittenAt
  <1>4. recvRing' = [ring EXCEPT ![currentRecvBuffer] = recvRing[currentRecvBuffer]]
    BY <1>2, <1>3
  <1>5. /\ recvRing' \in [Slots -> Descriptor(Frames \union Damaged)]
        /\ \A j \in Slots : recvRing'[j] = IF j = currentRecvBuffer
                                           THEN recvRing[j] ELSE ring[j]
    BY <1>1, <1>4
  <1>6. UNCHANGED currentRecvBuffer
    BY DEF HandlerWrites
  <1>7. ASSUME NEW j \in Slots
        PROVE  /\ recvRing'[j].owner = recvRing[j].owner
               /\ recvRing'[j].frame = recvRing[j].frame
               /\ \/ recvRing'[j].intact = recvRing[j].intact
                  \/ /\ recvRing'[j].intact = FALSE
                     /\ Lines(RecvStart, j, recvRing[j].frame)
                          \cap Lines(RecvStart, currentRecvBuffer, received.frame) # {}
    <2>1. CASE j = currentRecvBuffer
      BY <1>5, <2>1
    <2>2. CASE j # currentRecvBuffer
      BY <1>2, <1>3, <1>5, <2>2 DEF OnlySpoilt
    <2> QED  BY <2>1, <2>2
  <1> QED  BY <1>1, <1>5, <1>6, <1>7

(* ... as do Receive and the layers above, ...                             *)
LEMMA HandlerKeeps ==
    ASSUME IInv, HandlerStep
    PROVE  IInv'
  <1>1. /\ recvRing \in [Slots -> Descriptor(Frames \union Damaged)]
        /\ currentRecvBuffer \in Slots /\ cardRecv \in Slots
        /\ handling \in {"no", "handler", "done"} /\ received \in Items \union {Nothing}
    BY Typed DEF IInv
  <1>2. /\ \A i \in Slots : recvRing[i].owner = "driver"
                               => recvRing[i].frame \in Frames \union Damaged
        /\ \A i \in Slots : recvRing[i].owner = "card" /\ recvRing[i].frame # Nothing
                               => i = cardRecv
    BY DEF IInv, Frameful
  <1>3. CASE ReceiveFrame
    <2>1. recvRing[currentRecvBuffer] \in Descriptor(Frames \union Damaged)
          /\ recvRing[currentRecvBuffer].frame \in Frames
      BY <1>1, <1>2, <1>3 DEF ReceiveFrame, Whole
    <2>2. /\ received' \in Items /\ received'.frame = recvRing[currentRecvBuffer].frame
          /\ received'.intact = recvRing[currentRecvBuffer].intact
      BY <1>3, <2>1, ItemIs DEF ReceiveFrame
    <2>3. /\ UNCHANGED <<recvRing, sendVars, currentRecvBuffer, cardRecv>>
          /\ handling' = "handler" /\ recvRing[currentRecvBuffer].owner = "driver"
      BY <1>3 DEF ReceiveFrame, Lent
    <2>4. Held'
      BY <2>2, <2>3 DEF Held, Undisturbed
    <2> QED  BY <1>1, <1>2, <2>2, <2>3, <2>4, RecvKeepsIInv
  <1>4. CASE HandlerWrites
    <2>1. /\ recvRing' \in [Slots -> Descriptor(Frames \union Damaged)]
          /\ \A j \in Slots : /\ recvRing'[j].owner = recvRing[j].owner
                             /\ recvRing'[j].frame = recvRing[j].frame
          /\ UNCHANGED recvRing[currentRecvBuffer]
      BY <1>4, WritesIs
    <2>2. UNCHANGED <<sendVars, currentRecvBuffer, cardRecv, handling, received>>
      BY <1>4 DEF HandlerWrites
    <2>3. Held'
      <3>1. Arrived' = Arrived
        BY <2>1 DEF Arrived
      <3>2. Undisturbed(currentRecvBuffer) => Undisturbed(currentRecvBuffer)'
        BY <2>1, <2>2, <3>1 DEF Undisturbed, Arrived
      <3> QED  BY <2>1, <2>2, <3>2 DEF Held, IInv
    <2> QED  BY <1>1, <1>2, <2>1, <2>2, <2>3, RecvKeepsIInv
  <1>5. ASSUME NEW f \in Frames, HandlerSends(f) PROVE IInv'
    BY <1>1, <1>5, SendWholeKeeps DEF HandlerSends, recvVars
  <1>6. CASE SendBack
    <2>1. PICK f \in Frames, b \in BOOLEAN :
              f = recvRing[currentRecvBuffer].frame /\ b = recvRing[currentRecvBuffer].intact
      <3>1. recvRing[currentRecvBuffer].frame \in Frames
        BY <1>6 DEF SendBack, IInv, Held, Items
      <3>2. recvRing[currentRecvBuffer].intact \in BOOLEAN
        BY <1>1 DEF Descriptor
      <3> QED  BY <3>1, <3>2
    <2>2. SendWhole(f, b)
      BY <1>6, <2>1 DEF SendBack
    <2> QED  BY <1>1, <1>6, <2>2, SendWholeKeeps DEF SendBack
  <1> QED  BY <1>3, <1>4, <1>5, <1>6 DEF HandlerStep

(* The end of the body of Receive's loop gives back one of the driver's.   *)
LEMMA AdvanceIs ==
    ASSUME IInv, Advance
    PROVE  /\ recvRing' \in [Slots -> Descriptor(Frames \union Damaged)]
           /\ Replaced(recvRing', recvRing, currentRecvBuffer, "card", Nothing, TRUE)
           /\ currentRecvBuffer' = After(currentRecvBuffer) /\ currentRecvBuffer' \in Slots
           /\ handling' = "no" /\ UNCHANGED <<sendVars, cardRecv, received>>
  <1>1. /\ recvRing \in [Slots -> Descriptor(Frames \union Damaged)]
        /\ currentRecvBuffer \in Slots
    BY Typed DEF IInv
  <1>2. PICK i \in Slots, ring \in [Slots -> Descriptor(Frames \union Damaged)] :
            i = currentRecvBuffer /\ ring = recvRing
    BY <1>1
  <1>3. PICK new : new = With(ring, i, "card", Nothing, TRUE)
    OBVIOUS
  <1>4. /\ new \in [Slots -> Descriptor(Frames \union Damaged)]
        /\ Replaced(new, ring, i, "card", Nothing, TRUE)
    BY <1>3, RingAt
  <1>5. recvRing' = new
    BY <1>2, <1>3 DEF Advance, Freed, Free, With
  <1> QED  BY <1>1, <1>2, <1>4, <1>5, AfterInSlots DEF Advance

(* ... and the card.                                                       *)
LEMMA BeginsIs ==
    ASSUME IInv, NEW f \in Frames \union Damaged, CardBegins(f)
    PROVE  /\ recvRing' \in [Slots -> Descriptor(Frames \union Damaged)]
           /\ recvRing[cardRecv].owner = "card" /\ recvRing[cardRecv].frame = Nothing
           /\ \E ring \in [Slots -> Descriptor(Frames \union Damaged)] :
                 /\ OnlySpoilt(ring, recvRing, RecvStart, Lines(RecvStart, cardRecv, f))
                 /\ Replaced(recvRing', ring, cardRecv, "card", f, TRUE)
  <1>1. /\ recvRing \in [Slots -> Descriptor(Frames \union Damaged)] /\ cardRecv \in Slots
    BY Typed DEF IInv
  <1>2. PICK lines : lines = Lines(RecvStart, cardRecv, f)
    OBVIOUS
  <1>3. PICK ring \in [Slots -> Descriptor(Frames \union Damaged)] :
            ring = Overwritten(recvRing, RecvStart, lines)
            /\ OnlySpoilt(ring, recvRing, RecvStart, lines)
    BY <1>1, OverwrittenAt
  <1>4. PICK i \in Slots : i = cardRecv
    BY <1>1
  <1>5. PICK new : new = With(ring, i, "card", f, TRUE)
    OBVIOUS
  <1>6. /\ new \in [Slots -> Descriptor(Frames \union Damaged)]
        /\ Replaced(new, ring, i, "card", f, TRUE)
    BY <1>5, RingAt
  <1>7. recvRing' = new
    BY <1>2, <1>3, <1>4, <1>5 DEF CardBegins, With
  <1>8. recvRing[cardRecv].owner = "card" /\ recvRing[cardRecv].frame = Nothing
    BY DEF CardBegins, Free
  <1> QED  BY <1>2, <1>3, <1>4, <1>6, <1>7, <1>8

(* A frame that has arrived becomes the driver's.                          *)
LEMMA ArrivesIs ==
    ASSUME IInv, CardReceive
    PROVE  /\ recvRing' \in [Slots -> Descriptor(Frames \union Damaged)]
           /\ recvRing[cardRecv].owner = "card" /\ recvRing[cardRecv].frame # Nothing
           /\ \A j \in Slots :
                 /\ recvRing'[j].owner = IF j = cardRecv THEN "driver" ELSE recvRing[j].owner
                 /\ recvRing'[j].frame = recvRing[j].frame
                 /\ recvRing'[j].intact = recvRing[j].intact
           /\ cardRecv' = After(cardRecv) /\ cardRecv' \in Slots
           /\ UNCHANGED <<sendVars, currentRecvBuffer, handling, received>>
  <1>1. /\ recvRing \in [Slots -> Descriptor(Frames \union Damaged)] /\ cardRecv \in Slots
    BY Typed DEF IInv
  <1>2. recvRing' = [recvRing EXCEPT ![cardRecv].owner = "driver"]
        /\ recvRing[cardRecv].owner = "card" /\ recvRing[cardRecv].frame # Nothing
    BY DEF CardReceive
  <1>3. PICK d \in Descriptor(Frames \union Damaged) : d = recvRing[cardRecv]
    BY <1>1
  <1>4. PICK e : /\ e = [d EXCEPT !.owner = "driver"]
                 /\ e \in Descriptor(Frames \union Damaged)
                 /\ e.owner = "driver" /\ e.frame = d.frame /\ e.intact = d.intact
    <2> DEFINE h == [d EXCEPT !.owner = "driver"]
    <2>1. /\ h \in Descriptor(Frames \union Damaged)
          /\ h.owner = "driver" /\ h.frame = d.frame /\ h.intact = d.intact
      BY DEF Descriptor
    <2> HIDE DEF h
    <2>2. h = [d EXCEPT !.owner = "driver"]
      BY DEF h
    <2> QED  BY <2>1, <2>2
  <1>5. /\ recvRing' \in [Slots -> Descriptor(Frames \union Damaged)]
        /\ \A j \in Slots : recvRing'[j] = IF j = cardRecv THEN e ELSE recvRing[j]
    BY <1>1, <1>2, <1>3, <1>4
  <1>6. ASSUME NEW j \in Slots
        PROVE  /\ recvRing'[j].owner = IF j = cardRecv THEN "driver" ELSE recvRing[j].owner
               /\ recvRing'[j].frame = recvRing[j].frame
               /\ recvRing'[j].intact = recvRing[j].intact
    <2>1. CASE j = cardRecv
      BY <1>3, <1>4, <1>5, <2>1
    <2>2. CASE j # cardRecv
      BY <1>5, <2>2
    <2> QED  BY <2>1, <2>2
  <1> QED  BY <1>1, <1>2, <1>5, <1>6, AfterInSlots DEF CardReceive

(* They keep the invariant.                                                *)
LEMMA CardKeeps ==
    ASSUME IInv, GiveBack \/ Skip \/ CardTransmit \/ CardReceive
                 \/ \E f \in Frames \union Damaged : CardBegins(f)
    PROVE  IInv'
  <1>1. /\ recvRing \in [Slots -> Descriptor(Frames \union Damaged)]
        /\ currentRecvBuffer \in Slots /\ cardRecv \in Slots
        /\ handling \in {"no", "handler", "done"} /\ received \in Items \union {Nothing}
        /\ thread \in Threads /\ overrun \in BOOLEAN /\ currentSendBuffer \in Slots
    BY Typed DEF IInv
  <1>2. /\ \A i \in Slots : recvRing[i].owner = "driver"
                               => recvRing[i].frame \in Frames \union Damaged
        /\ \A i \in Slots : recvRing[i].owner = "card" /\ recvRing[i].frame # Nothing
                               => i = cardRecv
        /\ \A i \in Slots : sendRing[i].owner = "card" => sendRing[i].frame \in Frames
        /\ thread.at # "idle" => thread.frame \in Frames /\ thread.left <= Size[thread.frame]
    BY DEF IInv, Frameful
  <1>3. CASE GiveBack \/ Skip
    <2>1. Advance
      BY <1>3 DEF GiveBack, Skip
    <2>2. /\ recvRing' \in [Slots -> Descriptor(Frames \union Damaged)]
          /\ Replaced(recvRing', recvRing, currentRecvBuffer, "card", Nothing, TRUE)
          /\ currentRecvBuffer' \in Slots
          /\ handling' = "no" /\ UNCHANGED <<sendVars, cardRecv, received>>
      BY <2>1, AdvanceIs
    <2>3. Held'
      BY <2>2 DEF Held
    <2>4. /\ \A i \in Slots : recvRing'[i].owner = "driver"
                                 => recvRing'[i].frame \in Frames \union Damaged
          /\ \A i \in Slots : recvRing'[i].owner = "card" /\ recvRing'[i].frame # Nothing
                                 => i = cardRecv'
      BY <1>2, <2>2 DEF Replaced
    <2> QED  BY <1>1, <2>2, <2>3, <2>4, RecvKeepsIInv
  <1>4. CASE CardTransmit
    <2>1. /\ sendRing' \in [Slots -> Descriptor(Frames)]
          /\ Replaced(sendRing', sendRing, cardSend, "driver", Nothing, TRUE)
          /\ cardSend' \in Slots /\ sent' \in Items
      BY <1>4, TransmitIs
    <2>2. \A i \in Slots : sendRing'[i].owner = "card" => sendRing'[i].frame \in Frames
      BY <1>2, <2>1 DEF Replaced
    <2> QED
      BY <1>1, <1>2, <1>4, <2>1, <2>2, SendKeepsIInv DEF CardTransmit, recvVars
  <1>5. CASE CardReceive
    <2>1. /\ recvRing' \in [Slots -> Descriptor(Frames \union Damaged)]
          /\ \A j \in Slots :
                /\ recvRing'[j].owner = IF j = cardRecv THEN "driver" ELSE recvRing[j].owner
                /\ recvRing'[j].frame = recvRing[j].frame
                /\ recvRing'[j].intact = recvRing[j].intact
          /\ cardRecv' \in Slots
          /\ UNCHANGED <<sendVars, currentRecvBuffer, handling, received>>
      BY <1>5, ArrivesIs
    <2>2. recvRing[cardRecv].frame \in Frames \union Damaged
      <3>1. recvRing[cardRecv].frame # Nothing
        BY <1>5, ArrivesIs
      <3>2. recvRing[cardRecv] \in Descriptor(Frames \union Damaged)
        BY <1>1
      <3> QED  BY <3>1, <3>2 DEF Descriptor
    <2>3. /\ \A i \in Slots : recvRing'[i].owner = "driver"
                                 => recvRing'[i].frame \in Frames \union Damaged
          /\ \A i \in Slots : recvRing'[i].owner = "card" /\ recvRing'[i].frame # Nothing
                                 => i = cardRecv'
      BY <1>2, <2>1, <2>2
    <2>4. Held'
      <3>1. Arrived' = Arrived
        BY <2>1 DEF Arrived
      <3>2. Undisturbed(currentRecvBuffer) => Undisturbed(currentRecvBuffer)'
        BY <1>1, <2>1, <3>1 DEF Undisturbed, Arrived
      <3> QED  BY <1>1, <2>1, <3>2 DEF Held, IInv
    <2> QED  BY <1>1, <2>1, <2>3, <2>4, RecvKeepsIInv
  <1>6. ASSUME NEW f \in Frames \union Damaged, CardBegins(f) PROVE IInv'
    <2>1. PICK ring \in [Slots -> Descriptor(Frames \union Damaged)] :
              /\ OnlySpoilt(ring, recvRing, RecvStart, Lines(RecvStart, cardRecv, f))
              /\ Replaced(recvRing', ring, cardRecv, "card", f, TRUE)
      BY <1>6, BeginsIs
    <2>2. /\ recvRing' \in [Slots -> Descriptor(Frames \union Damaged)]
          /\ recvRing[cardRecv].owner = "card" /\ recvRing[cardRecv].frame = Nothing
      BY <1>6, BeginsIs
    <2>3. UNCHANGED <<sendVars, currentRecvBuffer, cardRecv, handling, received>>
      BY <1>6 DEF CardBegins
    <2>4. \A j \in Slots :
              /\ recvRing'[j].owner = recvRing[j].owner
              /\ recvRing'[j].frame = IF j = cardRecv THEN f ELSE recvRing[j].frame
              /\ j # cardRecv =>
                    \/ recvRing'[j].intact = recvRing[j].intact
                    \/ Lines(RecvStart, j, recvRing[j].frame) \cap
                          Lines(RecvStart, cardRecv, f) # {}
      BY <2>1, <2>2 DEF OnlySpoilt, Replaced
    <2>5. /\ \A i \in Slots : recvRing'[i].owner = "driver"
                                 => recvRing'[i].frame \in Frames \union Damaged
          /\ \A i \in Slots : recvRing'[i].owner = "card" /\ recvRing'[i].frame # Nothing
                                 => i = cardRecv'
      BY <1>2, <2>2, <2>3, <2>4
    <2>6. f # Nothing /\ cardRecv \in Arrived' /\ recvRing'[cardRecv].frame = f
      BY <1>1, <2>4, NothingAssumption DEF Arrived
    <2>7. ASSUME handling # "no" PROVE Undisturbed(currentRecvBuffer)'
      <3>1. /\ recvRing[currentRecvBuffer].owner = "driver"
            /\ recvRing[currentRecvBuffer].frame = received.frame
            /\ Undisturbed(currentRecvBuffer)
        BY <2>7 DEF IInv, Held
      <3>2. currentRecvBuffer # cardRecv
        BY <2>2, <3>1
      <3>3. CASE recvRing'[currentRecvBuffer].intact # recvRing[currentRecvBuffer].intact
        <4>1. Overlap(RecvStart, currentRecvBuffer, received.frame, cardRecv, f)
          BY <1>1, <2>4, <3>1, <3>2, <3>3 DEF Overlap
        <4> QED  BY <2>3, <2>6, <3>2, <4>1 DEF Undisturbed
      <3>4. CASE recvRing'[currentRecvBuffer].intact = recvRing[currentRecvBuffer].intact
        <4>1. CASE recvRing[currentRecvBuffer].intact = received.intact
          BY <2>3, <3>4, <4>1 DEF Undisturbed
        <4>2. CASE \E j \in Arrived \ {currentRecvBuffer} :
                      Overlap(RecvStart, currentRecvBuffer, received.frame,
                              j, recvRing[j].frame)
          <5>1. PICK j \in Arrived \ {currentRecvBuffer} :
                    Overlap(RecvStart, currentRecvBuffer, received.frame,
                            j, recvRing[j].frame)
            BY <4>2
          <5>2. j \in Slots /\ j # cardRecv /\ recvRing[j].frame # Nothing
            BY <2>2 DEF Arrived
          <5>3. j \in Arrived' /\ recvRing'[j].frame = recvRing[j].frame
            BY <2>4, <5>2 DEF Arrived
          <5> QED  BY <2>3, <5>1, <5>3 DEF Undisturbed
        <4> QED  BY <3>1, <4>1, <4>2 DEF Undisturbed
      <3> QED  BY <3>3, <3>4
    <2>8. Held'
      <3>1. handling # "no" => recvRing[currentRecvBuffer].owner = "driver"
        BY DEF IInv, Held
      <3> QED  BY <1>1, <2>2, <2>3, <2>4, <2>7, <3>1 DEF Held, IInv
    <2> QED  BY <1>1, <2>2, <2>3, <2>5, <2>8, RecvKeepsIInv
  <1> QED  BY <1>3, <1>4, <1>5, <1>6

(* Each step keeps the invariant.                                          *)
LEMMA NextIInv == IInv /\ [CardNext]_cardVars => IInv'
  <1> SUFFICES ASSUME IInv, [CardNext]_cardVars PROVE IInv'
    OBVIOUS
  <1>1. CASE UNCHANGED cardVars
    BY <1>1 DEF cardVars, sendVars, recvVars, IInv, CardTypeOK, Held, Frameful,
                Undisturbed, Arrived
  <1> QED  BY <1>1, ThreadKeeps, HandlerKeeps, CardKeeps DEF CardNext

(* The invariant holds always.                                             *)
LEMMA AlwaysIInv == CardSpec => []IInv
  BY InitIInv, NextIInv, PTL DEF CardSpec

(* The state of driver and card is well formed, for rings of any size, any *)
(* frames and buffers wherever they lie (amd_am79c973.h).                  *)
THEOREM CardTypeCorrect == CardSpec => []CardTypeOK
  <1>1. IInv => CardTypeOK
    BY DEF IInv
  <1>2. QED BY <1>1, AlwaysIInv, PTL

(* A frame that is handled is never given to the card meanwhile, and is as *)
(* it was handed up unless another that overlaps it has arrived            *)
(* (amd_am79c973.cpp:100, 214-220).                                        *)
THEOREM HandledFrameHeld == CardSpec => []FrameHeldWhileHandled
  <1>1. IInv => FrameHeldWhileHandled
    BY DEF IInv, Held, Undisturbed, FrameHeldWhileHandled
  <1>2. QED BY <1>1, AlwaysIInv, PTL

-----------------------------------------------------------------------------
(* Places on a ring                                                        *)

(* The place k descriptors behind c, and how far i is behind c.            *)
At(c, k) == IF c + k < RingSize THEN c + k ELSE (c + k) - RingSize
Dist(c, i) == IF i >= c THEN i - c ELSE (i - c) + RingSize

(* The remainder of the code finds that place, ...                         *)
LEMMA AtIs ==
    ASSUME NEW c \in Slots, NEW k \in 0 .. RingSize
    PROVE  (c + k) % RingSize = At(c, k) /\ At(c, k) \in Slots
  <1>1. \A R \in Nat \ {0} : \A m \in 0 .. R - 1 : m % R = m
    OBVIOUS
  <1>2. \A R \in Nat \ {0} : \A m \in R .. (R + R) - 1 : m % R = m - R
    OBVIOUS
  <1>3. CASE c + k < RingSize
    <2>1. c + k \in 0 .. RingSize - 1
      BY RingAssumption, <1>3 DEF Slots
    <2> QED  BY RingAssumption, <1>1, <1>3, <2>1 DEF At, Slots
  <1>4. CASE ~(c + k < RingSize)
    <2>1. c + k \in RingSize .. (RingSize + RingSize) - 1
      BY RingAssumption, <1>4 DEF Slots
    <2>2. (c + k) % RingSize = (c + k) - RingSize
      BY RingAssumption, <1>2, <2>1
    <2>3. (c + k) - RingSize \in Slots
      BY RingAssumption, <2>1 DEF Slots
    <2> QED  BY <1>4, <2>2, <2>3 DEF At
  <1> QED  BY <1>3, <1>4

(* ... the place after c is the first behind it, ...                       *)
LEMMA AfterIs ==
    ASSUME NEW c \in Slots
    PROVE  After(c) = At(c, 1) /\ At(c, 1) \in Slots
  <1>1. 1 \in 0 .. RingSize
    BY RingAssumption
  <1> QED  BY <1>1, AtIs DEF After

(* ... and the two undo each other, ...                                    *)
LEMMA DistAt ==
    ASSUME NEW c \in Slots, NEW k \in 0 .. RingSize - 1
    PROVE  Dist(c, At(c, k)) = k
  BY RingAssumption DEF At, Dist, Slots

(* ... either way.                                                         *)
LEMMA AtDist ==
    ASSUME NEW c \in Slots, NEW i \in Slots
    PROVE  At(c, Dist(c, i)) = i /\ Dist(c, i) \in 0 .. RingSize - 1
  BY RingAssumption DEF At, Dist, Slots

(* A step ahead, every place but the one that was left is one nearer, ...  *)
LEMMA DistNext ==
    ASSUME NEW c \in Slots, NEW i \in Slots
    PROVE  Dist(At(c, 1), i) = IF i = c THEN RingSize - 1 ELSE Dist(c, i) - 1
  BY RingAssumption DEF At, Dist, Slots

(* ... and what is k + 1 ahead of a place is k ahead of the next.          *)
LEMMA AtNext ==
    ASSUME NEW c \in Slots, NEW k \in 0 .. RingSize - 1
    PROVE  At(At(c, 1), k) = At(c, k + 1) /\ At(At(c, k), 1) = At(c, k + 1)
  BY RingAssumption DEF At, Slots

-----------------------------------------------------------------------------
(* A part of a ring: the n descriptors from c on                           *)

Filled(c, n, S) == \A i \in Slots : i \in S <=> Dist(c, i) < n

(* Run finds it, ...                                                       *)
LEMMA RunIs ==
    ASSUME NEW c \in Slots, NEW n \in 0 .. RingSize, NEW S, Filled(c, n, S)
    PROVE  Run(c, S) = [k \in 1 .. n |-> At(c, k - 1)]
  <1> DEFINE slot(k) == (c + k) % RingSize
             lengths == {m \in 0 .. RingSize : \A k \in 0 .. m - 1 : slot(k) \in S}
             longest == CHOOSE m \in lengths : \A j \in lengths : j <= m
  <1>1. \A k \in 0 .. RingSize - 1 :
            slot(k) = At(c, k) /\ At(c, k) \in Slots /\ (At(c, k) \in S <=> k < n)
    <2> TAKE k \in 0 .. RingSize - 1
    <2>1. k \in 0 .. RingSize
      BY RingAssumption
    <2> QED  BY <2>1, AtIs, DistAt DEF Filled
  <1>2. lengths = 0 .. n
    <2> HIDE DEF slot
    <2>1. ASSUME NEW m \in 0 .. RingSize
          PROVE  (\A k \in 0 .. m - 1 : slot(k) \in S) <=> m <= n
      <3>1. CASE m <= n
        <4>1. \A k \in 0 .. m - 1 : k \in 0 .. RingSize - 1 /\ k < n
          BY RingAssumption, <3>1
        <4> QED  BY <1>1, <3>1, <4>1
      <3>2. CASE ~(m <= n)
        <4>1. n \in 0 .. m - 1 /\ n \in 0 .. RingSize - 1 /\ ~(n < n)
          BY RingAssumption, <3>2
        <4> QED  BY <1>1, <3>2, <4>1
      <3> QED  BY <3>1, <3>2
    <2>2. \A m \in Nat : m \in 0 .. n <=> m \in 0 .. RingSize /\ m <= n
      BY RingAssumption
    <2>3. \A m \in 0 .. RingSize : m \in Nat
      OBVIOUS
    <2>4. \A m \in 0 .. n : m \in Nat
      OBVIOUS
    <2> QED  BY <2>1, <2>2, <2>3, <2>4
  <1> HIDE DEF lengths
  <1>3. longest = n
    <2>1. n \in lengths /\ \A j \in lengths : j <= n
      BY <1>2
    <2>2. \A m \in lengths : (\A j \in lengths : j <= m) => m = n
      BY <1>2, <2>1
    <2> QED  BY <2>1, <2>2
  <1>4. Run(c, S) = [k \in 1 .. longest |-> slot(k - 1)]
    BY DEF Run, lengths
  <1> HIDE DEF longest, slot
  <1>5. \A k \in 1 .. n : k - 1 \in 0 .. RingSize - 1
    BY RingAssumption
  <1> QED  BY <1>1, <1>3, <1>4, <1>5

(* ... it grows behind its end, ...                                        *)
LEMMA FilledPut ==
    ASSUME NEW c \in Slots, NEW n \in 0 .. RingSize, NEW S, Filled(c, n, S),
           At(c, n) \notin S
    PROVE  n < RingSize /\ At(c, n) \in Slots /\ Filled(c, n + 1, S \union {At(c, n)})
  <1>1. At(c, n) \in Slots
    BY AtIs
  <1>2. n < RingSize
    BY <1>1, AtDist, RingAssumption DEF Filled
  <1>3. n \in 0 .. RingSize - 1
    BY <1>2, RingAssumption
  <1>4. ASSUME NEW i \in Slots
        PROVE  i \in S \union {At(c, n)} <=> Dist(c, i) < n + 1
    <2>1. Dist(c, i) \in 0 .. RingSize - 1 /\ At(c, Dist(c, i)) = i
      BY AtDist
    <2>2. Dist(c, At(c, n)) = n
      BY <1>3, DistAt
    <2>3. Dist(c, i) < n + 1 <=> Dist(c, i) < n \/ Dist(c, i) = n
      BY <2>1
    <2>4. Dist(c, i) = n <=> i = At(c, n)
      BY <2>1, <2>2
    <2> QED  BY <2>3, <2>4 DEF Filled
  <1> QED  BY <1>1, <1>2, <1>4 DEF Filled

(* ... is full where its end meets its beginning, ...                      *)
LEMMA FilledFull ==
    ASSUME NEW c \in Slots, NEW n \in 0 .. RingSize, NEW S, Filled(c, n, S),
           At(c, n) \in S
    PROVE  n = RingSize
  <1> SUFFICES ASSUME n # RingSize PROVE FALSE
    OBVIOUS
  <1>1. n \in 0 .. RingSize - 1
    BY RingAssumption
  <1>2. Dist(c, At(c, n)) = n /\ At(c, n) \in Slots
    BY <1>1, DistAt, AtIs
  <1>3. ~(n < n)
    OBVIOUS
  <1> QED  BY <1>2, <1>3 DEF Filled

(* ... and shrinks at its beginning.                                       *)
LEMMA FilledTake ==
    ASSUME NEW c \in Slots, NEW n \in 0 .. RingSize, NEW S, Filled(c, n, S), c \in S
    PROVE  n \in 1 .. RingSize /\ Filled(At(c, 1), n - 1, S \ {c})
  <1>1. Dist(c, c) = 0
    BY DEF Dist, Slots
  <1>2. n \in 1 .. RingSize
    BY <1>1 DEF Filled
  <1>3. ASSUME NEW i \in Slots
        PROVE  i \in S \ {c} <=> Dist(At(c, 1), i) < n - 1
    <2>1. Dist(c, i) \in 0 .. RingSize - 1
      BY AtDist
    <2>2. Dist(At(c, 1), i) = IF i = c THEN RingSize - 1 ELSE Dist(c, i) - 1
      BY DistNext
    <2>3. CASE i = c
      BY <1>2, <2>2, <2>3, RingAssumption
    <2>4. CASE i # c
      <3>1. Dist(c, i) - 1 < n - 1 <=> Dist(c, i) < n
        BY <1>2, <2>1
      <3> QED  BY <2>2, <2>4, <3>1 DEF Filled
    <2> QED  BY <2>3, <2>4
  <1> QED  BY <1>2, <1>3 DEF Filled

(* What the descriptors from c on hold, in their order.                    *)
Contents(c, n, g) == [k \in 1 .. n |-> g[At(c, k - 1)]]

(* The descriptors of a part, in their order.                              *)
LEMMA FilledPlaces ==
    ASSUME NEW c \in Slots, NEW n \in 0 .. RingSize, NEW S, Filled(c, n, S)
    PROVE  /\ \A k \in 1 .. n : At(c, k - 1) \in Slots \cap S
           /\ \A k \in 2 .. n : At(c, k - 1) # c
           /\ At(c, 0) = c
  <1>1. ASSUME NEW k \in 1 .. n
        PROVE  At(c, k - 1) \in Slots \cap S /\ (k # 1 => At(c, k - 1) # c)
    <2>1. k - 1 \in 0 .. RingSize - 1 /\ k - 1 \in 0 .. RingSize
      BY RingAssumption
    <2>2. At(c, k - 1) \in Slots /\ Dist(c, At(c, k - 1)) = k - 1
      BY <2>1, AtIs, DistAt
    <2>3. k - 1 < n
      BY RingAssumption
    <2>4. Dist(c, c) = 0
      BY DEF Dist, Slots
    <2> QED  BY <2>2, <2>3, <2>4 DEF Filled
  <1>2. \A k \in 2 .. n : k \in 1 .. n /\ k # 1
    BY RingAssumption
  <1>3. At(c, 0) = c
    BY RingAssumption DEF At, Slots
  <1> QED  BY <1>1, <1>2, <1>3

(* What a run of descriptors holds.                                        *)
LEMMA AlongIs ==
    ASSUME NEW c \in Slots, NEW n \in 0 .. RingSize, NEW S, NEW g, Filled(c, n, S)
    PROVE  Along(Run(c, S), g) = Contents(c, n, g)
  <1>1. Run(c, S) = [k \in 1 .. n |-> At(c, k - 1)]
    BY RunIs
  <1> QED  BY <1>1 DEF Along, Contents

(* All descriptors of a part hold members of C; two rings agree on a part   *)
(* but for one descriptor.                                                 *)
Hold(S, g, C) == \A i \in Slots : i \in S => g[i] \in C
AgreeBut(S, c, g, h) == \A i \in Slots : i \in S /\ i # c => h[i] = g[i]

(* The contents of a part are a sequence as long as the part, ...          *)
LEMMA ContentsSeq ==
    ASSUME NEW C, NEW c \in Slots, NEW n \in 0 .. RingSize, NEW S, NEW g,
           Filled(c, n, S), Hold(S, g, C)
    PROVE  /\ Contents(c, n, g) \in Seq(C)
           /\ Len(Contents(c, n, g)) = n
           /\ \A k \in 1 .. n : Contents(c, n, g)[k] = g[At(c, k - 1)]
  <1>1. n \in Nat
    BY RingAssumption
  <1>2. \A k \in 1 .. n : g[At(c, k - 1)] \in C
    BY FilledPlaces DEF Hold
  <1> QED  BY <1>1, <1>2 DEF Contents

(* ... to which a frame behind its end is appended, ...                    *)
LEMMA ContentsPut ==
    ASSUME NEW C, NEW c \in Slots, NEW n \in 0 .. RingSize, NEW S, NEW g, NEW h,
           Filled(c, n, S), At(c, n) \notin S, Hold(S, g, C),
           AgreeBut(S, At(c, n), g, h), h[At(c, n)] \in C
    PROVE  /\ Contents(c, n + 1, h) = Append(Contents(c, n, g), h[At(c, n)])
           /\ Contents(c, n, g) \in Seq(C)
           /\ Len(Contents(c, n, g)) = n
  <1>1. n < RingSize /\ Filled(c, n + 1, S \union {At(c, n)})
    BY FilledPut
  <1>2. n \in Nat /\ n + 1 \in 0 .. RingSize
    BY <1>1, RingAssumption
  <1>3. /\ Contents(c, n, g) \in Seq(C)
        /\ Len(Contents(c, n, g)) = n
        /\ \A k \in 1 .. n : Contents(c, n, g)[k] = g[At(c, k - 1)]
    BY ContentsSeq
  <1>4. Hold(S \union {At(c, n)}, h, C)
    BY DEF Hold, AgreeBut
  <1>5. /\ Contents(c, n + 1, h) \in Seq(C)
        /\ Len(Contents(c, n + 1, h)) = n + 1
        /\ \A k \in 1 .. n + 1 : Contents(c, n + 1, h)[k] = h[At(c, k - 1)]
    BY <1>1, <1>2, <1>4, ContentsSeq
  <1>6. \A k \in 1 .. n : h[At(c, k - 1)] = g[At(c, k - 1)]
    BY FilledPlaces DEF AgreeBut
  <1>7. PICK s \in Seq(C), t \in Seq(C), e \in C :
            s = Contents(c, n, g) /\ t = Contents(c, n + 1, h) /\ e = h[At(c, n)]
    BY <1>3, <1>5
  <1>8. /\ Append(s, e) \in Seq(C)
        /\ Len(Append(s, e)) = n + 1
        /\ \A k \in 1 .. n : Append(s, e)[k] = s[k]
        /\ Append(s, e)[n + 1] = e
    BY <1>3, <1>7, AppendProperties
  <1>9. ASSUME NEW k \in 1 .. n + 1 PROVE t[k] = Append(s, e)[k]
    <2>1. CASE k \in 1 .. n
      BY <1>3, <1>5, <1>6, <1>7, <1>8, <2>1
    <2>2. CASE k = n + 1
      <3>1. k - 1 = n
        BY <1>2, <2>2
      <3> QED  BY <1>5, <1>7, <1>8, <2>2, <3>1
    <2>3. k \in 1 .. n \/ k = n + 1
      BY <1>2
    <2> QED  BY <2>1, <2>2, <2>3
  <1>10. t = Append(s, e)
    BY <1>5, <1>7, <1>8, <1>9, SeqEqual
  <1> QED  BY <1>3, <1>7, <1>10

(* ... and which loses its head where the part loses its first descriptor. *)
LEMMA ContentsTake ==
    ASSUME NEW C, NEW c \in Slots, NEW n \in 0 .. RingSize, NEW S, NEW g, NEW h,
           Filled(c, n, S), c \in S, Hold(S, g, C), AgreeBut(S, c, g, h)
    PROVE  /\ Contents(c, n, g) \in Seq(C)
           /\ Contents(c, n, g) # <<>>
           /\ Head(Contents(c, n, g)) = g[c]
           /\ Tail(Contents(c, n, g)) = Contents(At(c, 1), n - 1, h)
  <1>1. n \in 1 .. RingSize /\ Filled(At(c, 1), n - 1, S \ {c})
    BY FilledTake
  <1>2. n \in Nat /\ n - 1 \in 0 .. RingSize /\ At(c, 1) \in Slots
    BY <1>1, RingAssumption, AfterIs
  <1>3. /\ Contents(c, n, g) \in Seq(C)
        /\ Len(Contents(c, n, g)) = n
        /\ \A k \in 1 .. n : Contents(c, n, g)[k] = g[At(c, k - 1)]
    BY ContentsSeq
  <1>4. ASSUME NEW k \in 1 .. n - 1
        PROVE  h[At(At(c, 1), k - 1)] = g[At(c, (k + 1) - 1)]
    <2>1. k - 1 \in 0 .. RingSize - 1 /\ k + 1 \in 2 .. n
      BY <1>1, RingAssumption
    <2>2. k + 1 \in 1 .. n /\ (k - 1) + 1 = (k + 1) - 1
      BY <1>1
    <2>3. At(At(c, 1), k - 1) = At(c, (k + 1) - 1)
      BY <2>1, <2>2, AtNext
    <2>4. At(c, (k + 1) - 1) \in Slots \cap S /\ At(c, (k + 1) - 1) # c
      BY <2>1, <2>2, FilledPlaces
    <2> QED  BY <2>3, <2>4 DEF AgreeBut
  <1>5. \A k \in 1 .. n - 1 : k + 1 \in 1 .. n
    BY <1>1
  <1>6. Hold(S \ {c}, h, C)
    BY DEF Hold, AgreeBut
  <1>7. /\ Contents(At(c, 1), n - 1, h) \in Seq(C)
        /\ Len(Contents(At(c, 1), n - 1, h)) = n - 1
        /\ \A k \in 1 .. n - 1 :
              Contents(At(c, 1), n - 1, h)[k] = h[At(At(c, 1), k - 1)]
    BY <1>1, <1>2, <1>6, ContentsSeq
  <1>8. PICK s \in Seq(C), t \in Seq(C) :
            s = Contents(c, n, g) /\ t = Contents(At(c, 1), n - 1, h)
    BY <1>3, <1>7
  <1>9. s # <<>>
    BY <1>1, <1>3, <1>8
  <1>10. Head(s) = g[c]
    <2>1. 1 \in 1 .. n /\ 1 - 1 = 0
      BY <1>1
    <2>2. At(c, 0) = c
      BY FilledPlaces
    <2> QED  BY <1>3, <1>8, <1>9, <2>1, <2>2
  <1>11. Tail(s) \in Seq(C) /\ Len(Tail(s)) = n - 1
         /\ \A k \in 1 .. n - 1 : Tail(s)[k] = s[k + 1]
    BY <1>3, <1>8, <1>9, HeadTailProperties
  <1>12. \A k \in 1 .. n - 1 : Tail(s)[k] = t[k]
    BY <1>3, <1>4, <1>5, <1>7, <1>8, <1>11
  <1>13. Tail(s) = t
    BY <1>7, <1>8, <1>11, <1>12, SeqEqual
  <1> QED  BY <1>3, <1>8, <1>9, <1>10, <1>13

-----------------------------------------------------------------------------
(* What becomes of frames that share memory                                *)

(* Contents that may lose what they held, if w; and pairs of such.         *)
Lost(e) == [frame |-> e.frame, intact |-> FALSE]

KeptOrLost(S, w, g, h) ==
    \A i \in Slots : i \in S => h[i] = g[i] \/ (w /\ h[i] = Lost(g[i]))

Wearing(w, T) == {p \in T \X T : p[2] = p[1] \/ (w /\ p[2] = Lost(p[1]))}

AllItems == [frame : Frames \union Damaged, intact : BOOLEAN]

(* An item that lost its contents is one still, and of the same frame.     *)
LEMMA LostIs ==
    ASSUME NEW e \in AllItems
    PROVE  /\ Lost(e) \in AllItems /\ Lost(e) = [e EXCEPT !.intact = FALSE]
           /\ Lost(e).frame = e.frame
           /\ e \in Items <=> e.frame \in Frames
           /\ e \in Items <=> Lost(e) \in Items
  <1>1. /\ e.frame \in Frames \union Damaged /\ e.intact \in BOOLEAN
        /\ e = [frame |-> e.frame, intact |-> e.intact]
    BY DEF AllItems
  <1>2. Lost(e) \in AllItems /\ Lost(e).frame = e.frame
    BY <1>1 DEF Lost, AllItems
  <1>3. Lost(e) = [e EXCEPT !.intact = FALSE]
    <2> DEFINE h == [e EXCEPT !.intact = FALSE]
    <2>1. h \in AllItems /\ h.frame = e.frame /\ h.intact = FALSE
      BY DEF AllItems
    <2> HIDE DEF h
    <2>2. h = [frame |-> e.frame, intact |-> FALSE]
      BY <2>1 DEF AllItems
    <2> QED  BY <2>2 DEF Lost, h
  <1>4. e \in Items <=> e.frame \in Frames
    BY <1>1 DEF Items
  <1>5. Lost(e) \in Items <=> e.frame \in Frames
    BY <1>1 DEF Lost, Items
  <1> QED  BY <1>2, <1>3, <1>4, <1>5

(* Items are the same when their frames are, and both are intact or not.   *)
LEMMA SameItem ==
    ASSUME NEW p \in AllItems, NEW q \in AllItems, p.frame = q.frame
    PROVE  /\ p.intact = q.intact => p = q
           /\ p.intact = FALSE => p = Lost(q)
  BY DEF AllItems, Lost

(* The contents of a part that may lose what they held.                    *)
LEMMA ContentsResemble ==
    ASSUME NEW T, NEW c \in Slots, NEW n \in 0 .. RingSize, NEW S, NEW g, NEW h,
           NEW w \in BOOLEAN,
           Filled(c, n, S), Hold(S, g, T), Hold(S, h, T), KeptOrLost(S, w, g, h)
    PROVE  /\ Contents(c, n, g) \in Seq(T) /\ Contents(c, n, h) \in Seq(T)
           /\ Len(Contents(c, n, g)) = n
           /\ Resembles(Contents(c, n, g), Contents(c, n, h), Wearing(w, T))
  <1>1. /\ Contents(c, n, g) \in Seq(T)
        /\ Len(Contents(c, n, g)) = n
        /\ \A k \in 1 .. n : Contents(c, n, g)[k] = g[At(c, k - 1)]
    BY ContentsSeq
  <1>2. /\ Contents(c, n, h) \in Seq(T)
        /\ Len(Contents(c, n, h)) = n
        /\ \A k \in 1 .. n : Contents(c, n, h)[k] = h[At(c, k - 1)]
    BY ContentsSeq
  <1>3. ASSUME NEW k \in 1 .. n
        PROVE  <<Contents(c, n, g)[k], Contents(c, n, h)[k]>> \in Wearing(w, T)
    <2>1. PICK j \in Slots : j = At(c, k - 1) /\ j \in S
      BY FilledPlaces
    <2>2. g[j] \in T /\ h[j] \in T /\ (h[j] = g[j] \/ (w /\ h[j] = Lost(g[j])))
      BY <2>1 DEF Hold, KeptOrLost
    <2>3. <<g[j], h[j]>> \in Wearing(w, T)
      BY <2>2 DEF Wearing
    <2> QED  BY <1>1, <1>2, <2>1, <2>3
  <1>4. Resembles(Contents(c, n, g), Contents(c, n, h), Wearing(w, T))
    BY <1>1, <1>2, <1>3 DEF Resembles
  <1> QED  BY <1>1, <1>2, <1>4

(* The contents behind whose end a frame was put.                          *)
LEMMA ContentsGrow ==
    ASSUME NEW T, NEW c \in Slots, NEW n \in 0 .. RingSize, NEW S, NEW g, NEW h,
           NEW w \in BOOLEAN,
           Filled(c, n, S), At(c, n) \notin S, Hold(S, g, T), Hold(S, h, T),
           KeptOrLost(S, w, g, h), h[At(c, n)] \in T
    PROVE  /\ Contents(c, n, g) \in Seq(T) /\ Contents(c, n + 1, h) \in Seq(T)
           /\ Len(Contents(c, n, g)) = n
           /\ Resembles(Append(Contents(c, n, g), h[At(c, n)]), Contents(c, n + 1, h),
                        Wearing(w, T))
  <1>1. n < RingSize /\ Filled(c, n + 1, S \union {At(c, n)}) /\ At(c, n) \in Slots
    BY FilledPut
  <1>2. n + 1 \in 0 .. RingSize
    BY <1>1, RingAssumption
  <1> DEFINE m == [i \in Slots |-> IF i = At(c, n) THEN h[i] ELSE g[i]]
  <1>3. PICK d : d = m
    OBVIOUS
  <1>4. /\ d[At(c, n)] = h[At(c, n)] /\ AgreeBut(S, At(c, n), g, d)
        /\ Hold(S \union {At(c, n)}, d, T) /\ Hold(S \union {At(c, n)}, h, T)
        /\ KeptOrLost(S \union {At(c, n)}, w, d, h)
    BY <1>1, <1>3 DEF AgreeBut, Hold, KeptOrLost
  <1>5. d[At(c, n)] \in T
    BY <1>4
  <1>6. /\ Contents(c, n + 1, d) = Append(Contents(c, n, g), d[At(c, n)])
        /\ Contents(c, n, g) \in Seq(T)
        /\ Len(Contents(c, n, g)) = n
    BY <1>4, <1>5, ContentsPut
  <1>7. /\ Contents(c, n + 1, h) \in Seq(T)
        /\ Resembles(Contents(c, n + 1, d), Contents(c, n + 1, h), Wearing(w, T))
    BY <1>1, <1>2, <1>4, ContentsResemble
  <1> QED  BY <1>4, <1>6, <1>7

(* That is what FrameQueue means.                                          *)
Worn(q, r, w) ==
    /\ Len(r) = Len(q)
    /\ \A k \in 1 .. Len(q) :
          r[k] = q[k] \/ (w /\ r[k] = [q[k] EXCEPT !.intact = FALSE])

(* A sequence of items that resembles another is that one, worn.           *)
LEMMA ResemblesIsWorn ==
    ASSUME NEW q \in Seq(AllItems), NEW r, NEW w \in BOOLEAN,
           Resembles(q, r, Wearing(w, AllItems))
    PROVE  Worn(q, r, w)
  <1>1. Len(r) = Len(q)
    BY DEF Resembles
  <1>2. ASSUME NEW k \in 1 .. Len(q)
        PROVE  r[k] = q[k] \/ (w /\ r[k] = [q[k] EXCEPT !.intact = FALSE])
    <2>1. <<q[k], r[k]>> \in Wearing(w, AllItems)
      BY DEF Resembles
    <2>2. q[k] \in AllItems /\ (r[k] = q[k] \/ (w /\ r[k] = Lost(q[k])))
      BY <2>1 DEF Wearing
    <2> QED  BY <2>2, LostIs
  <1> QED  BY <1>1, <1>2 DEF Worn

(* What becomes of an item does not change whether it is a whole frame.    *)
LEMMA WearingFaithful ==
    ASSUME NEW w \in BOOLEAN
    PROVE  Faithful(Wearing(w, AllItems), AllItems, Items)
  <1>1. ASSUME NEW p \in AllItems, NEW q \in AllItems, <<p, q>> \in Wearing(w, AllItems)
        PROVE  p \in Items <=> q \in Items
    <2>1. q = p \/ q = Lost(p)
      BY <1>1 DEF Wearing
    <2> QED  BY <2>1, LostIs
  <1> QED  BY <1>1 DEF Faithful

(* Two slots of which the frames overlap crowd a ring.                     *)
LEMMA CrowdedBy ==
    ASSUME NEW S, NEW start, NEW g, NEW i \in S, NEW j \in S, i # j,
           Lines(start, i, g[i].frame) \cap Lines(start, j, g[j].frame) # {}
    PROVE  Sharing(S, start, g)
  BY DEF Sharing, Overlap

-----------------------------------------------------------------------------
(* Send is a queue                                                         *)

(* The claimed descriptors are those from the card's place on, up to       *)
(* currentSendBuffer, unless Send was overrun.  A thread that has read     *)
(* currentSendBuffer and not yet advanced it has read the present value,   *)
(* and into the descriptor that it fills nobody has put a frame.           *)
SendPart(n) ==
    /\ Filled(cardSend, n, Claimed)
    /\ currentSendBuffer = At(cardSend, n)
    /\ thread.at = "store" => thread.slot = currentSendBuffer
    /\ thread.at = "fill" => sendRing[thread.slot].owner = "driver"

SendInv == ~overrun => \E n \in 0 .. RingSize : SendPart(n)

SendCrowded == Sharing(Claimed, SendStart, ClaimedItems)

(* No descriptor is claimed at the start, and the queue is empty.          *)
LEMMA InitSend == CardInit => SendInv /\ SendQueue!Init
  <1> SUFFICES ASSUME CardInit PROVE SendInv /\ SendQueue!Init
    OBVIOUS
  <1>1. 0 \in Slots /\ 0 \in 0 .. RingSize
    BY RingAssumption DEF Slots
  <1>2. cardSend = 0 /\ currentSendBuffer = 0 /\ thread.at = "idle" /\ ~overrun
    BY DEF CardInit, Idle
  <1>3. Claimed = {}
    BY DEF CardInit, Claimed, Idle, Free
  <1>4. Filled(0, 0, {})
    <2>1. \A i \in Slots : ~(Dist(0, i) < 0)
      BY <1>1, AtDist
    <2> QED  BY <2>1 DEF Filled
  <1>5. At(0, 0) = 0
    BY <1>1, <1>4, FilledPlaces
  <1>6. SendPart(0)
    BY <1>2, <1>3, <1>4, <1>5 DEF SendPart
  <1>7. Outgoing = Contents(0, 0, ClaimedItems)
    BY <1>1, <1>2, <1>3, <1>4, AlongIs DEF Outgoing
  <1>8. Contents(0, 0, ClaimedItems) = <<>>
    BY DEF Contents
  <1>9. ~Sharing(Claimed, SendStart, ClaimedItems)
    BY <1>3 DEF Sharing
  <1> QED
    BY <1>1, <1>2, <1>6, <1>7, <1>8, <1>9 DEF SendInv, SendQueue!Init, CardInit

ClaimedHold ==
    Hold(Claimed, ClaimedItems, AllItems) /\ Hold(Claimed, ClaimedItems, Items)

(* What is claimed is a frame, whoever holds it.                           *)
LEMMA ClaimedAreItems == IInv => ClaimedHold
  <1> SUFFICES ASSUME IInv PROVE ClaimedHold
    OBVIOUS
  <1>1. sendRing \in [Slots -> Descriptor(Frames)] /\ thread \in Threads
    BY Typed DEF IInv
  <1>2. ASSUME NEW i \in Slots, i \in Claimed
        PROVE  ClaimedItems[i] \in Items
    <2>1. CASE thread.at = "fill" /\ thread.slot = i
      <3>1. thread.frame \in Frames /\ thread.intact \in BOOLEAN
        BY <1>1, <2>1 DEF IInv, Frameful, Threads
      <3>2. ClaimedItems[i] = Item(thread)
        BY <2>1 DEF ClaimedItems
      <3> QED  BY <3>1, <3>2 DEF Item, Items
    <2>2. CASE ~(thread.at = "fill" /\ thread.slot = i)
      <3>1. sendRing[i].owner = "card" /\ sendRing[i] \in Descriptor(Frames)
        BY <1>1, <1>2, <2>2 DEF Claimed
      <3>2. sendRing[i].frame \in Frames
        BY <3>1 DEF IInv, Frameful
      <3>3. ClaimedItems[i] = Item(sendRing[i])
        BY <2>2 DEF ClaimedItems
      <3> QED  BY <3>1, <3>2, <3>3, ItemIs
    <2> QED  BY <2>1, <2>2
  <1>3. Items \subseteq AllItems
    BY DEF Items, AllItems
  <1> QED  BY <1>2, <1>3 DEF Hold, ClaimedHold

(* An item x is claimed at the end of the part: that is a Put.             *)
LEMMA ClaimIsPut ==
    ASSUME IInv, IInv', NEW n \in 0 .. RingSize, SendPart(n), NEW x \in Items,
           currentSendBuffer \notin Claimed,
           Claimed' = Claimed \union {currentSendBuffer},
           KeptOrLost(Claimed, SendCrowded', ClaimedItems, ClaimedItems'),
           ClaimedItems'[currentSendBuffer] = x,
           currentSendBuffer' = After(currentSendBuffer),
           UNCHANGED <<cardSend, sent, overrun>>, thread'.at # "store",
           thread'.at = "fill" => sendRing'[thread'.slot].owner = "driver"
    PROVE  SendInv' /\ SendQueue!Put(x)
  <1>1. cardSend \in Slots
    BY Typed DEF IInv
  <1>2. Filled(cardSend, n, Claimed) /\ currentSendBuffer = At(cardSend, n)
    BY DEF SendPart
  <1>3. n < RingSize /\ Filled(cardSend, n + 1, Claimed')
    BY <1>1, <1>2, FilledPut
  <1>4. n + 1 \in 0 .. RingSize /\ n \in 0 .. RingSize - 1
    BY <1>3, RingAssumption
  <1>5. currentSendBuffer' = At(cardSend, n + 1)
    BY <1>1, <1>2, <1>4, AtNext, AtIs, AfterIs
  <1>6. SendInv'
    BY <1>3, <1>4, <1>5 DEF SendInv, SendPart
  <1>7. /\ Outgoing = Contents(cardSend, n, ClaimedItems)
        /\ Outgoing' = Contents(cardSend, n + 1, ClaimedItems')
    BY <1>1, <1>2, <1>3, <1>4, AlongIs DEF Outgoing
  <1>8. SendCrowded' \in BOOLEAN
    BY DEF SendCrowded, Sharing
  <1>9. PICK c \in Slots, S \in {Claimed}, g \in {ClaimedItems}, h \in {ClaimedItems'},
             w \in BOOLEAN :
             /\ c = cardSend /\ S = Claimed /\ g = ClaimedItems /\ h = ClaimedItems'
             /\ w = SendCrowded'
    BY <1>1, <1>8
  <1>10. Hold(S, g, AllItems) /\ Hold(S, h, AllItems)
    <2>1. ClaimedHold'
      BY ClaimedAreItems, PTL
    <2> QED  BY <1>9, <2>1, ClaimedAreItems DEF Hold, ClaimedHold
  <1>11. x \in AllItems
    BY DEF Items, AllItems
  <1>12. /\ Filled(c, n, S) /\ At(c, n) \notin S /\ KeptOrLost(S, w, g, h)
         /\ h[At(c, n)] = x
    BY <1>2, <1>9
  <1>13. /\ Contents(c, n, g) \in Seq(AllItems)
         /\ Len(Contents(c, n, g)) = n
         /\ Resembles(Append(Contents(c, n, g), x), Contents(c, n + 1, h),
                      Wearing(w, AllItems))
    BY <1>10, <1>11, <1>12, ContentsGrow
  <1>14. Outgoing = Contents(c, n, g) /\ Outgoing' = Contents(c, n + 1, h)
    BY <1>7, <1>9
  <1>15. SendQueue!MayBecome(Append(Outgoing, x), Outgoing')
    <2>1. PICK q \in Seq(AllItems), r \in {Outgoing'} :
              /\ q = Append(Contents(c, n, g), x) /\ r = Contents(c, n + 1, h)
              /\ Resembles(q, r, Wearing(w, AllItems))
      BY <1>11, <1>13, <1>14, AppendProperties
    <2>2. Worn(q, r, w)
      BY <2>1, ResemblesIsWorn
    <2>3. q = Append(Outgoing, x) /\ r = Outgoing'
      BY <1>14, <2>1
    <2>4. w = Sharing(Claimed, SendStart, ClaimedItems)'
      BY <1>9 DEF SendCrowded
    <2> QED  BY <2>2, <2>3, <2>4 DEF SendQueue!MayBecome, Worn
  <1>16. (thread'.at = "store") = FALSE
    OBVIOUS
  <1> QED  BY <1>3, <1>6, <1>13, <1>14, <1>15, <1>16 DEF SendQueue!Put

(* The claimed descriptors stay, of which some may lose their contents.    *)
LEMMA WriteIsMix ==
    ASSUME IInv, IInv', NEW n \in 0 .. RingSize, SendPart(n),
           Claimed' = Claimed,
           KeptOrLost(Claimed, SendCrowded', ClaimedItems, ClaimedItems'),
           UNCHANGED <<currentSendBuffer, cardSend, sent, overrun>>,
           (thread'.at = "store") = (thread.at = "store"), thread'.at # "store",
           thread'.at = "fill" => sendRing'[thread'.slot].owner = "driver"
    PROVE  SendInv' /\ SendQueue!Mix
  <1>1. cardSend \in Slots /\ Filled(cardSend, n, Claimed)
    BY Typed DEF IInv, SendPart
  <1>2. SendInv'
    BY <1>1 DEF SendInv, SendPart
  <1>3. /\ Outgoing = Contents(cardSend, n, ClaimedItems)
        /\ Outgoing' = Contents(cardSend, n, ClaimedItems')
    BY <1>1, AlongIs DEF Outgoing
  <1>4. SendCrowded' \in BOOLEAN
    BY DEF SendCrowded, Sharing
  <1>5. PICK c \in Slots, S \in {Claimed}, g \in {ClaimedItems}, h \in {ClaimedItems'},
             w \in BOOLEAN :
             /\ c = cardSend /\ S = Claimed /\ g = ClaimedItems /\ h = ClaimedItems'
             /\ w = SendCrowded'
    BY <1>1, <1>4
  <1>6. Hold(S, g, AllItems) /\ Hold(S, h, AllItems)
    <2>1. ClaimedHold'
      BY ClaimedAreItems, PTL
    <2> QED  BY <1>5, <2>1, ClaimedAreItems DEF Hold, ClaimedHold
  <1>7. Filled(c, n, S) /\ KeptOrLost(S, w, g, h)
    BY <1>1, <1>5
  <1>8. /\ Contents(c, n, g) \in Seq(AllItems)
        /\ Resembles(Contents(c, n, g), Contents(c, n, h), Wearing(w, AllItems))
    BY <1>6, <1>7, ContentsResemble
  <1>9. SendQueue!MayBecome(Outgoing, Outgoing')
    <2>1. PICK q \in Seq(AllItems), r \in {Outgoing'} :
              /\ q = Contents(c, n, g) /\ r = Contents(c, n, h)
              /\ Resembles(q, r, Wearing(w, AllItems))
      BY <1>3, <1>5, <1>8
    <2>2. Worn(q, r, w)
      BY <2>1, ResemblesIsWorn
    <2>3. q = Outgoing /\ r = Outgoing'
      BY <1>3, <1>5, <2>1
    <2>4. w = Sharing(Claimed, SendStart, ClaimedItems)'
      BY <1>5 DEF SendCrowded
    <2> QED  BY <2>2, <2>3, <2>4 DEF SendQueue!MayBecome, Worn
  <1> QED  BY <1>2, <1>9 DEF SendQueue!Mix

(* When Send finds its descriptor taken, the callers break the rules.      *)
LEMMA TakenIsBreak ==
    ASSUME IInv, NEW n \in 0 .. RingSize, SendPart(n),
           Taken(currentSendBuffer), overrun'
    PROVE  SendQueue!Break
  <1>1. cardSend \in Slots /\ currentSendBuffer \in Slots
    BY Typed DEF IInv
  <1>2. CASE thread.at = "store"
    BY <1>2 DEF SendQueue!Break
  <1>3. CASE thread.at # "store"
    <2>1. currentSendBuffer \in Claimed /\ currentSendBuffer = At(cardSend, n)
      BY <1>1, <1>3 DEF Taken, Claimed, SendPart
    <2>2. n = RingSize
      BY <1>1, <2>1, FilledFull DEF SendPart
    <2>3. Outgoing = Contents(cardSend, n, ClaimedItems)
      BY <1>1, AlongIs DEF Outgoing, SendPart
    <2>4. Len(Outgoing) = RingSize
      <3>1. /\ Contents(cardSend, n, ClaimedItems) \in Seq(AllItems)
            /\ Len(Contents(cardSend, n, ClaimedItems)) = n
        BY <1>1, ClaimedAreItems, ContentsSeq DEF SendPart, ClaimedHold
      <3> QED  BY <2>2, <2>3, <3>1
    <2> QED  BY <2>4 DEF SendQueue!Break
  <1> QED  BY <1>2, <1>3

(* A claimed descriptor that is still claimed is worn at most by one that  *)
(* shares lines with it.                                                   *)
LEMMA WornSlot ==
    ASSUME IInv, IInv', NEW i \in Slots, NEW j \in Slots, i # j,
           i \in Claimed, i \in Claimed', j \in Claimed',
           ClaimedItems'[i].frame = ClaimedItems[i].frame,
           \/ ClaimedItems'[i].intact = ClaimedItems[i].intact
           \/ /\ ClaimedItems'[i].intact = FALSE
              /\ Lines(SendStart, i, ClaimedItems[i].frame)
                     \cap Lines(SendStart, j, ClaimedItems'[j].frame) # {}
    PROVE  \/ ClaimedItems'[i] = ClaimedItems[i]
           \/ SendCrowded' /\ ClaimedItems'[i] = Lost(ClaimedItems[i])
  <1>1. ClaimedHold /\ ClaimedHold'
    BY ClaimedAreItems, PTL
  <1>2. PICK p \in AllItems, q \in AllItems : p = ClaimedItems'[i] /\ q = ClaimedItems[i]
    BY <1>1 DEF ClaimedHold, Hold
  <1>3. p.frame = q.frame
    BY <1>2
  <1>4. (p.intact = q.intact => p = q) /\ (p.intact = FALSE => p = Lost(q))
    BY <1>3, SameItem
  <1>5. CASE ClaimedItems'[i].intact = ClaimedItems[i].intact
    BY <1>2, <1>4, <1>5
  <1>6. CASE /\ ClaimedItems'[i].intact = FALSE
             /\ Lines(SendStart, i, ClaimedItems[i].frame)
                    \cap Lines(SendStart, j, ClaimedItems'[j].frame) # {}
    <2>1. SendCrowded'
      BY <1>6, CrowdedBy DEF SendCrowded
    <2> QED  BY <1>2, <1>4, <1>6, <2>1
  <1> QED  BY <1>5, <1>6

(* A whole Send puts its frame or breaks the rules.                        *)
LEMMA SendWholeStep ==
    ASSUME IInv, IInv', NEW n \in 0 .. RingSize, SendPart(n), ~overrun,
           NEW f \in Frames, NEW b \in BOOLEAN, SendWhole(f, b)
    PROVE  SendInv' /\ ((\E x \in Items : SendQueue!Put(x)) \/ SendQueue!Break)
  <1>1. CASE Taken(currentSendBuffer)
    BY <1>1, TakenIsBreak DEF SendWhole, SendInv
  <1>2. CASE ~Taken(currentSendBuffer)
    <2>1. /\ sendRing \in [Slots -> Descriptor(Frames)] /\ currentSendBuffer \in Slots
          /\ thread \in Threads /\ thread.slot \in Slots /\ overrun \in BOOLEAN
      BY Typed DEF IInv
    <2>2. /\ sendRing[currentSendBuffer].owner # "card"
          /\ thread.at \in {"store", "fill"} => thread.slot # currentSendBuffer
      BY <1>2 DEF Taken
    <2>3. thread.at # "store" /\ currentSendBuffer \notin Claimed
      BY <2>2 DEF SendPart, Claimed
    <2>4. UNCHANGED <<cardSend, sent, overrun>>
          /\ currentSendBuffer' = After(currentSendBuffer)
      BY <1>2, <2>1 DEF SendWhole, Claim, Taken
    <2>5. /\ thread'.at = thread.at /\ thread'.slot = thread.slot
          /\ thread'.frame = thread.frame
          /\ \/ thread'.intact = thread.intact
             \/ /\ thread'.intact = FALSE
                /\ Copied \cap Lines(SendStart, currentSendBuffer, f) # {}
      BY SendWholeThread
    <2>6. PICK ring \in [Slots -> Descriptor(Frames)] :
              /\ OnlySpoilt(ring, sendRing, SendStart, Lines(SendStart, currentSendBuffer, f))
              /\ Replaced(sendRing', ring, currentSendBuffer, "card", f, b)
      BY SendWholeIs
    <2>7. \A j \in Slots :
              /\ sendRing'[j].owner = IF j = currentSendBuffer THEN "card" ELSE sendRing[j].owner
              /\ sendRing'[j].frame = IF j = currentSendBuffer THEN f ELSE sendRing[j].frame
              /\ j = currentSendBuffer => sendRing'[j].intact = b
              /\ j # currentSendBuffer =>
                    \/ sendRing'[j].intact = sendRing[j].intact
                    \/ /\ sendRing'[j].intact = FALSE
                       /\ Lines(SendStart, j, sendRing[j].frame)
                              \cap Lines(SendStart, currentSendBuffer, f) # {}
      BY <2>6 DEF OnlySpoilt, Replaced
    <2>8. Claimed' = Claimed \union {currentSendBuffer}
      BY <2>1, <2>4, <2>5, <2>7 DEF Claimed
    <2>9. PICK x \in Items : x = [frame |-> f, intact |-> b]
      BY DEF Items
    <2>10. ClaimedItems'[currentSendBuffer] = x
      BY <2>1, <2>2, <2>5, <2>7, <2>9 DEF ClaimedItems, Item
    <2>11. x.frame = f
      BY <2>9
    <2>12. ASSUME NEW i \in Slots, i \in Claimed
           PROVE  \/ ClaimedItems'[i] = ClaimedItems[i]
                  \/ SendCrowded' /\ ClaimedItems'[i] = Lost(ClaimedItems[i])
      <3>1. /\ i # currentSendBuffer /\ i \in Claimed' /\ currentSendBuffer \in Claimed'
            /\ ClaimedItems'[currentSendBuffer].frame = f
        BY <2>3, <2>8, <2>10, <2>11, <2>12
      <3>2. CASE thread.at = "fill" /\ thread.slot = i
        <4>1. ClaimedItems[i] = Item(thread) /\ ClaimedItems'[i] = Item(thread)'
          BY <2>5, <3>2 DEF ClaimedItems
        <4>2. /\ ClaimedItems[i].frame = thread.frame /\ ClaimedItems[i].intact = thread.intact
              /\ ClaimedItems'[i].frame = thread'.frame
              /\ ClaimedItems'[i].intact = thread'.intact
          BY <4>1 DEF Item
        <4>3. Copied \subseteq Lines(SendStart, i, thread.frame)
          BY <3>2 DEF Copied
        <4>4. \/ ClaimedItems'[i].intact = ClaimedItems[i].intact
              \/ /\ ClaimedItems'[i].intact = FALSE
                 /\ Lines(SendStart, i, ClaimedItems[i].frame)
                      \cap Lines(SendStart, currentSendBuffer,
                                 ClaimedItems'[currentSendBuffer].frame) # {}
          BY <2>5, <3>1, <4>2, <4>3
        <4> QED  BY <2>1, <2>5, <2>12, <3>1, <4>2, <4>4, WornSlot
      <3>3. CASE ~(thread.at = "fill" /\ thread.slot = i)
        <4>1. ClaimedItems[i] = Item(sendRing[i]) /\ ClaimedItems'[i] = Item(sendRing'[i])
          BY <2>5, <3>3 DEF ClaimedItems
        <4>2. /\ ClaimedItems[i].frame = sendRing[i].frame
              /\ ClaimedItems[i].intact = sendRing[i].intact
              /\ ClaimedItems'[i].frame = sendRing'[i].frame
              /\ ClaimedItems'[i].intact = sendRing'[i].intact
          BY <4>1 DEF Item
        <4>3. ClaimedItems'[i].frame = ClaimedItems[i].frame
          BY <2>7, <3>1, <4>2
        <4>4. \/ ClaimedItems'[i].intact = ClaimedItems[i].intact
              \/ /\ ClaimedItems'[i].intact = FALSE
                 /\ Lines(SendStart, i, ClaimedItems[i].frame)
                      \cap Lines(SendStart, currentSendBuffer,
                                 ClaimedItems'[currentSendBuffer].frame) # {}
          BY <2>7, <3>1, <4>2
        <4> QED  BY <2>1, <2>12, <3>1, <4>3, <4>4, WornSlot
      <3> QED  BY <3>2, <3>3
    <2>13. KeptOrLost(Claimed, SendCrowded', ClaimedItems, ClaimedItems')
      BY <2>12 DEF KeptOrLost
    <2>14. thread'.at = "fill" => sendRing'[thread'.slot].owner = "driver"
      BY <2>1, <2>2, <2>5, <2>7 DEF SendPart
    <2>15. SendInv' /\ SendQueue!Put(x)
      BY <2>3, <2>4, <2>5, <2>8, <2>10, <2>13, <2>14, ClaimIsPut
    <2> QED  BY <2>15
  <1> QED  BY <1>1, <1>2

(* A thread begins: its frame is not yet in the queue.                     *)
LEMMA BeginIsEnter ==
    ASSUME IInv, NEW n \in 0 .. RingSize, SendPart(n), NEW f \in Frames, SendBegin(f)
    PROVE  SendInv' /\ SendQueue!Enter
  <1>1. /\ UNCHANGED <<sendRing, cardSend, sent, overrun, currentSendBuffer>>
        /\ thread.at = "idle" /\ thread'.at = "store" /\ thread'.slot = currentSendBuffer
    BY DEF SendBegin, Idle
  <1>2. UNCHANGED <<Claimed, ClaimedItems>>
    BY <1>1 DEF Claimed, ClaimedItems
  <1>3. SendPart(n)'
    BY <1>1, <1>2 DEF SendPart
  <1>4. SendInv'
    BY <1>3 DEF SendInv
  <1>5. UNCHANGED Outgoing
    BY <1>1, <1>2 DEF Outgoing
  <1>6. (thread'.at = "store") = TRUE /\ ~(thread.at = "store")
    BY <1>1
  <1> QED  BY <1>1, <1>4, <1>5, <1>6 DEF SendQueue!Enter

(* It advances currentSendBuffer: its frame is.                            *)
LEMMA StoreIsPut ==
    ASSUME IInv, IInv', NEW n \in 0 .. RingSize, SendPart(n), ~overrun, SendStore
    PROVE  SendInv' /\ ((\E x \in Items : SendQueue!Put(x)) \/ SendQueue!Break)
  <1>1. thread.at = "store" /\ thread.slot = currentSendBuffer
    BY DEF SendStore, SendPart
  <1>2. /\ sendRing \in [Slots -> Descriptor(Frames)] /\ thread \in Threads
        /\ overrun \in BOOLEAN /\ currentSendBuffer \in Slots
    BY Typed DEF IInv
  <1>3. CASE sendRing[thread.slot].owner = "card"
    <2>1. overrun'
      BY <1>3 DEF SendStore
    <2> QED  BY <1>1, <2>1 DEF SendInv, SendQueue!Break
  <1>4. CASE sendRing[thread.slot].owner # "card"
    <2>1. /\ currentSendBuffer' = After(currentSendBuffer)
          /\ UNCHANGED <<sendRing, cardSend, sent>>
          /\ overrun' = overrun
      BY <1>1, <1>2, <1>4 DEF SendStore, Claim
    <2>2. /\ thread'.at = "fill" /\ thread'.slot = thread.slot
          /\ thread'.frame = thread.frame /\ thread'.intact = thread.intact
      BY <1>2 DEF SendStore, Threads
    <2>3. PICK x \in Items : x = Item(thread)
      <3>1. thread.frame \in Frames /\ thread.intact \in BOOLEAN
        BY <1>1, <1>2 DEF IInv, Frameful, Threads
      <3> QED  BY <3>1 DEF Item, Items
    <2>4. currentSendBuffer \notin Claimed
      BY <1>1, <1>4 DEF Claimed
    <2>5. Claimed' = Claimed \union {currentSendBuffer}
      BY <1>1, <1>2, <2>1, <2>2 DEF Claimed
    <2>6. KeptOrLost(Claimed, SendCrowded', ClaimedItems, ClaimedItems')
      <3>1. \A i \in Slots : i \in Claimed => ClaimedItems'[i] = ClaimedItems[i]
        BY <1>1, <2>1, <2>2, <2>4 DEF ClaimedItems
      <3> QED  BY <3>1 DEF KeptOrLost
    <2>7. ClaimedItems'[currentSendBuffer] = x
      BY <1>1, <1>2, <2>2, <2>3 DEF ClaimedItems, Item
    <2>8. sendRing'[thread'.slot].owner = "driver"
      BY <1>1, <1>2, <1>4, <2>1, <2>2 DEF Descriptor
    <2>9. SendInv' /\ SendQueue!Put(x)
      BY <2>1, <2>2, <2>4, <2>5, <2>6, <2>7, <2>8, ClaimIsPut
    <2> QED  BY <2>9
  <1> QED  BY <1>3, <1>4

(* Its copy wears the frames that lie there.                               *)
LEMMA CopyIsMix ==
    ASSUME IInv, IInv', NEW n \in 0 .. RingSize, SendPart(n), SendCopy
    PROVE  SendInv' /\ SendQueue!Mix
  <1>1. /\ thread.at = "fill" /\ thread.slot \in Slots
        /\ sendRing[thread.slot].owner = "driver"
        /\ UNCHANGED <<currentSendBuffer, cardSend, sent, overrun>>
    BY Typed DEF SendCopy, SendPart, IInv
  <1>2. /\ thread'.at = thread.at /\ thread'.slot = thread.slot
        /\ thread'.frame = thread.frame /\ thread'.intact = thread.intact
        /\ OnlySpoilt(sendRing', sendRing, SendStart,
                      Lines(SendStart, thread.slot, thread.frame))
    BY CopyIs
  <1>3. \A j \in Slots :
            /\ sendRing'[j].owner = sendRing[j].owner
            /\ sendRing'[j].frame = sendRing[j].frame
            /\ \/ sendRing'[j].intact = sendRing[j].intact
               \/ /\ sendRing'[j].intact = FALSE
                  /\ Lines(SendStart, j, sendRing[j].frame)
                         \cap Lines(SendStart, thread.slot, thread.frame) # {}
    BY <1>2 DEF OnlySpoilt
  <1>4. Claimed' = Claimed /\ thread.slot \in Claimed
    BY <1>1, <1>2, <1>3 DEF Claimed
  <1>5. /\ ClaimedItems'[thread.slot] = ClaimedItems[thread.slot]
        /\ ClaimedItems'[thread.slot].frame = thread.frame
    BY <1>1, <1>2 DEF ClaimedItems, Item
  <1>6. ASSUME NEW i \in Slots, i \in Claimed
        PROVE  \/ ClaimedItems'[i] = ClaimedItems[i]
               \/ SendCrowded' /\ ClaimedItems'[i] = Lost(ClaimedItems[i])
    <2>1. CASE i = thread.slot
      BY <1>5, <2>1
    <2>2. CASE i # thread.slot
      <3>1. ClaimedItems[i] = Item(sendRing[i]) /\ ClaimedItems'[i] = Item(sendRing'[i])
        BY <1>2, <2>2 DEF ClaimedItems
      <3>2. /\ ClaimedItems[i].frame = sendRing[i].frame
            /\ ClaimedItems[i].intact = sendRing[i].intact
            /\ ClaimedItems'[i].frame = sendRing'[i].frame
            /\ ClaimedItems'[i].intact = sendRing'[i].intact
        BY <3>1 DEF Item
      <3>3. \/ ClaimedItems'[i].intact = ClaimedItems[i].intact
            \/ /\ ClaimedItems'[i].intact = FALSE
               /\ Lines(SendStart, i, ClaimedItems[i].frame)
                    \cap Lines(SendStart, thread.slot,
                               ClaimedItems'[thread.slot].frame) # {}
        BY <1>3, <1>5, <3>2
      <3>4. ClaimedItems'[i].frame = ClaimedItems[i].frame
        BY <1>3, <3>2
      <3> QED  BY <1>1, <1>4, <1>6, <2>2, <3>3, <3>4, WornSlot
    <2> QED  BY <2>1, <2>2
  <1>7. KeptOrLost(Claimed, SendCrowded', ClaimedItems, ClaimedItems')
    BY <1>6 DEF KeptOrLost
  <1>8. /\ (thread'.at = "store") = (thread.at = "store") /\ thread'.at # "store"
        /\ thread'.at = "fill" => sendRing'[thread'.slot].owner = "driver"
    BY <1>1, <1>2, <1>3
  <1> QED  BY <1>1, <1>4, <1>7, <1>8, WriteIsMix

(* Its descriptor is handed over with the frame that was in the queue.     *)
LEMMA GiveIsMix ==
    ASSUME IInv, IInv', NEW n \in 0 .. RingSize, SendPart(n), SendGive
    PROVE  SendInv' /\ SendQueue!Mix
  <1>1. /\ thread.at = "fill" /\ thread.slot \in Slots
        /\ UNCHANGED <<currentSendBuffer, cardSend, sent, overrun>>
    BY Typed DEF SendGive, IInv
  <1>2. /\ thread'.at = "idle"
        /\ Replaced(sendRing', sendRing, thread.slot, "card", thread.frame, thread.intact)
    BY GiveIs
  <1>3. Claimed' = Claimed
    BY <1>1, <1>2 DEF Claimed, Replaced
  <1>4. \A i \in Slots : ClaimedItems'[i] = ClaimedItems[i]
    BY <1>1, <1>2 DEF ClaimedItems, Item, Replaced
  <1>5. KeptOrLost(Claimed, SendCrowded', ClaimedItems, ClaimedItems')
    BY <1>4 DEF KeptOrLost
  <1>6. (thread'.at = "store") = (thread.at = "store") /\ thread'.at = "idle"
    BY <1>1, <1>2
  <1> QED  BY <1>1, <1>3, <1>5, <1>6, WriteIsMix

(* The card takes the first.                                               *)
LEMMA TransmitIsTake ==
    ASSUME IInv, NEW n \in 0 .. RingSize, SendPart(n), CardTransmit
    PROVE  SendInv' /\ SendQueue!Take
  <1>1. cardSend \in Slots /\ currentSendBuffer \in Slots /\ thread.slot \in Slots
    BY Typed DEF IInv
  <1>2. /\ sendRing[cardSend].owner = "card" /\ sent' = Item(sendRing[cardSend])
        /\ cardSend' = At(cardSend, 1) /\ cardSend' \in Slots
        /\ UNCHANGED <<currentSendBuffer, thread, overrun>>
    BY <1>1, TransmitIs, AfterIs DEF CardTransmit
  <1>3. \A j \in Slots :
          /\ sendRing'[j].owner = IF j = cardSend THEN "driver" ELSE sendRing[j].owner
          /\ j # cardSend => /\ sendRing'[j].frame = sendRing[j].frame
                             /\ sendRing'[j].intact = sendRing[j].intact
    BY TransmitIs DEF Replaced
  <1>4. ~(thread.at = "fill" /\ thread.slot = cardSend)
    BY <1>2 DEF SendPart
  <1>5. cardSend \in Claimed /\ Claimed' = Claimed \ {cardSend}
    BY <1>1, <1>2, <1>3, <1>4 DEF Claimed
  <1>6. n \in 1 .. RingSize /\ Filled(cardSend', n - 1, Claimed')
    BY <1>1, <1>2, <1>5, FilledTake DEF SendPart
  <1>7. n - 1 \in 0 .. RingSize /\ n - 1 \in 0 .. RingSize - 1 /\ (n - 1) + 1 = n
    BY <1>6, RingAssumption
  <1>8. currentSendBuffer' = At(cardSend', n - 1)
    BY <1>1, <1>2, <1>7, AtNext DEF SendPart
  <1>9. /\ thread'.at = "fill" => sendRing'[thread'.slot].owner = "driver"
        /\ thread'.at = "store" => thread'.slot = currentSendBuffer'
    BY <1>1, <1>2, <1>3 DEF SendPart
  <1>10. SendInv'
    BY <1>6, <1>7, <1>8, <1>9 DEF SendInv, SendPart
  <1>11. /\ Outgoing = Contents(cardSend, n, ClaimedItems)
         /\ Outgoing' = Contents(cardSend', n - 1, ClaimedItems')
    BY <1>1, <1>2, <1>6, <1>7, AlongIs DEF Outgoing, SendPart
  <1>12. \A i \in Slots : i \in Claimed /\ i # cardSend
                            => ClaimedItems'[i] = ClaimedItems[i]
    BY <1>2, <1>3 DEF ClaimedItems, Item
  <1>13. ClaimedItems[cardSend] = sent'
    BY <1>1, <1>2, <1>4 DEF ClaimedItems
  <1>14. Outgoing # <<>> /\ Head(Outgoing) = sent' /\ Tail(Outgoing) = Outgoing'
    <2>1. PICK c \in Slots, S \in {Claimed}, g \in {ClaimedItems}, h \in {ClaimedItems'} :
              c = cardSend /\ S = Claimed /\ g = ClaimedItems /\ h = ClaimedItems'
      BY <1>1
    <2>2. Filled(c, n, S) /\ c \in S
      BY <1>5, <2>1 DEF SendPart
    <2>3. Hold(S, g, AllItems)
      BY <2>1, ClaimedAreItems DEF ClaimedHold
    <2>4. AgreeBut(S, c, g, h)
      BY <1>12, <2>1 DEF AgreeBut
    <2>5. /\ Contents(c, n, g) \in Seq(AllItems)
          /\ Contents(c, n, g) # <<>>
          /\ Head(Contents(c, n, g)) = g[c]
          /\ Tail(Contents(c, n, g)) = Contents(At(c, 1), n - 1, h)
      BY <2>2, <2>3, <2>4, ContentsTake
    <2> QED  BY <1>2, <1>11, <1>13, <2>1, <2>5
  <1>15. (thread'.at = "store") = (thread.at = "store")
    BY <1>2
  <1> QED  BY <1>2, <1>10, <1>14, <1>15 DEF SendQueue!Take

(* Each step keeps the claimed part, and is one of the queue or none.      *)
LEMMA SendStep ==
    ASSUME IInv, SendInv, IInv', [CardNext]_cardVars
    PROVE  SendInv' /\ [SendQueue!Next]_(SendQueue!fifoVars)
  <1>1. CASE overrun
    <2>1. overrun' = TRUE
      BY <1>1 DEF CardNext, ThreadStep, HandlerStep, SendBegin, SendStore, SendCopy, SendGive,
                  ReceiveFrame, HandlerWrites, HandlerSends, SendBack, SendWhole, GiveBack,
                  Skip, Advance, CardTransmit, CardBegins, CardReceive, cardVars, sendVars
    <2> QED  BY <1>1, <2>1 DEF SendInv, SendQueue!Next
  <1>2. CASE ~overrun
    <2>1. PICK n \in 0 .. RingSize : SendPart(n)
      BY <1>2 DEF SendInv
    <2>2. ASSUME UNCHANGED sendVars
          PROVE  SendInv' /\ UNCHANGED SendQueue!fifoVars
      <3>1. UNCHANGED <<Claimed, ClaimedItems, cardSend, sent, thread, overrun,
                        currentSendBuffer, sendRing>>
        BY <2>2 DEF sendVars, Claimed, ClaimedItems
      <3>2. SendInv'
        BY <3>1 DEF SendInv, SendPart
      <3>3. UNCHANGED Outgoing
        BY <3>1 DEF Outgoing
      <3>4. Sharing(Claimed, SendStart, ClaimedItems)'
                = Sharing(Claimed, SendStart, ClaimedItems)
        BY <3>1 DEF Sharing
      <3> QED  BY <3>1, <3>2, <3>3, <3>4 DEF SendQueue!fifoVars
    <2>3. CASE ThreadStep
      <3>1. ASSUME NEW f \in Frames, SendBegin(f)
            PROVE  SendInv' /\ SendQueue!Next
        BY <1>2, <2>1, <3>1, BeginIsEnter DEF SendQueue!Next
      <3>2. CASE SendStore
        BY <1>2, <2>1, <3>2, StoreIsPut DEF SendQueue!Next
      <3>3. CASE SendCopy
        BY <1>2, <2>1, <3>3, CopyIsMix DEF SendQueue!Next
      <3>4. CASE SendGive
        BY <1>2, <2>1, <3>4, GiveIsMix DEF SendQueue!Next
      <3> QED  BY <2>3, <3>1, <3>2, <3>3, <3>4 DEF ThreadStep
    <2>4. ASSUME NEW f \in Frames, NEW b \in BOOLEAN, SendWhole(f, b)
          PROVE  SendInv' /\ SendQueue!Next
      BY <1>2, <2>1, <2>4, SendWholeStep DEF SendQueue!Next
    <2>5. ASSUME NEW f \in Frames, HandlerSends(f) PROVE SendInv' /\ SendQueue!Next
      BY <2>4, <2>5 DEF HandlerSends
    <2>6. CASE SendBack
      <3>1. recvRing[currentRecvBuffer].frame \in Frames
        BY <2>6 DEF SendBack, IInv, Held, Items
      <3>2. recvRing[currentRecvBuffer].intact \in BOOLEAN
        BY Typed DEF IInv, Descriptor
      <3> QED  BY <2>4, <2>6, <3>1, <3>2 DEF SendBack
    <2>7. CASE CardTransmit
      BY <1>2, <2>1, <2>7, TransmitIsTake DEF SendQueue!Next
    <2>8. ASSUME ReceiveFrame \/ HandlerWrites \/ GiveBack \/ Skip \/ CardReceive
                 \/ (\E f \in Frames \union Damaged : CardBegins(f)) \/ UNCHANGED cardVars
          PROVE  UNCHANGED sendVars
      BY <2>8 DEF ReceiveFrame, HandlerWrites, GiveBack, Skip, Advance, CardReceive,
                  CardBegins, cardVars
    <2> QED
      BY <2>2, <2>3, <2>5, <2>6, <2>7, <2>8 DEF CardNext, HandlerStep
  <1> QED  BY <1>1, <1>2

(* All together, at the start and always.                                  *)
SendQueueInv == IInv /\ SendInv

(* They are an inductive invariant.                                        *)
LEMMA AlwaysSendQueueInv == CardSpec => []SendQueueInv
  <1>1. CardInit => SendQueueInv
    BY InitIInv, InitSend DEF SendQueueInv
  <1>2. SendQueueInv /\ [CardNext]_cardVars => SendQueueInv'
    BY NextIInv, SendStep DEF SendQueueInv
  <1> QED  BY <1>1, <1>2, PTL DEF CardSpec

(* Send implements the queue, for rings of any size and buffers wherever   *)
(* they lie: frames leave in the order of the calls, each once, and intact *)
(* while no two that are on their way overlap, until a caller finds all    *)
(* descriptors taken or splits another in its first two statements         *)
(* (amd_am79c973.cpp:163-189).                                             *)
THEOREM SendImplementsQueue == CardSpec => SendIsQueue
  <1>1. CardInit => SendQueue!Init
    BY InitSend
  <1>2. SendQueueInv /\ SendQueueInv' /\ [CardNext]_cardVars
            => [SendQueue!Next]_(SendQueue!fifoVars)
    BY SendStep DEF SendQueueInv
  <1>3. CardInit /\ []SendQueueInv /\ [][CardNext]_cardVars => SendIsQueue
    BY <1>1, <1>2, PTL DEF SendIsQueue, SendQueue!Spec
  <1> QED  BY <1>3, AlwaysSendQueueInv, PTL DEF CardSpec

-----------------------------------------------------------------------------
(* Receive is a queue                                                      *)

(* The card's next descriptor, the one into which a frame arrives now left *)
(* out; the descriptors with a frame are those from currentRecvBuffer on,  *)
(* up to there.                                                            *)
NextFree ==
    IF recvRing[cardRecv].owner = "card" /\ recvRing[cardRecv].frame # Nothing
    THEN After(cardRecv) ELSE cardRecv

RecvPart(n) == Filled(currentRecvBuffer, n, Arrived) /\ NextFree = At(currentRecvBuffer, n)

RecvInv == \E n \in 0 .. RingSize : RecvPart(n)

RecvCrowded == Sharing(Arrived, RecvStart, ArrivedItems)

(* The card has all descriptors at the start, and the queue is empty.      *)
LEMMA InitRecv == CardInit => RecvInv /\ RecvQueue!Init
  <1> SUFFICES ASSUME CardInit PROVE RecvInv /\ RecvQueue!Init
    OBVIOUS
  <1>1. 0 \in Slots /\ 0 \in 0 .. RingSize
    BY RingAssumption DEF Slots
  <1>2. cardRecv = 0 /\ currentRecvBuffer = 0 /\ handling = "no" /\ received = Nothing
        /\ \A i \in Slots : recvRing[i].frame = Nothing
    BY DEF CardInit, Free
  <1>3. Arrived = {} /\ Waiting = {} /\ FirstWaiting = 0 /\ NextFree = 0
    BY <1>1, <1>2 DEF Arrived, Waiting, FirstWaiting, NextFree
  <1>4. Filled(0, 0, {})
    <2>1. \A i \in Slots : ~(Dist(0, i) < 0)
      BY <1>1, AtDist
    <2> QED  BY <2>1 DEF Filled
  <1>5. At(0, 0) = 0
    BY <1>1, <1>4, FilledPlaces
  <1>6. RecvPart(0)
    BY <1>2, <1>3, <1>4, <1>5 DEF RecvPart
  <1>7. Along(Run(0, {}), ArrivedItems) = <<>>
    <2>1. Along(Run(0, {}), ArrivedItems) = Contents(0, 0, ArrivedItems)
      BY <1>1, <1>4, AlongIs
    <2> QED  BY <2>1 DEF Contents
  <1>8. Incoming = <<>>
    BY <1>3, <1>7, KeptEmpty DEF Incoming
  <1>9. ~Sharing(Arrived, RecvStart, ArrivedItems)
    BY <1>3 DEF Sharing
  <1> QED  BY <1>1, <1>2, <1>6, <1>8, <1>9 DEF RecvInv, RecvQueue!Init

ArrivedHold == Hold(Arrived, ArrivedItems, AllItems)

(* What has arrived is a frame, damaged or not.                            *)
LEMMA ArrivedAreItems == IInv => ArrivedHold
  <1> SUFFICES ASSUME IInv PROVE ArrivedHold
    OBVIOUS
  <1>1. ASSUME NEW i \in Slots, i \in Arrived PROVE ArrivedItems[i] \in AllItems
    <2>1. recvRing[i] \in Descriptor(Frames \union Damaged) /\ recvRing[i].frame # Nothing
      BY <1>1, Typed DEF IInv, Arrived
    <2>2. recvRing[i].frame \in Frames \union Damaged /\ recvRing[i].intact \in BOOLEAN
      BY <2>1 DEF Descriptor
    <2>3. ArrivedItems[i] = Item(recvRing[i])
      BY DEF ArrivedItems
    <2> QED  BY <2>2, <2>3 DEF Item, AllItems
  <1> QED  BY <1>1 DEF Hold, ArrivedHold

(* The item in a slot with a frame.                                        *)
LEMMA ArrivedItemIs ==
    ASSUME NEW i \in Slots
    PROVE  ArrivedItems[i].frame = recvRing[i].frame
           /\ ArrivedItems[i].intact = recvRing[i].intact
           /\ ArrivedItems[i] = Item(recvRing[i])
  BY DEF ArrivedItems, Item

(* One that had a frame before is worn at most by one that shares lines.   *)
LEMMA ArrivedWorn ==
    ASSUME IInv, IInv', NEW i \in Slots, NEW j \in Slots, i # j,
           i \in Arrived, i \in Arrived', j \in Arrived',
           recvRing'[i].frame = recvRing[i].frame,
           \/ recvRing'[i].intact = recvRing[i].intact
           \/ /\ recvRing'[i].intact = FALSE
              /\ Lines(RecvStart, i, recvRing[i].frame)
                     \cap Lines(RecvStart, j, recvRing'[j].frame) # {}
    PROVE  \/ ArrivedItems'[i] = ArrivedItems[i]
           \/ RecvCrowded' /\ ArrivedItems'[i] = Lost(ArrivedItems[i])
  <1>1. ArrivedHold /\ ArrivedHold'
    BY ArrivedAreItems, PTL
  <1>2. PICK p \in AllItems, q \in AllItems : p = ArrivedItems'[i] /\ q = ArrivedItems[i]
    BY <1>1 DEF ArrivedHold, Hold
  <1>3. /\ ArrivedItems'[i].frame = recvRing'[i].frame
        /\ ArrivedItems'[i].intact = recvRing'[i].intact
        /\ ArrivedItems[i].frame = recvRing[i].frame
        /\ ArrivedItems[i].intact = recvRing[i].intact
        /\ ArrivedItems'[j].frame = recvRing'[j].frame
    BY DEF ArrivedItems, Item
  <1>4. p.frame = q.frame
    BY <1>2, <1>3
  <1>5. (p.intact = q.intact => p = q) /\ (p.intact = FALSE => p = Lost(q))
    BY <1>4, SameItem
  <1>6. CASE recvRing'[i].intact = recvRing[i].intact
    BY <1>2, <1>3, <1>5, <1>6
  <1>7. CASE /\ recvRing'[i].intact = FALSE
             /\ Lines(RecvStart, i, recvRing[i].frame)
                    \cap Lines(RecvStart, j, recvRing'[j].frame) # {}
    <2>1. RecvCrowded'
      BY <1>3, <1>7, CrowdedBy DEF RecvCrowded
    <2> QED  BY <1>2, <1>3, <1>5, <1>7, <2>1
  <1> QED  BY <1>6, <1>7

(* The one that is handled has a frame; the others that have one wait.     *)
LEMMA HandledArrived ==
    ASSUME IInv, handling # "no" \/ recvRing[currentRecvBuffer].owner = "driver"
    PROVE  /\ currentRecvBuffer \in Slots /\ currentRecvBuffer \in Arrived
           /\ recvRing[currentRecvBuffer].owner = "driver"
           /\ recvRing[currentRecvBuffer].frame \in Frames \union Damaged
  <1>1. currentRecvBuffer \in Slots
    BY Typed DEF IInv
  <1>2. recvRing[currentRecvBuffer].owner = "driver"
    BY DEF IInv, Held
  <1>3. recvRing[currentRecvBuffer].frame \in Frames \union Damaged
    BY <1>1, <1>2 DEF IInv, Frameful
  <1> QED  BY <1>1, <1>2, <1>3, NothingAssumption DEF Arrived

(* Those that wait are a part of the ring too.                             *)
WaitPart(c, m) == c = FirstWaiting /\ Filled(c, m, Waiting) /\ NextFree = At(c, m)

(* It begins behind the one that is handled.                               *)
LEMMA WaitingIs ==
    ASSUME IInv, NEW n \in 0 .. RingSize, RecvPart(n)
    PROVE  \E c \in Slots, m \in 0 .. RingSize : WaitPart(c, m)
  <1>1. currentRecvBuffer \in Slots
    BY Typed DEF IInv
  <1>2. CASE handling = "no"
    BY <1>1, <1>2 DEF RecvPart, WaitPart, FirstWaiting, Waiting, Arrived
  <1>3. CASE handling # "no"
    <2>1. currentRecvBuffer \in Arrived
      BY <1>3, HandledArrived
    <2>2. n \in 1 .. RingSize
          /\ Filled(At(currentRecvBuffer, 1), n - 1, Arrived \ {currentRecvBuffer})
      BY <1>1, <2>1, FilledTake DEF RecvPart
    <2>3. n - 1 \in 0 .. RingSize - 1 /\ n - 1 \in 0 .. RingSize /\ (n - 1) + 1 = n
      BY <2>2, RingAssumption
    <2>4. NextFree = At(At(currentRecvBuffer, 1), n - 1)
      BY <1>1, <2>3, AtNext DEF RecvPart
    <2>5. /\ FirstWaiting = At(currentRecvBuffer, 1) /\ FirstWaiting \in Slots
          /\ Waiting = Arrived \ {currentRecvBuffer}
      BY <1>1, <1>3, AfterIs DEF FirstWaiting, Waiting, Arrived
    <2> QED  BY <2>2, <2>3, <2>4, <2>5 DEF WaitPart
  <1> QED  BY <1>2, <1>3

(* The queue, given that part.                                             *)
LEMMA IncomingIs ==
    ASSUME NEW c \in Slots, NEW m \in 0 .. RingSize, WaitPart(c, m)
    PROVE  Incoming = Kept(Contents(c, m, ArrivedItems), Items)
  <1>1. Along(Run(c, Waiting), ArrivedItems) = Contents(c, m, ArrivedItems)
    BY AlongIs DEF WaitPart
  <1> QED  BY <1>1 DEF WaitPart, Incoming

(* Where the queue stays as it is, frames were at most made to share lines *)
(* or not to.                                                              *)
LEMMA SameIsMix ==
    ASSUME UNCHANGED <<Incoming, received>>
    PROVE  RecvQueue!Mix
  BY DEF RecvQueue!Mix, RecvQueue!MayBecome

(* What resembles the queue is what it may become.                         *)
LEMMA RecvMayBecome ==
    ASSUME NEW q \in Seq(AllItems), NEW r, r = Incoming', NEW w \in BOOLEAN,
           w = RecvCrowded', Resembles(q, r, Wearing(w, AllItems))
    PROVE  RecvQueue!MayBecome(q, Incoming')
  <1>1. Worn(q, r, w)
    BY ResemblesIsWorn
  <1>2. w = Sharing(Arrived, RecvStart, ArrivedItems)'
    BY DEF RecvCrowded
  <1> QED  BY <1>1, <1>2 DEF RecvQueue!MayBecome, Worn

(* Frames that wait may be worn.                                           *)
LEMMA WearIsMix ==
    ASSUME IInv, IInv', NEW c \in Slots, NEW m \in 0 .. RingSize,
           WaitPart(c, m), WaitPart(c, m)', Waiting' = Waiting,
           KeptOrLost(Waiting, RecvCrowded', ArrivedItems, ArrivedItems'),
           UNCHANGED received
    PROVE  RecvQueue!Mix
  <1>1. RecvCrowded' \in BOOLEAN
    BY DEF RecvCrowded, Sharing
  <1>2. PICK S \in {Waiting}, g \in {ArrivedItems}, h \in {ArrivedItems'}, w \in BOOLEAN :
            S = Waiting /\ g = ArrivedItems /\ h = ArrivedItems' /\ w = RecvCrowded'
    BY <1>1
  <1>3. ArrivedHold /\ ArrivedHold'
    BY ArrivedAreItems, PTL
  <1>4. Hold(S, g, AllItems) /\ Hold(S, h, AllItems)
    BY <1>2, <1>3 DEF ArrivedHold, Hold, Waiting
  <1>5. Filled(c, m, S) /\ KeptOrLost(S, w, g, h)
    BY <1>2 DEF WaitPart
  <1>6. PICK s \in Seq(AllItems), t \in Seq(AllItems) :
            /\ s = Contents(c, m, g) /\ t = Contents(c, m, h)
            /\ Resembles(s, t, Wearing(w, AllItems))
    BY <1>4, <1>5, ContentsResemble
  <1>7. Resembles(Kept(s, Items), Kept(t, Items), Wearing(w, AllItems))
    BY <1>6, KeptResembles, WearingFaithful
  <1>8. Incoming = Kept(s, Items) /\ Incoming' = Kept(t, Items)
    <2>1. Incoming = Kept(Contents(c, m, ArrivedItems), Items)
      BY IncomingIs
    <2>2. Incoming' = Kept(Contents(c, m, ArrivedItems'), Items)
      <3>1. FirstWaiting' = c
        BY DEF WaitPart
      <3>2. Along(Run(c, S), h) = Contents(c, m, h)
        BY <1>5, AlongIs
      <3> QED  BY <1>2, <3>1, <3>2 DEF Incoming
    <2> QED  BY <1>2, <1>6, <2>1, <2>2
  <1>9. PICK q \in Seq(AllItems), r \in Seq(AllItems) :
            /\ q = Kept(s, Items) /\ r = Kept(t, Items)
            /\ Resembles(q, r, Wearing(w, AllItems))
    BY <1>7, KeptSeq
  <1>10. RecvQueue!MayBecome(q, Incoming')
    BY <1>2, <1>8, <1>9, RecvMayBecome
  <1> QED  BY <1>8, <1>9, <1>10 DEF RecvQueue!Mix

(* A frame handed up is the first of the queue.                            *)
LEMMA ReceiveIsTake ==
    ASSUME IInv, NEW n \in 0 .. RingSize, RecvPart(n), ReceiveFrame
    PROVE  RecvInv' /\ RecvQueue!Take
  <1>1. /\ currentRecvBuffer \in Slots /\ currentRecvBuffer \in Arrived
        /\ recvRing[currentRecvBuffer].frame \in Frames
    BY HandledArrived DEF ReceiveFrame, Whole
  <1>2. UNCHANGED <<recvRing, currentRecvBuffer, cardRecv>>
        /\ handling = "no" /\ handling' = "handler"
        /\ received' = Item(recvRing[currentRecvBuffer])
    BY DEF ReceiveFrame, Lent
  <1>3. UNCHANGED <<Arrived, ArrivedItems, NextFree>>
    BY <1>2 DEF Arrived, ArrivedItems, NextFree
  <1>4. RecvInv'
    BY <1>2, <1>3 DEF RecvInv, RecvPart
  <1>5. /\ Waiting = Arrived /\ FirstWaiting = currentRecvBuffer
        /\ Waiting' = Arrived \ {currentRecvBuffer} /\ FirstWaiting' = At(currentRecvBuffer, 1)
    BY <1>1, <1>2, <1>3, AfterIs DEF Waiting, FirstWaiting, Arrived
  <1>6. received' \in Items /\ ArrivedItems[currentRecvBuffer] = received'
    <2>1. recvRing[currentRecvBuffer] \in Descriptor(Frames \union Damaged)
      BY <1>1, Typed DEF IInv
    <2> QED  BY <1>1, <1>2, <2>1, ItemIs DEF ArrivedItems
  <1>7. PICK c \in Slots, S \in {Arrived}, g \in {ArrivedItems} :
            c = currentRecvBuffer /\ S = Arrived /\ g = ArrivedItems
    BY <1>1
  <1>8. Filled(c, n, S) /\ c \in S /\ Hold(S, g, AllItems) /\ AgreeBut(S, c, g, g)
    BY <1>1, <1>7, ArrivedAreItems DEF RecvPart, AgreeBut, ArrivedHold
  <1>9. /\ Contents(c, n, g) \in Seq(AllItems)
        /\ Contents(c, n, g) # <<>>
        /\ Head(Contents(c, n, g)) = g[c]
        /\ Tail(Contents(c, n, g)) = Contents(At(c, 1), n - 1, g)
    BY <1>8, ContentsTake
  <1>10. n \in 1 .. RingSize /\ Filled(At(c, 1), n - 1, S \ {c})
    BY <1>8, FilledTake
  <1>11. n - 1 \in 0 .. RingSize /\ At(c, 1) \in Slots
    BY <1>10, RingAssumption, AfterIs
  <1>12. Incoming = Kept(Contents(c, n, g), Items)
    <2>1. Along(Run(c, S), g) = Contents(c, n, g)
      BY <1>8, AlongIs
    <2> QED  BY <1>5, <1>7, <2>1 DEF Incoming
  <1>13. Incoming' = Kept(Contents(At(c, 1), n - 1, g), Items)
    <2>1. Along(Run(At(c, 1), S \ {c}), g) = Contents(At(c, 1), n - 1, g)
      BY <1>10, <1>11, AlongIs
    <2> QED  BY <1>3, <1>5, <1>7, <2>1 DEF Incoming
  <1>14. Incoming # <<>> /\ Head(Incoming) = received' /\ Tail(Incoming) = Incoming'
    <2>1. PICK s \in Seq(AllItems) : s = Contents(c, n, g)
      BY <1>9
    <2>2. Head(s) = received' /\ Head(s) \in AllItems /\ Head(s) \in Items
          /\ Tail(s) \in Seq(AllItems)
      BY <1>6, <1>7, <1>9, <2>1, HeadTailProperties
    <2>3. PICK x \in AllItems, u \in Seq(AllItems) :
              x = received' /\ u = Kept(Tail(s), Items)
      BY <2>2, KeptSeq
    <2>4. Kept(s, Items) = <<x>> \o u
      BY <1>9, <2>1, <2>2, <2>3, KeptTail
    <2>5. <<x>> \o u # <<>> /\ Head(<<x>> \o u) = x /\ Tail(<<x>> \o u) = u
      BY HeadTailOfCons
    <2> QED  BY <1>9, <1>12, <1>13, <2>1, <2>3, <2>4, <2>5
  <1> QED  BY <1>4, <1>14 DEF RecvQueue!Take

(* A descriptor that is given back held no frame of the queue any more.    *)
LEMMA AdvanceIsMix ==
    ASSUME IInv, NEW n \in 0 .. RingSize, RecvPart(n), GiveBack \/ Skip
    PROVE  RecvInv' /\ RecvQueue!Mix
  <1>1. /\ currentRecvBuffer \in Slots /\ currentRecvBuffer \in Arrived /\ cardRecv \in Slots
        /\ recvRing[currentRecvBuffer].owner = "driver" /\ Advance
    BY Typed, HandledArrived DEF IInv, GiveBack, Skip
  <1>2. /\ \A j \in Slots :
              /\ recvRing'[j].owner =
                    IF j = currentRecvBuffer THEN "card" ELSE recvRing[j].owner
              /\ recvRing'[j].frame =
                    IF j = currentRecvBuffer THEN Nothing ELSE recvRing[j].frame
              /\ j # currentRecvBuffer => recvRing'[j].intact = recvRing[j].intact
        /\ currentRecvBuffer' = At(currentRecvBuffer, 1) /\ handling' = "no"
        /\ UNCHANGED <<cardRecv, received>>
    BY <1>1, AdvanceIs, AfterIs DEF Replaced
  <1>3. Arrived' = Arrived \ {currentRecvBuffer}
    BY <1>2 DEF Arrived
  <1>4. Waiting' = Arrived' /\ FirstWaiting' = At(currentRecvBuffer, 1)
    BY <1>2 DEF Waiting, Arrived, FirstWaiting
  <1>5. NextFree' = NextFree
    BY <1>1, <1>2 DEF NextFree
  <1>6. PICK c \in Slots, S \in {Arrived}, g \in {ArrivedItems}, h \in {ArrivedItems'} :
            c = currentRecvBuffer /\ S = Arrived /\ g = ArrivedItems /\ h = ArrivedItems'
    BY <1>1
  <1>7. Filled(c, n, S) /\ c \in S /\ Hold(S, g, AllItems)
    BY <1>1, <1>6, ArrivedAreItems DEF RecvPart, ArrivedHold
  <1>8. AgreeBut(S, c, g, h) /\ AgreeBut(S, c, g, g)
    BY <1>2, <1>6 DEF AgreeBut, ArrivedItems, Item
  <1>9. /\ Contents(c, n, g) \in Seq(AllItems)
        /\ Contents(c, n, g) # <<>>
        /\ Head(Contents(c, n, g)) = g[c]
        /\ Tail(Contents(c, n, g)) = Contents(At(c, 1), n - 1, h)
    BY <1>7, <1>8, ContentsTake
  <1>10. /\ Contents(c, n, g) \in Seq(AllItems)
         /\ Contents(c, n, g) # <<>>
         /\ Head(Contents(c, n, g)) = g[c]
         /\ Tail(Contents(c, n, g)) = Contents(At(c, 1), n - 1, g)
    BY <1>7, <1>8, ContentsTake
  <1>11. n \in 1 .. RingSize /\ Filled(At(c, 1), n - 1, S \ {c})
    BY <1>7, FilledTake
  <1>12. n - 1 \in 0 .. RingSize /\ At(c, 1) \in Slots
    BY <1>11, RingAssumption, AfterIs
  <1>13. RecvInv'
    <2>1. n - 1 \in 0 .. RingSize - 1 /\ (n - 1) + 1 = n
      BY <1>11, RingAssumption
    <2>2. NextFree' = At(At(c, 1), n - 1)
      BY <1>5, <1>6, <2>1, AtNext DEF RecvPart
    <2> QED  BY <1>2, <1>3, <1>6, <1>11, <1>12, <2>2 DEF RecvInv, RecvPart
  <1>14. Incoming' = Kept(Contents(At(c, 1), n - 1, h), Items)
    <2>1. Along(Run(At(c, 1), S \ {c}), h) = Contents(At(c, 1), n - 1, h)
      BY <1>11, <1>12, AlongIs
    <2> QED  BY <1>3, <1>4, <1>6, <2>1 DEF Incoming
  <1>15. CASE handling # "no"
    <2>1. Waiting = S \ {c} /\ FirstWaiting = At(c, 1)
      BY <1>6, <1>15, AfterIs DEF Waiting, Arrived, FirstWaiting
    <2>2. Along(Run(At(c, 1), S \ {c}), g) = Contents(At(c, 1), n - 1, g)
      BY <1>11, <1>12, AlongIs
    <2>3. Incoming = Kept(Contents(At(c, 1), n - 1, g), Items)
      BY <1>6, <2>1, <2>2 DEF Incoming
    <2>4. Incoming' = Incoming
      BY <1>9, <1>10, <1>14, <2>3
    <2> QED  BY <1>2, <1>13, <2>4, SameIsMix
  <1>16. CASE handling = "no"
    <2>1. ~Whole(recvRing[currentRecvBuffer].frame)
      BY <1>16 DEF GiveBack, Skip
    <2>2. g[c] \notin Items
      <3>1. g[c].frame \notin Frames
        BY <1>1, <1>6, <2>1, DamagedAssumption, ArrivedItemIs DEF Whole
      <3> QED  BY <3>1 DEF Items
    <2>3. Waiting = S /\ FirstWaiting = c
      BY <1>6, <1>16 DEF Waiting, Arrived, FirstWaiting
    <2>4. Along(Run(c, S), g) = Contents(c, n, g)
      BY <1>7, AlongIs
    <2>5. Incoming = Kept(Contents(c, n, g), Items)
      BY <1>6, <2>3, <2>4 DEF Incoming
    <2>6. PICK s \in Seq(AllItems) : s = Contents(c, n, g)
      BY <1>9
    <2>7. Kept(s, Items) = Kept(Tail(s), Items)
      BY <1>9, <2>2, <2>6, KeptTail
    <2>8. Incoming' = Incoming
      BY <1>9, <1>14, <2>5, <2>6, <2>7
    <2> QED  BY <1>2, <1>13, <2>8, SameIsMix
  <1> QED  BY <1>15, <1>16

(* What the layers above write wears the frames that wait.                 *)
LEMMA WritesIsMix ==
    ASSUME IInv, IInv', NEW n \in 0 .. RingSize, RecvPart(n), HandlerWrites
    PROVE  RecvInv' /\ RecvQueue!Mix
  <1>1. /\ currentRecvBuffer \in Slots /\ currentRecvBuffer \in Arrived
        /\ recvRing[currentRecvBuffer].frame = received.frame
    BY HandledArrived DEF HandlerWrites, IInv, Held
  <1>2. UNCHANGED <<currentRecvBuffer, cardRecv, handling, received>> /\ handling # "no"
    BY DEF HandlerWrites
  <1>3. cardRecv \in Slots
    BY Typed DEF IInv
  <1>4. \A j \in Slots :
            /\ recvRing'[j].owner = recvRing[j].owner
            /\ recvRing'[j].frame = recvRing[j].frame
            /\ \/ recvRing'[j].intact = recvRing[j].intact
               \/ /\ recvRing'[j].intact = FALSE
                  /\ Lines(RecvStart, j, recvRing[j].frame)
                       \cap Lines(RecvStart, currentRecvBuffer, received.frame) # {}
    BY WritesIs
  <1>5. Arrived' = Arrived
    BY <1>4 DEF Arrived
  <1>6. UNCHANGED <<Waiting, FirstWaiting, NextFree>>
    BY <1>2, <1>3, <1>4, <1>5 DEF Waiting, FirstWaiting, NextFree
  <1>7. RecvInv'
    BY <1>2, <1>5, <1>6 DEF RecvInv, RecvPart
  <1>8. PICK c \in Slots, m \in 0 .. RingSize : WaitPart(c, m)
    BY WaitingIs
  <1>9. WaitPart(c, m)'
    BY <1>6, <1>8 DEF WaitPart
  <1>10. ASSUME NEW i \in Slots, i \in Waiting
         PROVE  \/ ArrivedItems'[i] = ArrivedItems[i]
                \/ RecvCrowded' /\ ArrivedItems'[i] = Lost(ArrivedItems[i])
    <2>1. i # currentRecvBuffer /\ i \in Arrived
      BY <1>2, <1>10 DEF Waiting
    <2>2. /\ i \in Arrived' /\ currentRecvBuffer \in Arrived'
          /\ recvRing'[i].frame = recvRing[i].frame
          /\ recvRing'[currentRecvBuffer].frame = received.frame
      BY <1>1, <1>4, <1>5, <2>1
    <2>3. \/ recvRing'[i].intact = recvRing[i].intact
          \/ /\ recvRing'[i].intact = FALSE
             /\ Lines(RecvStart, i, recvRing[i].frame)
                  \cap Lines(RecvStart, currentRecvBuffer,
                             recvRing'[currentRecvBuffer].frame) # {}
      BY <1>4, <2>2
    <2> QED  BY <1>1, <2>1, <2>2, <2>3, ArrivedWorn
  <1>11. KeptOrLost(Waiting, RecvCrowded', ArrivedItems, ArrivedItems')
    BY <1>10 DEF KeptOrLost
  <1> QED  BY <1>2, <1>6, <1>7, <1>8, <1>9, <1>11, WearIsMix

(* A frame that has arrived was in the queue already.                      *)
LEMMA ArrivesIsMix ==
    ASSUME IInv, NEW n \in 0 .. RingSize, RecvPart(n), CardReceive
    PROVE  RecvInv' /\ RecvQueue!Mix
  <1>1. /\ cardRecv \in Slots
        /\ recvRing[cardRecv].owner = "card" /\ recvRing[cardRecv].frame # Nothing
        /\ \A j \in Slots :
              /\ recvRing'[j].owner = IF j = cardRecv THEN "driver" ELSE recvRing[j].owner
              /\ recvRing'[j].frame = recvRing[j].frame
              /\ recvRing'[j].intact = recvRing[j].intact
        /\ cardRecv' = After(cardRecv) /\ cardRecv' \in Slots
        /\ UNCHANGED <<currentRecvBuffer, handling, received>>
    BY Typed, ArrivesIs DEF IInv
  <1>2. Arrived' = Arrived
    BY <1>1 DEF Arrived
  <1>3. \A j \in Slots : ArrivedItems'[j] = ArrivedItems[j]
    BY <1>1 DEF ArrivedItems, Item
  <1>4. ArrivedItems' = ArrivedItems
    BY <1>3 DEF ArrivedItems
  <1>5. NextFree = After(cardRecv)
    BY <1>1 DEF NextFree
  <1>6. ~(recvRing'[cardRecv'].owner = "card" /\ recvRing'[cardRecv'].frame # Nothing)
    BY <1>1 DEF IInv, Frameful
  <1>7. NextFree' = NextFree
    BY <1>1, <1>5, <1>6 DEF NextFree
  <1>8. RecvInv'
    BY <1>1, <1>2, <1>7 DEF RecvInv, RecvPart
  <1>9. UNCHANGED <<Waiting, FirstWaiting>>
    BY <1>1, <1>2 DEF Waiting, FirstWaiting
  <1>10. UNCHANGED Incoming
    BY <1>4, <1>9 DEF Incoming
  <1> QED  BY <1>1, <1>8, <1>10, SameIsMix

(* A frame that begins to arrive is put behind the others, a damaged one   *)
(* is not.                                                                 *)
LEMMA BeginsIsPut ==
    ASSUME IInv, IInv', NEW n \in 0 .. RingSize, RecvPart(n),
           NEW f \in Frames \union Damaged, CardBegins(f)
    PROVE  RecvInv' /\ ((\E x \in Items : RecvQueue!Put(x)) \/ RecvQueue!Mix)
  <1>1. /\ currentRecvBuffer \in Slots /\ cardRecv \in Slots
        /\ recvRing[cardRecv].owner = "card" /\ recvRing[cardRecv].frame = Nothing
        /\ UNCHANGED <<currentRecvBuffer, cardRecv, handling, received>>
    BY Typed, BeginsIs DEF IInv, CardBegins
  <1>2. PICK ring \in [Slots -> Descriptor(Frames \union Damaged)] :
            /\ OnlySpoilt(ring, recvRing, RecvStart, Lines(RecvStart, cardRecv, f))
            /\ Replaced(recvRing', ring, cardRecv, "card", f, TRUE)
    BY BeginsIs
  <1>3. \A j \in Slots :
            /\ recvRing'[j].owner = recvRing[j].owner
            /\ recvRing'[j].frame = IF j = cardRecv THEN f ELSE recvRing[j].frame
            /\ j = cardRecv => recvRing'[j].intact = TRUE
            /\ j # cardRecv =>
                  \/ recvRing'[j].intact = recvRing[j].intact
                  \/ /\ recvRing'[j].intact = FALSE
                     /\ Lines(RecvStart, j, recvRing[j].frame) \cap
                          Lines(RecvStart, cardRecv, f) # {}
    BY <1>1, <1>2 DEF OnlySpoilt, Replaced
  <1>4. f # Nothing
    BY NothingAssumption
  <1>5. cardRecv \notin Arrived /\ Arrived' = Arrived \union {cardRecv}
    BY <1>1, <1>3, <1>4 DEF Arrived
  <1>6. NextFree = cardRecv /\ NextFree' = After(cardRecv)
    BY <1>1, <1>3, <1>4 DEF NextFree
  <1>7. Filled(currentRecvBuffer, n, Arrived) /\ cardRecv = At(currentRecvBuffer, n)
    BY <1>6 DEF RecvPart
  <1>8. n < RingSize /\ Filled(currentRecvBuffer, n + 1, Arrived')
    BY <1>1, <1>5, <1>7, FilledPut
  <1>9. n \in 0 .. RingSize - 1 /\ n + 1 \in 0 .. RingSize
    BY <1>8, RingAssumption
  <1>10. RecvInv'
    <2>1. NextFree' = At(currentRecvBuffer', n + 1)
      BY <1>1, <1>6, <1>7, <1>9, AtNext, AfterIs
    <2> QED  BY <1>1, <1>8, <1>9, <2>1 DEF RecvInv, RecvPart
  <1>11. PICK c \in Slots, m \in 0 .. RingSize : WaitPart(c, m)
    BY WaitingIs
  <1>12. FirstWaiting' = c /\ Waiting' = Waiting \union {cardRecv} /\ cardRecv \notin Waiting
    <2>1. FirstWaiting' = FirstWaiting
      BY <1>1 DEF FirstWaiting
    <2>2. handling # "no" => currentRecvBuffer # cardRecv
      BY <1>1, HandledArrived
    <2>3. Waiting' = Waiting \union {cardRecv}
      BY <1>1, <1>5, <2>2 DEF Waiting, Arrived
    <2> QED  BY <1>5, <1>11, <2>1, <2>3 DEF Waiting, WaitPart
  <1>13. ASSUME NEW i \in Slots, i \in Waiting
         PROVE  \/ ArrivedItems'[i] = ArrivedItems[i]
                \/ RecvCrowded' /\ ArrivedItems'[i] = Lost(ArrivedItems[i])
    <2>1. /\ i # cardRecv /\ i \in Arrived /\ i \in Arrived' /\ cardRecv \in Arrived'
      BY <1>5, <1>12, <1>13 DEF Waiting
    <2>2. recvRing'[i].frame = recvRing[i].frame /\ recvRing'[cardRecv].frame = f
      BY <1>1, <1>3, <2>1
    <2>3. \/ recvRing'[i].intact = recvRing[i].intact
          \/ /\ recvRing'[i].intact = FALSE
             /\ Lines(RecvStart, i, recvRing[i].frame)
                  \cap Lines(RecvStart, cardRecv, recvRing'[cardRecv].frame) # {}
      BY <1>3, <2>1, <2>2
    <2> QED  BY <1>1, <2>1, <2>2, <2>3, ArrivedWorn
  <1>14. KeptOrLost(Waiting, RecvCrowded', ArrivedItems, ArrivedItems')
    BY <1>13 DEF KeptOrLost
  <1>15. RecvCrowded' \in BOOLEAN
    BY DEF RecvCrowded, Sharing
  <1>16. PICK x \in AllItems : x = [frame |-> f, intact |-> TRUE]
    BY DEF AllItems
  <1>17. ArrivedItems'[cardRecv] = x
    <2>1. recvRing'[cardRecv].frame = f /\ recvRing'[cardRecv].intact = TRUE
      BY <1>1, <1>3
    <2> QED  BY <1>1, <1>16, <2>1 DEF ArrivedItems, Item
  <1>18. PICK S \in {Waiting}, g \in {ArrivedItems}, h \in {ArrivedItems'}, w \in BOOLEAN :
             S = Waiting /\ g = ArrivedItems /\ h = ArrivedItems' /\ w = RecvCrowded'
    BY <1>15
  <1>19. /\ Filled(c, m, S) /\ At(c, m) = cardRecv /\ At(c, m) \notin S
         /\ KeptOrLost(S, w, g, h) /\ h[At(c, m)] = x
    BY <1>6, <1>11, <1>12, <1>14, <1>17, <1>18 DEF WaitPart
  <1>20. Hold(S, g, AllItems) /\ Hold(S, h, AllItems)
    <2>1. ArrivedHold /\ ArrivedHold'
      BY ArrivedAreItems, PTL
    <2>2. \A i \in Slots : i \in S => i \in Arrived /\ i \in Arrived'
      BY <1>5, <1>18 DEF Waiting
    <2> QED  BY <1>18, <2>1, <2>2 DEF ArrivedHold, Hold
  <1>21. /\ Contents(c, m, g) \in Seq(AllItems) /\ Contents(c, m + 1, h) \in Seq(AllItems)
         /\ Len(Contents(c, m, g)) = m
         /\ Resembles(Append(Contents(c, m, g), x), Contents(c, m + 1, h),
                      Wearing(w, AllItems))
    BY <1>19, <1>20, ContentsGrow
  <1>22. m < RingSize /\ Filled(c, m + 1, S \union {At(c, m)})
    BY <1>19, FilledPut
  <1>23. m + 1 \in 0 .. RingSize
    BY <1>22, RingAssumption
  <1>24. PICK s \in Seq(AllItems), t \in Seq(AllItems), a \in Seq(AllItems) :
             /\ s = Contents(c, m, g) /\ t = Contents(c, m + 1, h) /\ a = Append(s, x)
             /\ Resembles(a, t, Wearing(w, AllItems))
    BY <1>21, AppendProperties
  <1>25. Incoming = Kept(s, Items) /\ Incoming' = Kept(t, Items)
    <2>1. Incoming = Kept(Contents(c, m, ArrivedItems), Items)
      BY <1>11, IncomingIs
    <2>2. Along(Run(c, S \union {At(c, m)}), h) = Contents(c, m + 1, h)
      BY <1>22, <1>23, AlongIs
    <2>3. Incoming' = Kept(Contents(c, m + 1, h), Items)
      BY <1>12, <1>18, <1>19, <2>2 DEF Incoming
    <2> QED  BY <1>18, <1>24, <2>1, <2>3
  <1>26. Resembles(Kept(a, Items), Kept(t, Items), Wearing(w, AllItems))
    BY <1>24, KeptResembles, WearingFaithful
  <1>27. Kept(a, Items) = IF x \in Items THEN Append(Kept(s, Items), x) ELSE Kept(s, Items)
    BY <1>24, KeptAppend
  <1>28. PICK q \in Seq(AllItems), r \in Seq(AllItems) :
             /\ q = Kept(a, Items) /\ r = Incoming'
             /\ Resembles(q, r, Wearing(w, AllItems))
    BY <1>25, <1>26, KeptSeq
  <1>29. RecvQueue!MayBecome(q, Incoming')
    BY <1>18, <1>28, RecvMayBecome
  <1>30. CASE x \in Items
    <2>1. q = Append(Incoming, x)
      BY <1>25, <1>27, <1>28, <1>30
    <2>2. Len(Incoming) < RingSize
      <3>1. Len(Kept(s, Items)) <= m /\ Len(Kept(s, Items)) \in Nat
        BY <1>21, <1>24, KeptSeq, LenProperties
      <3> QED  BY <1>22, <1>25, <3>1, RingAssumption
    <2>3. RecvQueue!Put(x)
      BY <1>1, <1>29, <2>1, <2>2 DEF RecvQueue!Put
    <2> QED  BY <1>10, <1>30, <2>3
  <1>31. CASE x \notin Items
    <2>1. q = Incoming
      BY <1>25, <1>27, <1>28, <1>31
    <2> QED  BY <1>1, <1>10, <1>29, <2>1 DEF RecvQueue!Mix
  <1> QED  BY <1>30, <1>31

(* Each step keeps the driver's part, and is one of the queue or none.     *)
LEMMA RecvStep ==
    ASSUME IInv, IInv', RecvInv, [CardNext]_cardVars
    PROVE  RecvInv' /\ [RecvQueue!Next]_(RecvQueue!fifoVars)
  <1>1. PICK n \in 0 .. RingSize : RecvPart(n)
    BY DEF RecvInv
  <1>2. ASSUME UNCHANGED <<recvRing, currentRecvBuffer, cardRecv, received>>,
               (handling' = "no") = (handling = "no")
        PROVE  RecvInv' /\ RecvQueue!Mix
    <2>1. UNCHANGED <<Arrived, Waiting, FirstWaiting, ArrivedItems, NextFree>>
      BY <1>2 DEF Arrived, Waiting, FirstWaiting, ArrivedItems, NextFree
    <2>2. RecvInv'
      BY <1>1, <1>2, <2>1 DEF RecvInv, RecvPart
    <2>3. UNCHANGED Incoming
      BY <2>1 DEF Incoming
    <2> QED  BY <1>2, <2>2, <2>3, SameIsMix
  <1>3. ASSUME ThreadStep \/ (\E f \in Frames : HandlerSends(f)) \/ CardTransmit
               \/ UNCHANGED cardVars
        PROVE  UNCHANGED recvVars
    BY <1>3 DEF ThreadStep, SendBegin, SendStore, SendCopy, SendGive, HandlerSends,
                CardTransmit, cardVars
  <1>4. ASSUME UNCHANGED recvVars
        PROVE  RecvInv' /\ RecvQueue!Mix
    BY <1>2, <1>4 DEF recvVars
  <1>5. CASE SendBack
    <2>1. UNCHANGED <<recvRing, currentRecvBuffer, cardRecv, received>>
      BY <1>5 DEF SendBack
    <2>2. (handling' = "no") = (handling = "no")
      BY <1>5 DEF SendBack
    <2> QED  BY <1>2, <2>1, <2>2 DEF RecvQueue!Next
  <1>6. CASE ReceiveFrame
    BY <1>1, <1>6, ReceiveIsTake DEF RecvQueue!Next
  <1>7. CASE GiveBack \/ Skip
    BY <1>1, <1>7, AdvanceIsMix DEF RecvQueue!Next
  <1>8. CASE HandlerWrites
    BY <1>1, <1>8, WritesIsMix DEF RecvQueue!Next
  <1>9. CASE CardReceive
    BY <1>1, <1>9, ArrivesIsMix DEF RecvQueue!Next
  <1>10. ASSUME NEW f \in Frames \union Damaged, CardBegins(f)
         PROVE  RecvInv' /\ RecvQueue!Next
    BY <1>1, <1>10, BeginsIsPut DEF RecvQueue!Next
  <1>11. RecvQueue!Mix => RecvQueue!Next
    BY DEF RecvQueue!Next
  <1> QED
    BY <1>3, <1>4, <1>5, <1>6, <1>7, <1>8, <1>9, <1>10, <1>11 DEF CardNext, HandlerStep

(* All together, at the start and always.                                  *)
RecvQueueInv == IInv /\ RecvInv

(* They are an inductive invariant.                                        *)
LEMMA AlwaysRecvQueueInv == CardSpec => []RecvQueueInv
  <1>1. CardInit => RecvQueueInv
    BY InitIInv, InitRecv DEF RecvQueueInv
  <1>2. RecvQueueInv /\ [CardNext]_cardVars => RecvQueueInv'
    BY NextIInv, RecvStep DEF RecvQueueInv
  <1> QED  BY <1>1, <1>2, PTL DEF CardSpec

(* Receive implements the queue, for rings of any size and buffers         *)
(* wherever they lie: whole frames go up in the order of their arrival,    *)
(* each once, whatever is damaged between them and however full the ring   *)
(* is, and intact while no two overlap (amd_am79c973.cpp:191-222).         *)
THEOREM ReceiveImplementsQueue == CardSpec => RecvIsQueue
  <1>1. CardInit => RecvQueue!Init
    BY InitRecv
  <1>2. RecvQueueInv /\ RecvQueueInv' /\ [CardNext]_cardVars
            => [RecvQueue!Next]_(RecvQueue!fifoVars)
    BY RecvStep DEF RecvQueueInv
  <1>3. CardInit /\ []RecvQueueInv /\ [][CardNext]_cardVars => RecvIsQueue
    BY <1>1, <1>2, PTL DEF RecvIsQueue, RecvQueue!Spec
  <1> QED  BY <1>3, AlwaysRecvQueueInv, PTL DEF CardSpec
=============================================================================
