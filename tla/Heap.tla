-------------------------------- MODULE Heap --------------------------------
(***************************************************************************)
(* What a dynamic memory allocator promises its clients, with no free      *)
(* list, no headers and no search: the blocks the clients hold lie inside  *)
(* the heap and never overlap, and nothing but their owner's release ends  *)
(* them.  An allocation may fail at any time (a stuttering step).          *)
(***************************************************************************)
EXTENDS Integers

CONSTANTS HeapStart,   \* address of the heap's first byte
          HeapSize,    \* its length in bytes
          Sizes        \* the sizes clients ask for

VARIABLE blocks        \* address of a held block -> the size asked for

HeapBytes == HeapStart .. HeapStart + HeapSize

(* [p, p+s) and [q, q+t) share no byte, and are different addresses even   *)
(* when one of them is empty.                                              *)
Apart(p, s, q, t) == p # q /\ (p + s <= q \/ q + t <= p)

Alloc(p, s) ==
    /\ p \notin DOMAIN blocks
    /\ p + s \in HeapBytes
    /\ \A q \in DOMAIN blocks : Apart(p, s, q, blocks[q])
    /\ blocks' = [q \in DOMAIN blocks \union {p} |->
                    IF q = p THEN s ELSE blocks[q]]

Release(p) == blocks' = [q \in DOMAIN blocks \ {p} |-> blocks[q]]

Init == blocks = [q \in {} |-> 0]

Next == \/ \E p \in HeapBytes, s \in Sizes : Alloc(p, s)
        \/ \E p \in DOMAIN blocks : Release(p)

Spec == Init /\ [][Next]_blocks
=============================================================================
