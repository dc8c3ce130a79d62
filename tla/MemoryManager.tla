--------------------------- MODULE MemoryManager ---------------------------
(***************************************************************************)
(* The kernel's heap, memorymanagement.cpp: a doubly linked list of chunks *)
(* (MemoryChunk), each a header of Header bytes followed by the bytes the  *)
(* chunk holds, searched first-fit by malloc and coalesced with both its   *)
(* neighbours by free.                                                     *)
(*                                                                         *)
(* "chunk" is the part of memory that the list threads: the address of a   *)
(* header on the list -> its fields.  A header that free() merged away     *)
(* stays in memory as garbage; it leaves the domain.  "live" is a history  *)
(* variable, what the callers hold: they free only what malloc returned to *)
(* them, once.  Addresses are unbounded integers: kernelMain's heap starts *)
(* at 10 MB and a request reaches the additions only after                 *)
(* "chunk->size > size", so none of them leaves 32 bits.                   *)
(***************************************************************************)
EXTENDS Integers

CONSTANTS HeapStart,   \* MemoryManager(start, ...)
          HeapSize,    \* MemoryManager(..., size)
          Header,      \* sizeof(MemoryChunk)
          Sizes        \* the sizes malloc is asked for

ASSUME HeapAssumption == /\ HeapStart \in Nat \ {0}
                         /\ HeapSize \in Nat
ASSUME HeaderAssumption == Header \in Nat \ {0}
ASSUME SizesAssumption == Sizes \subseteq Nat

VARIABLES chunk,    \* header address -> [next, prev, allocated, size]
          active,   \* activeMemoryManager is this manager, not null
          live      \* pointer a caller holds -> the size it asked for

vars == <<chunk, active, live>>

NULL == 0
HeapEnd == HeapStart + HeapSize
Address == HeapStart .. HeapEnd
MemoryChunk == [next : Address \union {NULL}, prev : Address \union {NULL},
                allocated : BOOLEAN, size : 0 .. HeapSize]

(* The constructor's chunks: one free chunk over the whole heap, or no     *)
(* chunk at all ("first = 0") when not even a header fits.                 *)
InitialChunks ==
    [c \in IF HeapSize < Header THEN {} ELSE {HeapStart} |->
        [next |-> NULL, prev |-> NULL, allocated |-> FALSE,
         size |-> HeapSize - Header]]

Init == /\ chunk = InitialChunks
        /\ active = TRUE
        /\ live = [p \in {} |-> 0]

-----------------------------------------------------------------------------
(* malloc                                                                  *)

(* Mutant of Fits: an allocated chunk accepted.                            *)
FitsAllocated(c, size) == chunk[c].size > size

Fits(c, size) == chunk[c].size > size /\ ~chunk[c].allocated

(* The list is in address order, so the first chunk the loop accepts is    *)
(* the lowest one that fits.                                               *)
FirstFit(c, size) ==
    /\ Fits(c, size)
    /\ \A d \in DOMAIN chunk : Fits(d, size) => c <= d

(* Where the second chunk's header goes.                                   *)
Temp(c, size) == c + Header + size

(* Mutant of Split: "temp->next->prev = temp" forgotten.                   *)
SplitNoBackLink(m, c, size) ==
    LET temp == Temp(c, size)
    IN  [d \in DOMAIN m \union {temp} |->
            IF d = temp
            THEN [next |-> m[c].next, prev |-> c, allocated |-> FALSE,
                  size |-> m[c].size - size - Header]
            ELSE [m[d] EXCEPT !.next = IF d = c THEN temp ELSE @,
                              !.size = IF d = c THEN size ELSE @]]

(* The chunk list m once c keeps size bytes and "temp" takes the rest.     *)
Split(m, c, size) ==
    LET temp == Temp(c, size)
    IN  [d \in DOMAIN m \union {temp} |->
            IF d = temp
            THEN [next |-> m[c].next, prev |-> c, allocated |-> FALSE,
                  size |-> m[c].size - size - Header]
            ELSE [m[d] EXCEPT !.next = IF d = c THEN temp ELSE @,
                              !.size = IF d = c THEN size ELSE @,
                              !.prev = IF d = m[c].next THEN temp ELSE @]]

SetAllocated(m, c, value) == [m EXCEPT ![c].allocated = value]

Hold(p, size) == live' = [q \in DOMAIN live \union {p} |->
                            IF q = p THEN size ELSE live[q]]

(* A second chunk of at least one byte is left over.                       *)
WorthSplitting(c, size) == chunk[c].size >= size + Header + 1

(* The chunk found is worth splitting.                                     *)
MallocSplit(size) ==
    \E c \in DOMAIN chunk :
        /\ FirstFit(c, size)
        /\ WorthSplitting(c, size)
        /\ chunk' = SetAllocated(Split(chunk, c, size), c, TRUE)
        /\ Hold(c + Header, size)
        /\ UNCHANGED active

(* The chunk found is handed out whole: the rest would hold no byte.       *)
MallocWhole(size) ==
    \E c \in DOMAIN chunk :
        /\ FirstFit(c, size)
        /\ ~WorthSplitting(c, size)
        /\ chunk' = SetAllocated(chunk, c, TRUE)
        /\ Hold(c + Header, size)
        /\ UNCHANGED active

(* No chunk fits: malloc returns 0.                                        *)
MallocFails(size) ==
    /\ \A c \in DOMAIN chunk : ~Fits(c, size)
    /\ UNCHANGED vars

malloc(size) == MallocSplit(size) \/ MallocWhole(size) \/ MallocFails(size)

-----------------------------------------------------------------------------
(* free                                                                    *)

(* Mutant of Absorb: the swallowed header is not counted.                  *)
AbsorbNoHeader(m, a, b) ==
    [d \in DOMAIN m \ {b} |->
        [m[d] EXCEPT !.next = IF d = a THEN m[b].next ELSE @,
                     !.size = IF d = a THEN @ + m[b].size ELSE @,
                     !.prev = IF d = m[b].next THEN a ELSE @]]

(* The list m once a has swallowed its successor b, header and all.        *)
Absorb(m, a, b) ==
    [d \in DOMAIN m \ {b} |->
        [m[d] EXCEPT !.next = IF d = a THEN m[b].next ELSE @,
                     !.size = IF d = a THEN @ + m[b].size + Header ELSE @,
                     !.prev = IF d = m[b].next THEN a ELSE @]]

FreeAt(m, c) == c # NULL /\ ~m[c].allocated

(* First the chunk joins a free predecessor, then whatever it has become   *)
(* takes in a free successor.                                              *)
MergePrev(m, c) == IF FreeAt(m, m[c].prev) THEN Absorb(m, m[c].prev, c) ELSE m
MergeNext(m, c) == IF FreeAt(m, m[c].next) THEN Absorb(m, c, m[c].next) ELSE m

free(ptr) ==
    LET c      == ptr - Header
        freed  == SetAllocated(chunk, c, FALSE)
        merged == IF FreeAt(freed, freed[c].prev) THEN freed[c].prev ELSE c
    IN  /\ ptr \in DOMAIN live
        /\ chunk' = MergeNext(MergePrev(freed, c), merged)
        /\ live' = [q \in DOMAIN live \ {ptr} |-> live[q]]
        /\ UNCHANGED active

-----------------------------------------------------------------------------
(* operator new and operator delete go through the active manager, and do  *)
(* nothing once there is none.                                             *)
OperatorNew(size) == IF active THEN malloc(size) ELSE UNCHANGED vars

OperatorDelete(ptr) ==
    /\ ptr \in DOMAIN live
    /\ IF active THEN free(ptr) ELSE UNCHANGED vars

(* ~MemoryManager: the heap stays as it is, only new and delete stop.      *)
Destroy == active /\ active' = FALSE /\ UNCHANGED <<chunk, live>>

Next == \/ \E size \in Sizes : malloc(size) \/ OperatorNew(size)
        \/ \E ptr \in DOMAIN live : free(ptr) \/ OperatorDelete(ptr)
        \/ Destroy

Spec == Init /\ [][Next]_vars

-----------------------------------------------------------------------------
(* The list's structure, as predicates of a chunk map m so that the proofs *)
(* can speak of the map between free's two merges.                         *)

End(m, c) == c + Header + m[c].size

ChunkTypes(m) == /\ DOMAIN m \subseteq Address
                 /\ m \in [DOMAIN m -> MemoryChunk]
                 /\ HeapSize >= Header => HeapStart \in DOMAIN m

(* The next of a chunk is the header right behind it, and only the chunk   *)
(* that ends the heap has none.                                            *)
NextLinks(m) == \A c \in DOMAIN m :
    \/ m[c].next = NULL /\ End(m, c) = HeapEnd
    \/ /\ m[c].next = End(m, c)
       /\ m[c].next \in DOMAIN m
       /\ m[m[c].next].prev = c

(* prev is the inverse of next, and only the heap's first chunk has none.  *)
PrevLinks(m) == \A c \in DOMAIN m :
    \/ m[c].prev = NULL /\ c = HeapStart
    \/ /\ m[c].prev \in DOMAIN m
       /\ m[c].prev < c
       /\ m[m[c].prev].next = c

ChunksApart(m) == \A c, d \in DOMAIN m : c < d => End(m, c) <= d

Linked(m) == ChunkTypes(m) /\ NextLinks(m) /\ PrevLinks(m) /\ ChunksApart(m)

-----------------------------------------------------------------------------
(* Properties                                                              *)

(* The types of the manager's state.                                       *)
TypeOK == /\ ChunkTypes(chunk)
          /\ active \in BOOLEAN
          /\ DOMAIN live \subseteq Address
          /\ live \in [DOMAIN live -> Sizes]

(* Whatever malloc split and free merged, the chunks still tile the heap   *)
(* without gap or overlap, each has room for its header, and the next and  *)
(* prev pointers still agree.                                              *)
ListTilesHeap ==
    /\ NextLinks(chunk) /\ PrevLinks(chunk) /\ ChunksApart(chunk)
    /\ \A c \in DOMAIN chunk : c + Header <= End(chunk, c)

(* free coalesces enough: no two neighbouring chunks are both free, so no  *)
(* request is refused that a merge of two neighbours could have served.    *)
NoAdjacentFree ==
    \A c \in DOMAIN chunk :
        ~chunk[c].allocated => ~FreeAt(chunk, chunk[c].next)

(* A chunk is marked allocated exactly when a caller holds it, and it has  *)
(* room for what the caller asked for, wasting at most a header's worth.   *)
LiveIsAllocated ==
    /\ \A c \in DOMAIN chunk : chunk[c].allocated <=> c + Header \in DOMAIN live
    /\ \A p \in DOMAIN live :
          /\ p - Header \in DOMAIN chunk
          /\ chunk[p - Header].size \in live[p] .. live[p] + Header

(* No fragmentation outlives its cause: once everything was freed, in      *)
(* whatever order, the heap is again the single chunk of the constructor.  *)
HeapRecovered == DOMAIN live = {} => chunk = InitialChunks

(* A step never moves or resizes a chunk somebody holds before and after:  *)
(* splitting and merging only ever touch free neighbours.                  *)
Untouched ==
    \A p \in DOMAIN live \intersect DOMAIN live' :
        chunk'[p - Header].size = chunk[p - Header].size
LiveUntouched == [][Untouched]_vars

(* The first-fit free list implements the promise of an allocator: blocks  *)
(* inside the heap, never overlapping, until their owner frees them.       *)
HeapPromise == INSTANCE Heap WITH blocks <- live
ImplementsHeap == HeapPromise!Spec

(* The inductive invariant.                                                *)
IInv == /\ TypeOK
        /\ Linked(chunk)
        /\ NoAdjacentFree
        /\ LiveIsAllocated
=============================================================================
