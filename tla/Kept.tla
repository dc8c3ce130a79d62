-------------------------------- MODULE Kept --------------------------------
(* The elements of a sequence that are in a set, in their order: SelectSeq  *)
(* of a membership test, in a form that can be reasoned about.              *)
EXTENDS Naturals, Sequences

Kept(s, T) ==
    LET kept[n \in 0 .. Len(s)] ==
            IF n = 0 THEN <<>>
            ELSE IF s[n] \in T THEN Append(kept[n - 1], s[n])
            ELSE kept[n - 1]
    IN  kept[Len(s)]
=============================================================================
