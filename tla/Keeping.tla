-------------------------------- MODULE Keeping --------------------------------
(***************************************************************************)
(* Selection from a sequence, by a recursive function: what SelectSeq does *)
(* with an operator, Kept does with the set of the places to keep.         *)
(***************************************************************************)
EXTENDS Integers, Sequences

\* The elements of a sequence at the places in keep, in their order.
Kept(s, keep) ==
    LET kept[n \in 0..Len(s)] ==
            IF n = 0 THEN <<>> ELSE IF n \in keep THEN Append(kept[n - 1], s[n]) ELSE kept[n - 1]
    IN  kept[Len(s)]

=============================================================================
