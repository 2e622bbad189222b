---------------------------- MODULE Subsequence ----------------------------
(* The elements of a sequence at some of its places, in their order: what   *)
(* std::copy_if and std::remove_if leave.  It is a recursive function, which *)
(* a proof can unfold.                                                       *)
EXTENDS Naturals, Sequences

Picked(s, places) ==
    LET upTo[k \in 0..Len(s)] ==
            IF k = 0 THEN <<>>
            ELSE IF k \in places THEN Append(upTo[k - 1], s[k])
            ELSE upTo[k - 1]
    IN  upTo[Len(s)]
=============================================================================
