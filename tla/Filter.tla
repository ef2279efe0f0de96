------------------------------- MODULE Filter -------------------------------
(* Filters of sequences.  (SelectSeq, in a form that proofs can expand.) *)
EXTENDS Naturals, Sequences

\* The elements of q that are in S, in their order.
Kept(q, S) ==
    LET kept[i \in 0 .. Len(q)] ==
            IF i = 0 THEN <<>>
            ELSE IF q[i] \in S THEN Append(kept[i - 1], q[i]) ELSE kept[i - 1]
    IN  kept[Len(q)]
=============================================================================
