---------------------------- MODULE SnapshotFeed ----------------------------
(***************************************************************************)
(* What a change feed promises: a collection that changes, and readers     *)
(* that each keep the copy they made when they last read.  The feed of     *)
(* ChangeFeed hands out differences only; replaying them must give no less *)
(* than this.                                                              *)
(***************************************************************************)
CONSTANTS Reader, NoView

VARIABLES
    value,  \* the collection now
    seen    \* what each reader has, NoView before its first read and after its end

Init == seen = [r \in Reader |-> NoView]

Change == /\ value' # value
          /\ UNCHANGED seen

Read(r) == /\ seen' = [seen EXCEPT ![r] = value]
           /\ UNCHANGED value

\* A clone starts from what its original has read.
Clone(r, q) == /\ seen[q] = NoView
               /\ seen' = [seen EXCEPT ![q] = seen[r]]
               /\ UNCHANGED value

Drop(r) == /\ seen' = [seen EXCEPT ![r] = NoView]
           /\ UNCHANGED value

Next == \/ Change
        \/ \E r \in Reader : Read(r) \/ Drop(r)
        \/ \E r, q \in Reader : Clone(r, q)

Spec == Init /\ [][Next]_<<value, seen>>
=============================================================================
