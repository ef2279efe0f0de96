------------------------------ MODULE SlabModel ------------------------------
(***************************************************************************)
(* The model of a slab map (collections/slab_map.rs): items by key, each   *)
(* with a flag that says whether it is still part of the collection.  A    *)
(* removed item stays under its key until its Remove change is released.   *)
(***************************************************************************)
EXTENDS Integers, SequencesExt

CONSTANTS SlabKey,  \* keys; any vacant one may be given out (external)
          Item      \* values

NewSlab == [kind |-> "slab", slots |-> <<>>]

SlabChange(action, k) == [op |-> action, key |-> k]

SlabStored(m) == DOMAIN m.slots
Existing(m) == {k \in DOMAIN m.slots : m.slots[k].exists}

\* ItemsMut::insert, and the change that record_pending moves from pending_changes into
\* the history (PendingEdit does it at the end of a scan).
InsertSlab(m, k, v) ==
    [model |-> [m EXCEPT !.slots = [x \in DOMAIN @ \cup {k} |->
                                       IF x = k THEN [value |-> v, exists |-> TRUE] ELSE @[x]]],
     changes |-> <<SlabChange("Insert", k)>>]

\* Mutant: the slot is given back at once.
RemoveSlabNow(m, k) ==
    [model |-> [m EXCEPT !.slots = [x \in DOMAIN @ \ {k} |-> @[x]]],
     changes |-> <<SlabChange("Remove", k)>>]

\* ItemsMut::remove.
RemoveSlab(m, k) ==
    [model |-> [m EXCEPT !.slots[k].exists = FALSE],
     changes |-> <<SlabChange("Remove", k)>>]

SlabEdits(m) == {InsertSlab(m, k, v) : k \in SlabKey \ DOMAIN m.slots, v \in Item}
                \cup {RemoveSlab(m, k) : k \in Existing(m)}

SlabNames(c) == {c.key}
SlabFrees(c) == IF c.op = "Remove" THEN {c.key} ELSE {}

\* SlabMapModel::release_change.
SlabRelease(m, c) ==
    IF c.op = "Remove" THEN [m EXCEPT !.slots = [k \in DOMAIN @ \ {c.key} |-> @[k]]] ELSE m

\* Items::iter: only the items that exist.
SlabView(m) == [k \in Existing(m) |-> m.slots[k].value]

\* Items::delta: the value is the one under the key now.
SlabResolve(m, c) == [op |-> c.op, key |-> c.key, value |-> m.slots[c.key].value]

SlabInitial(m) == LET ks == SetToSeq(Existing(m)) IN
                  [i \in DOMAIN ks |-> SlabResolve(m, SlabChange("Insert", ks[i]))]

\* A map following one SlabMapChange.
SlabReplay(f, d) == IF d.op = "Insert" THEN f @@ (d.key :> d.value)
                    ELSE [k \in DOMAIN f \ {d.key} |-> f[k]]
=============================================================================
