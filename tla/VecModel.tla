------------------------------ MODULE VecModel ------------------------------
(***************************************************************************)
(* The model of a StateVec (collections/vec.rs): a list of keys into a     *)
(* slab of values, the calls of ItemsMut with the changes they record, and *)
(* what a reader sees of them.  Indices are one-based here.                *)
(*                                                                         *)
(* A value that is overwritten or removed stays in the slab until the      *)
(* change that names it is released, so that readers can be shown the old  *)
(* value.  Values are natural numbers, which ItemsMut::sort compares.      *)
(***************************************************************************)
EXTENDS Integers, SequencesExt

CONSTANTS VecKey,   \* slab keys; any vacant one may be given out (external)
          Value,
          MaxItems  \* bound: items of a list

ASSUME ValueAssumption == Value \subseteq Nat /\ MaxItems \in Nat

NewVec == [kind |-> "vec", items |-> <<>>, values |-> <<>>]

Vacant(m) == VecKey \ DOMAIN m.values
Add1(f, k, v) == [x \in DOMAIN f \cup {k} |-> IF x = k THEN v ELSE f[x]]
Drop1(f, k) == [x \in DOMAIN f \ {k} |-> f[x]]
Edited(m, changes) == [model |-> m, changes |-> changes]

\* VecModel::insert_raw.
Inserted(m, i, k, v) == [m EXCEPT !.items = InsertAt(@, i, k), !.values = Add1(@, k, v)]

\* ItemsMut::insert (push inserts at the end).
InsertVec(m, i, k, v) ==
    Edited(Inserted(m, i, k, v),
           <<[op |-> "Insert", index |-> i, new |-> k]>>)

\* ItemsMut::remove.
RemoveVec(m, i) ==
    Edited([m EXCEPT !.items = RemoveAt(@, i)],
           <<[op |-> "Remove", index |-> i, old |-> m.items[i]]>>)

\* ItemsMut::set.
SetVec(m, i, k, v) ==
    Edited([m EXCEPT !.items[i] = k, !.values = Add1(@, k, v)],
           <<[op |-> "Set", index |-> i, old |-> m.items[i], new |-> k]>>)

Swapped(s, i, j) == [s EXCEPT ![i] = s[j], ![j] = s[i]]

\* ItemsMut::swap.
SwapVec(m, i, j) ==
    IF i = j THEN Edited(m, <<>>)
    ELSE Edited([m EXCEPT !.items = Swapped(@, i, j)],
                <<[op |-> "Swap", index |-> <<i, j>>]>>)

\* ItemsMut::swap_remove: a swap with the last item, then its removal.
SwapRemoveVec(m, i) ==
    LET last == Len(m.items)
        swap == SwapVec(m, i, last)
        rest == RemoveVec(swap.model, last)
    IN  Edited(rest.model, swap.changes \o rest.changes)

\* slice::rotate_left(1) and rotate_right(1) of the items from i to j.
RotateLeft(s, i, j) == [x \in DOMAIN s |-> CASE i <= x /\ x < j -> s[x + 1]
                                             [] x = j -> s[i]
                                             [] OTHER -> s[x]]
RotateRight(s, i, j) == [x \in DOMAIN s |-> CASE i < x /\ x <= j -> s[x - 1]
                                              [] x = i -> s[j]
                                              [] OTHER -> s[x]]

\* ItemsMut::move_item.
MoveVec(m, from, to) ==
    IF from = to THEN Edited(m, <<>>)
    ELSE Edited([m EXCEPT !.items = IF from < to THEN RotateLeft(@, from, to)
                                                 ELSE RotateRight(@, to, from)],
                <<[op |-> "Move", from |-> from, to |-> to]>>)

\* Mutant: the removals are recorded from the front.
DrainVecForward(m, i, j) ==
    Edited([m EXCEPT !.items = SubSeq(@, 1, i - 1) \o SubSeq(@, j, Len(@))],
           [x \in 1 .. j - i |-> [op |-> "Remove", index |-> i + x - 1,
                                  old |-> m.items[i + x - 1]]])

\* ItemsMut::drain of the items from i up to j, j excluded; clear drains all.
DrainVec(m, i, j) ==
    Edited([m EXCEPT !.items = SubSeq(@, 1, i - 1) \o SubSeq(@, j, Len(@))],
           [x \in 1 .. j - i |-> [op |-> "Remove", index |-> j - x, old |-> m.items[j - x]]])

-----------------------------------------------------------------------------
(* Sorting: utils.rs IndexNewToOld and VecModel::sort_as. *)

\* IndexNewToOld::build_old_to_new.
OldToNew(p) == [old \in DOMAIN p |-> CHOOSE new \in DOMAIN p : p[new] = old]

\* One round of apply_to, in st: the item at the place st.old goes home, by a swap with the
\* one there, or it is home and the next place is looked at.
Homed(n, st) ==
    LET new == st.o2n[st.old] IN
    IF new = st.old THEN [st EXCEPT !.old = IF @ = n THEN n ELSE @ + 1]
    ELSE [st EXCEPT !.s = Swapped(@, st.old, new), !.o2n = Swapped(@, st.old, new)]

\* IndexNewToOld::apply_to.  A swap brings one item home, so there are no more swaps than
\* places.
ApplyTo(p, s) ==
    LET n == Len(s)
        applied[i \in 0 .. 2 * n] == IF i = 0 THEN [s |-> s, o2n |-> OldToNew(p), old |-> 1]
                                     ELSE Homed(n, applied[i - 1])
    IN  applied[2 * n].s

ItemValue(m, i) == m.values[m.items[i]]

\* The orders sort_as may give.  For a stable sort it calls sort_unstable_by, for an
\* unstable one sort_by.
Orders(m, stable) ==
    LET n == Len(m.items) IN
    {p \in Bijection(1 .. n, 1 .. n) :
        /\ \A i \in 1 .. n - 1 : ItemValue(m, p[i]) <= ItemValue(m, p[i + 1])
        /\ ~stable => \A i \in 1 .. n - 1 :
                         ItemValue(m, p[i]) = ItemValue(m, p[i + 1]) => p[i] < p[i + 1]}

\* sort_as, ItemsMut::sort and sort_unstable: nothing is recorded when is_sorted(p).
SortVec(m, p) ==
    IF \A i \in DOMAIN p : p[i] = i THEN Edited(m, <<>>)
    ELSE Edited([m EXCEPT !.items = ApplyTo(p, @)], <<[op |-> "Sort", newToOld |-> p]>>)

\* Every call on an ItemsMut.
VecEdits(m) ==
    LET n == Len(m.items) IN
    UNION {
        {InsertVec(m, i, k, v) : i \in IF n < MaxItems THEN 1 .. n + 1 ELSE {},
                                 k \in Vacant(m), v \in Value},
        {SetVec(m, i, k, v) : i \in 1 .. n, k \in Vacant(m), v \in Value},
        {RemoveVec(m, i) : i \in 1 .. n},
        {SwapVec(m, i, j) : i, j \in 1 .. n},
        {SwapRemoveVec(m, i) : i \in 1 .. n},
        {MoveVec(m, i, j) : i, j \in 1 .. n},
        {DrainVec(m, r[1], r[2]) : r \in {x \in (1 .. n) \X (1 .. n + 1) : x[1] < x[2]}},
        {SortVec(m, p) : p \in Orders(m, TRUE) \cup Orders(m, FALSE)}}

-----------------------------------------------------------------------------
(* What is kept, released and shown. *)

\* The slab keys in use, and those of them that are in the list.
VecStored(m) == DOMAIN m.values
VecLive(m) == ToSet(m.items)

VecFrees(c) == IF c.op \in {"Remove", "Set"} THEN {c.old} ELSE {}
VecNames(c) == VecFrees(c) \cup (IF c.op \in {"Insert", "Set"} THEN {c.new} ELSE {})

\* Mutant: the old value of a Set is kept for ever.
VecReleaseRemoved(m, c) ==
    IF c.op = "Remove" THEN [m EXCEPT !.values = Drop1(@, c.old)] ELSE m

\* VecModel::release_change.
VecRelease(m, c) ==
    IF c.op \in {"Remove", "Set"} THEN [m EXCEPT !.values = Drop1(@, c.old)] ELSE m

VecView(m) == [i \in DOMAIN m.items |-> ItemValue(m, i)]

\* ChangeData::to_signal_vec_change: keys become the values they name.
VecResolve(m, c) ==
    CASE c.op = "Insert" -> [op |-> "Insert", index |-> c.index, new |-> m.values[c.new]]
      [] c.op = "Set" -> [op |-> "Set", index |-> c.index, old |-> m.values[c.old],
                          new |-> m.values[c.new]]
      [] c.op = "Remove" -> [op |-> "Remove", index |-> c.index, old |-> m.values[c.old]]
      [] OTHER -> c

\* Items::initial_changes.
VecInitial(m) == [i \in DOMAIN m.items |-> [op |-> "Insert", index |-> i, new |-> ItemValue(m, i)]]

\* A list following one VecChange, in the words of the public type.
VecReplay(s, d) ==
    CASE d.op = "Insert" -> InsertAt(s, d.index, d.new)
      [] d.op = "Remove" -> RemoveAt(s, d.index)
      [] d.op = "Set" -> [s EXCEPT ![d.index] = d.new]
      [] d.op = "Swap" -> Swapped(s, d.index[1], d.index[2])
      [] d.op = "Move" -> InsertAt(RemoveAt(s, d.from), d.to, s[d.from])
      [] d.op = "Sort" -> [i \in DOMAIN s |-> s[d.newToOld[i]]]
=============================================================================
