---------------------------- MODULE PhaseQueues ----------------------------
(***************************************************************************)
(* The queues of actions and reactions as they are kept: Buckets           *)
(* (utils/buckets.rs), a map from phase ids to queues with the bounds of   *)
(* the ids in use, over ISizeMap (utils/isize_map.rs), an array of queues  *)
(* that starts at some id and grows at both ends.                          *)
(*                                                                         *)
(* Empty queues stay in the array, so that the bounds say what is empty;   *)
(* a bound that is off loses items or never lets a dispatch end.           *)
(***************************************************************************)
EXTENDS PhaseOrder, FiniteSetsExt

CONSTANTS Id,       \* ids of phases, a set of integers
          Item,     \* what is queued, each at most once at a time
          MaxId     \* isize::MAX, and -MaxId for isize::MIN

\* Assumed of the constants (Parts).
QueuesAssumption ==
    /\ Id \subseteq Int /\ MaxId \in Int /\ \A id \in Id : -MaxId < id /\ id < MaxId
    /\ All \notin Id

VARIABLES
    map,          \* Buckets::buckets: [base, values]
    start, last,  \* Buckets: bounds of the ids in use
    taken,        \* what the last call handed out, [phase, of] each
    order         \* what PhaseOrder says of the calls so far: [queue, taken]

vars == <<map, start, last, taken, order>>

-----------------------------------------------------------------------------
(* ISizeMap. *)

Within(m, id) == m.base <= id /\ id - m.base < Len(m.values)
At(m, id) == IF Within(m, id) THEN m.values[id - m.base + 1] ELSE <<>>

\* prepare: an array that reaches id.
Prepared(m, id) ==
    LET from == IF m.values = <<>> THEN id ELSE Min({m.base, id})
        to == IF m.values = <<>> THEN id ELSE Max({m.base + Len(m.values) - 1, id})
    IN  [base |-> from, values |-> [i \in 1 .. to - from + 1 |-> At(m, from + i - 1)]]

WithQueue(m, id, q) == [m EXCEPT !.values[id - m.base + 1] = q]

-----------------------------------------------------------------------------
(* Buckets. *)

IsEmpty == start = MaxId
Ids == {id \in start .. last : At(map, id) # <<>>}

\* Mutant: the last id stays when its queue becomes empty.
BoundsFromStart(m, id) ==
    LET s == IF start = id THEN Min({x \in start .. last + 1 : x > last \/ At(m, x) # <<>>})
             ELSE start
    IN  <<s, last>>

\* update_bounds, after the queue of id may have become empty.
Bounds(m, id) ==
    LET s == IF start = id THEN Min({x \in start .. last + 1 : x > last \/ At(m, x) # <<>>})
             ELSE start
        l == IF last = id THEN Max({x \in s - 1 .. last : x < s \/ At(m, x) # <<>>})
             ELSE last
    IN  IF s > l THEN <<MaxId, -MaxId>> ELSE <<s, l>>

Bounded(b) == start' = b[1] /\ last' = b[2]

\* push, of an item that is not queued.
PushItem(id, x) ==
    /\ map' = LET m == Prepared(map, id)
               IN  WithQueue(m, id, Append(At(m, id), [phase |-> id, of |-> x]))
    /\ start' = Min({start, id})
    /\ last' = Max({last, id})
    /\ taken' = <<>>
    /\ order' = [queue |-> Push(order.queue, [phase |-> id, of |-> x]), taken |-> <<>>]

\* pop_front; an empty queue gives nothing.
PopFront(id) ==
    /\ At(map, id) # <<>>
    /\ map' = WithQueue(map, id, Tail(At(map, id)))
    /\ Bounded(Bounds(map', id))
    /\ taken' = <<Head(At(map, id))>>
    /\ order' = [queue |-> Popped(order.queue, id), taken |-> <<Head(Drained(order.queue, id))>>]

Taking(p) == [queue |-> Remaining(order.queue, p), taken |-> Drained(order.queue, p)]

\* drain of one id, which need not be in the map.
DrainOne(id) ==
    /\ ~IsEmpty
    /\ map' = IF Within(map, id) THEN WithQueue(map, id, <<>>) ELSE map
    /\ Bounded(Bounds(map', id))
    /\ taken' = At(map, id)
    /\ order' = Taking(id)

\* drain of all ids, from the first bound to the last, then set_empty.
DrainAll ==
    /\ map' = [map EXCEPT !.values = [i \in DOMAIN @ |-> IF map.base + i - 1 \in start .. last
                                                         THEN <<>> ELSE @[i]]]
    /\ Bounded(<<MaxId, -MaxId>>)
    /\ taken' = FlattenSeq([i \in 1 .. last - start + 1 |-> At(map, start + i - 1)])
    /\ order' = Taking(All)

Init ==
    /\ map = [base |-> 0, values |-> <<>>]
    /\ start = MaxId /\ last = -MaxId
    /\ taken = <<>> /\ order = [queue |-> <<>>, taken |-> <<>>]

Next ==
    \/ \E id \in Id :
        \/ \E x \in Item \ {y.of : y \in ToSet(order.queue)} : PushItem(id, x)
        \/ PopFront(id) \/ DrainOne(id)
    \/ DrainAll

Spec == Init /\ [][Next]_vars

-----------------------------------------------------------------------------
(* Properties. *)

\* The bounds are exact: nothing is queued outside of them, and there is something at both,
\* so that is_empty, which wait_for_ready asks, and ids, which a new runtime checks against
\* its phases, tell the truth.
BoundsAreExact ==
    LET used == {id \in Id : At(map, id) # <<>>}
    IN  IF used = {} THEN IsEmpty /\ last = -MaxId
        ELSE start = Min(used) /\ last = Max(used) /\ Ids = used

\* The queues hold, and each call hands out, what the operators of PhaseOrder say.
QueuesImplementOrder == order = [queue |-> FlattenSeq(map.values), taken |-> taken]
=============================================================================
