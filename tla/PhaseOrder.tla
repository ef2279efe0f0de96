----------------------------- MODULE PhaseOrder -----------------------------
(***************************************************************************)
(* What the phased queues of actions and reactions stand for: one sequence *)
(* of items in the order of their phases and, in a phase, in the order in  *)
(* which they came.  Runtime is written with these operators; PhaseQueues  *)
(* shows that Buckets implements them.  An item x has a phase, x.phase.    *)
(***************************************************************************)
EXTENDS Integers, SequencesExt, Filter

CONSTANTS All  \* no restriction to a phase

OfPhase(q, p) == Kept(q, {y \in ToSet(q) : y.phase = p})
Below(q, p) == Kept(q, {y \in ToSet(q) : y.phase < p})
Above(q, p) == Kept(q, {y \in ToSet(q) : y.phase > p})

\* Mutant: among the items of its phase, the new one comes first.
PushFront(q, x) == Below(q, x.phase) \o <<x>> \o OfPhase(q, x.phase) \o Above(q, x.phase)

Push(q, x) == Below(q, x.phase) \o Append(OfPhase(q, x.phase), x) \o Above(q, x.phase)

\* One push after the other.
PushAll(q, r) ==
    LET pushed[i \in 0 .. Len(r)] == IF i = 0 THEN q ELSE Push(pushed[i - 1], r[i])
    IN  pushed[Len(r)]

Drained(q, p) == IF p = All THEN q ELSE OfPhase(q, p)
Remaining(q, p) == IF p = All THEN <<>> ELSE Below(q, p) \o Above(q, p)

\* The items of p without the first.
Popped(q, p) == Below(q, p) \o Tail(OfPhase(q, p)) \o Above(q, p)
=============================================================================
