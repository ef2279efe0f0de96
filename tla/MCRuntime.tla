----------------------------- MODULE MCRuntime -----------------------------
(* Small instances of the Runtime: two phases, the lower one the phase of the first task. *)
EXTENDS Runtime

CONSTANTS t1, t2, e1

Phases == {0, 1}
PhaseOfAll == [w \in Waiter |-> IF w = t1 /\ 0 \in Phase THEN 0 ELSE 1]
OnePhase == {1}
AnyPhase == {Phase}
SomePhases == {Phases, {1}}
=============================================================================
