----------------------------- MODULE GlitchFree -----------------------------
(***************************************************************************)
(* What a user of the reactive graph is promised, with no caches, flags,   *)
(* bindings or queues: states change, and an effect that runs sees, all at *)
(* once, the values its closure computes from the states of that instant.  *)
(* The detailed graph (module Reactive) takes many steps to run a closure; *)
(* Reactive implements this specification with `store` and `obs` mapped to *)
(* the values of the State nodes and to what each closure last read.       *)
(***************************************************************************)
CONSTANTS State, Effect, Value,
          View(_, _)     \* View(store, e): the reads of e's closure over `store`

VARIABLES store,         \* the value of every State
          obs            \* the reads of the last complete run of every effect

vars == <<store, obs>>

NotRun == <<>>

Init == /\ store \in [State -> Value]
        /\ obs = [e \in Effect |-> NotRun]

Write(s, v) == /\ store' = [store EXCEPT ![s] = v]
               /\ UNCHANGED obs

Observe(e) == /\ obs' = [obs EXCEPT ![e] = View(store, e)]
              /\ UNCHANGED store

Next == \/ \E s \in State, v \in Value : Write(s, v)
        \/ \E e \in Effect : Observe(e)

Spec == Init /\ [][Next]_vars

=============================================================================
