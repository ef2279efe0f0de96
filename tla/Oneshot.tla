------------------------------ MODULE Oneshot ------------------------------
(***************************************************************************)
(* oneshot_broadcast (utils/sync/oneshot_broadcast.rs): a value that is    *)
(* sent once or more, and receivers, each a task on some thread, that wait *)
(* for it.  Every operation holds the mutex from end to end.               *)
(***************************************************************************)
EXTENDS Integers, FiniteSets

CONSTANTS Receiver, NoKey

Slot == 0 .. Cardinality(Receiver) - 1

\* Assumed of the constants (Parts).  (No key and no waker are None of an Option.)
ReceiversAssumption == NoKey \notin Receiver \cup Slot

VARIABLE shot  \* [sent, wakers, key, asleep]

\* wakers: the slab of wakers, the receiver of each key in use (SlabMap, external: a vacant
\* key is given out again).  key: WakerKeyGuard::key of each call of recv.
\* asleep: the receivers that were answered Pending and not woken since.
Init == shot = [sent |-> FALSE, wakers |-> [k \in Slot |-> NoKey],
                key |-> [r \in Receiver |-> NoKey], asleep |-> {}]

\* Sender::send.
Send == shot' = [shot EXCEPT !.sent = TRUE, !.wakers = [k \in Slot |-> NoKey],
                             !.asleep = @ \ {shot.wakers[k] : k \in Slot}]

\* A poll of recv: without a value, the waker of this poll replaces that of the last.
PollRecv(r) ==
    /\ ~shot.sent
    /\ \E k \in IF shot.key[r] = NoKey THEN {x \in Slot : shot.wakers[x] = NoKey}
                ELSE {shot.key[r]} :
          shot' = [shot EXCEPT !.wakers[k] = r, !.key[r] = k, !.asleep = @ \cup {r}]

\* The call of recv ends, with the value or because its future is dropped:
\* WakerKeyGuard::drop removes its key, if send has not done so.
EndRecv(r) ==
    /\ shot.key[r] # NoKey
    /\ shot' = [shot EXCEPT !.wakers[shot.key[r]] = NoKey, !.key[r] = NoKey,
                            !.asleep = @ \ {r}]

Next == Send \/ \E r \in Receiver : PollRecv(r) \/ EndRecv(r)

-----------------------------------------------------------------------------
(* Properties. *)

\* A receiver that sleeps has a waker of its own under its key, so that no send is missed and
\* no call of recv removes the waker of another.
SleepersHaveWakers ==
    \A r \in shot.asleep : ~shot.sent /\ shot.key[r] # NoKey /\ shot.wakers[shot.key[r]] = r
=============================================================================
