---------------------------- MODULE SignalStream ----------------------------
(***************************************************************************)
(* The Stream that stream_from makes of a closure over signals             *)
(* (stream.rs).  An executor polls it; the runtime notifies it and runs    *)
(* the reaction that computes the next value.  Its source is one signal: a *)
(* state (it notifies "Dirty") or a cached one ("MaybeDirty", which the    *)
(* check may find unchanged).  The flag of its binding equals the          *)
(* dirtiness of its binder (BindingsAgree of Reactive).                    *)
(***************************************************************************)
EXTENDS DirtyFlags

VARIABLE stream  \* [value, scheduled, dirty, bound, stale, asleep]

\* stale: the source has changed since the closure last ran.
\* asleep: poll_next has answered Pending and the waker of that poll was not called.
Init == stream = [value |-> "None", scheduled |-> FALSE, dirty |-> "Dirty", bound |-> FALSE,
                  stale |-> TRUE, asleep |-> FALSE]

\* Stream::poll_next.  The value that is taken may be followed by another at any time.
PollNext == stream' =
    IF stream.value = "Ready"
    THEN [stream EXCEPT !.value = "None", !.asleep = FALSE]
    ELSE [stream EXCEPT !.value = "Pending", !.asleep = TRUE,
                        !.scheduled = @ \/ stream.dirty # "Clean"]

\* BindSink::notify, whether anybody polls or not.
Notify(level) ==
    /\ stream.bound
    /\ stream' = [stream EXCEPT !.dirty = ApplyNotify(@, level),
                                !.scheduled = @ \/ NeedsNotify(stream.dirty),
                                !.stale = @ \/ level = "Dirty"]

\* Mutant: the waker is taken out although there is no new value.
UpdateLosingWaker(changed) ==
    /\ stream.scheduled
    /\ stream' = IF stream.dirty = "Dirty" \/ (stream.dirty = "MaybeDirty" /\ changed)
                 THEN [stream EXCEPT !.scheduled = FALSE, !.dirty = "Clean", !.bound = TRUE,
                                     !.stale = FALSE, !.value = "Ready",
                                     !.asleep = @ /\ stream.value # "Pending"]
                 ELSE [stream EXCEPT !.scheduled = FALSE, !.dirty = "Clean",
                                     !.value = IF @ = "Pending" THEN "None" ELSE @]

\* Node::update, the reaction.
Update(changed) ==
    /\ stream.scheduled
    /\ stream' = IF stream.dirty = "Dirty" \/ (stream.dirty = "MaybeDirty" /\ changed)
                 THEN [stream EXCEPT !.scheduled = FALSE, !.dirty = "Clean", !.bound = TRUE,
                                     !.stale = FALSE, !.value = "Ready",
                                     !.asleep = @ /\ stream.value # "Pending"]
                 ELSE [stream EXCEPT !.scheduled = FALSE, !.dirty = "Clean"]

Updates == \E changed \in BOOLEAN : Update(changed)

Next == PollNext \/ Updates \/ \E level \in DirtyLevel : Notify(level)

-----------------------------------------------------------------------------
(* Properties. *)

\* What is ready is the value of now, or is about to be replaced; a consumer that sleeps has
\* left its waker.
ReadyIsCurrent ==
    /\ stream.value = "Ready" => stream.scheduled \/ ~stream.stale
    /\ stream.asleep => stream.value = "Pending"

\* A consumer that sleeps while the source has changed is woken, if reactions are dispatched.
ChangeWakesConsumer == (stream.asleep /\ stream.stale) ~> ~stream.asleep
=============================================================================
