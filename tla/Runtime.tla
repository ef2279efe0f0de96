------------------------------ MODULE Runtime ------------------------------
(***************************************************************************)
(* The Runtime of sigmut and the globals it works on (core.rs): the phased *)
(* queues, flush and the other dispatch functions, asynchronous actions,   *)
(* the wake table and the requests that other threads put into it,         *)
(* wait_for_ready on a lent runtime, Runtime::call, and a runtime that     *)
(* ends and is followed by another one on the same thread.                 *)
(*                                                                         *)
(* The main thread is a stack of calls: at is the runtime function under   *)
(* way, code the user code it has called.  User code may do one operation  *)
(* after another before it returns.  Other threads only hold clones of     *)
(* wakers; each of their steps is one critical section of RawWakeRequests. *)
(*                                                                         *)
(* Waiters, the owners of wakers, are asynchronous actions (Task) and      *)
(* asynchronous effects (Effect, effect_async_fn.rs).  A task is started,  *)
(* and an effect created, at most once.  An effect reads one State.        *)
(*                                                                         *)
(* Definitions marked "Mutant" are plausible mistakes in the operation     *)
(* that follows them; nothing uses them.  Each breaks a property below.    *)
(***************************************************************************)
EXTENDS PhaseOrder

CONSTANTS
    Task, Effect,
    Phase,        \* ids of phases, for actions and for reactions
    PhaseOf,      \* the phase of each waiter
    Config,       \* the values of RuntimeConfig::action_phases users choose from
    Key,          \* indices of WakeTable::reactions
    None,         \* no value
    Use,          \* the calls users make on a runtime besides wait_for_ready
    Hold,         \* the effects whose Subscription users move into an action
    MaxActions,   \* bound: closures scheduled and not finished
    MaxNotifys,   \* bound: pending loose notifications
    MaxDiscards,  \* bound: pending discards
    MaxRuntimes   \* bound: runtimes created on the thread

Waiter == Task \cup Effect
Item == [phase : Phase, do : {"code", "start", "next", "run", "poll"}, of : Waiter \cup {None}]
Notify == [of : Effect, slot : {"wake", "deps"}]
Dispatcher == {"action", "actions", "reactions", "discards", "flush"}
Call == Dispatcher \cup {"context", "lend", "drop"}

ASSUME RuntimeAssumption ==
    /\ Task \cap Effect = {} /\ Hold \subseteq Effect
    /\ Phase \subseteq Int /\ PhaseOf \in [Waiter -> Phase]
    /\ Config \subseteq SUBSET Phase
    /\ Use \subseteq Call
    /\ None \notin Waiter /\ None \notin Key /\ None \notin Config
    /\ None \notin Item /\ None \notin Phase /\ None \notin Dispatcher /\ All \notin Phase
    /\ {MaxActions, MaxNotifys, MaxDiscards, MaxRuntimes} \subseteq Nat

VARIABLES
    config,     \* Globals::runtime_config: the valid action phases, or None
    actions,    \* Globals::actions
    reactions,  \* Globals::reactions
    notifys,    \* Globals::notifys
    unbinds,    \* Globals::unbinds: dropped effects with a binding left
    needWake,   \* Globals::need_wake
    table,      \* WakeTable::reactions: the waiter at each key
    wakes,      \* RawWakeRequests::wakes
    drops,      \* RawWakeRequests::drops
    waker,      \* RawWakeRequests::waker is set
    tasks,      \* RuntimeData::async_actions
    discards,   \* RuntimeData::discards: how many
    life,       \* of a waiter: new, spawned (a task in a queue), live, done
    key,        \* RawWake::key of a waiter's waker
    held,       \* what a waiter awaits holds a clone of its waker
    waking,     \* a thread is between RawWake::wake and the drop of its clone
    ready,      \* what a waiter awaits has happened
    fut,        \* an effect has a future under way
    dirty,      \* AsyncSourceBinder::dirty of an effect
    isWake,     \* AsyncSourceBinder::is_wake of an effect
    bound,      \* an effect's binding to its State exists
    raw,        \* who has the RawRuntime: owner, globals, caller or none
    wait,       \* the wait_for_ready under way: none, poll, parked, ready
    at, back,   \* the runtime function under way, and the one that called it
    fn, arg,    \* the dispatch function users called, and its phase
    handled,    \* its local variable of that name
    batch,      \* the actions or reactions taken out for dispatch
    nbatch,     \* the notifications taken out by apply_notify
    code,       \* the user code running, or None
    runtimes,   \* history: how many runtimes have been created
    woken,      \* history: a waiter was woken since it was polled last
    fault       \* history: the panic that ended the thread

queues == <<config, actions, reactions, notifys, unbinds>>
wakers == <<needWake, waker, wait>>
requests == <<table, key, wakes, drops>>
data == <<tasks, discards>>
arcs == <<held, waking, ready>>
effects == <<fut, dirty, isWake, bound>>
place == <<at, back, fn, arg, handled, batch, nbatch>>
history == <<runtimes, woken, fault>>
vars == <<queues, wakers, requests, data, life, arcs, effects, raw, place, code, history>>

-----------------------------------------------------------------------------
(* What is queued. *)

ActionItem(p, what, e) == [phase |-> p, do |-> what, of |-> e]
Reaction(e) == ActionItem(PhaseOf[e], "run", e)

-----------------------------------------------------------------------------
(* Wakers.  A waiter's RawWake lives while the waiter or anyone else has a clone. *)

Polling(e) == code # None /\ code.do = "poll" /\ code.of = e

\* Whether somebody would miss a wake.
Awaiting(e) == life[e] = "live" /\ (e \in Effect => fut[e])

\* Mutant: only the future's own waker is looked at.
LastClonesOwn(gone) == {key[e] : e \in {x \in gone : key[x] # None}}

\* RawWake::drop, for those of the waiters gone whose last clone this is.
LastClones(gone) == {key[e] : e \in {x \in gone : key[x] # None /\ ~held[x] /\ ~waking[x]}}

\* RawWakeRequests::wake.
TakeWaker ==
    /\ waker' = FALSE
    /\ wait' = IF waker /\ wait = "parked" THEN "poll" ELSE wait

\* Mutant: need_wake is not set back, and the waker is only taken by other threads.
GlobalsWakeNever == UNCHANGED wakers

\* Globals::wake.
GlobalsWake ==
    IF needWake THEN needWake' = FALSE /\ TakeWaker ELSE UNCHANGED wakers

\* WakeTable::insert.  The slab returns any free index.
InsertWaker(e) ==
    \E k \in Key :
        /\ table[k] = None
        /\ table' = [table EXCEPT ![k] = e]
        /\ key' = [key EXCEPT ![e] = k]
        /\ UNCHANGED <<wakes, drops>>

-----------------------------------------------------------------------------
(* Globals::apply_wake, in one critical section: first the drops, then the wakes. *)

Swept == [k \in Key |-> IF k \in drops THEN None ELSE table[k]]

Hits(kind) == Kept(wakes, {k \in Key : Swept[k] \in kind})

\* Mutant: only the first wake is applied.
WokenActionsFirst ==
    IF Hits(Task) = <<>> THEN actions
    ELSE LET t == Swept[Hits(Task)[1]] IN Push(actions, ActionItem(PhaseOf[t], "next", t))

NextItem(t) == ActionItem(PhaseOf[t], "next", t)

WokenActions ==
    PushAll(actions, [i \in DOMAIN Hits(Task) |-> NextItem(Swept[Hits(Task)[i]])])

WokenNotifys ==
    notifys \o [i \in DOMAIN Hits(Effect) |-> [of |-> Swept[Hits(Effect)[i]], slot |-> "wake"]]

\* RuntimeConfig::assert_valid_action_phase under push_action.
PhasesValid ==
    \A i \in DOMAIN Hits(Task) :
        config # None => PhaseOf[Swept[Hits(Task)[i]]] \in config

\* Mutant: a wake that finds no entry stays in the requests.
ApplyWakeSkipped ==
    /\ PhasesValid
    /\ table' = Swept
    /\ key' = [e \in Waiter |-> IF key[e] \in drops THEN None ELSE key[e]]
    /\ wakes' = SelectSeq(wakes, LAMBDA k : Swept[k] = None)
    /\ drops' = {}

ApplyWake ==
    /\ PhasesValid
    /\ table' = Swept
    /\ key' = [e \in Waiter |-> IF key[e] \in drops THEN None ELSE key[e]]
    /\ wakes' = <<>>
    /\ drops' = {}

-----------------------------------------------------------------------------
(* What user code does. *)

Running == fault = "none"
UserCode ==
    /\ Running
    /\ \/ at = "user"
       \/ at \in {"actions", "react"} /\ code # None
HasContext ==
    /\ Running
    /\ \/ at = "user" /\ raw \in {"owner", "caller"}
       \/ at = "actions" /\ code # None

ValidPhase(p) == config # None => p \in config

Closures(q) == Len(SelectSeq(q, LAMBDA y : y.do = "code"))
Closing == IF code # None /\ code.do = "code" THEN 1 ELSE 0
Moved(e) == \E q \in {actions, batch, <<code>>} : \E i \in DOMAIN q :
                q[i] # None /\ q[i].do = "code" /\ q[i].of = e

\* spawn_action_in, whose closure may own the Subscription of an effect.
SpawnAction(p, e) ==
    /\ UserCode
    /\ Closures(actions) + Closures(IF at = "actions" THEN batch ELSE <<>>) + Closing < MaxActions
    /\ e \in Effect => e \in Hold /\ life[e] = "live" /\ ~Moved(e)
    /\ ValidPhase(p)
    /\ actions' = Push(actions, ActionItem(p, "code", e))
    /\ GlobalsWake
    /\ UNCHANGED <<config, reactions, notifys, unbinds, requests, data, life, arcs, effects,
                   raw, place, code, history>>

\* spawn_action_async_in.
SpawnAsync(t) ==
    /\ UserCode
    /\ life[t] = "new"
    /\ ValidPhase(PhaseOf[t])
    /\ life' = [life EXCEPT ![t] = "spawned"]
    /\ actions' = Push(actions, ActionItem(PhaseOf[t], "start", t))
    /\ GlobalsWake
    /\ UNCHANGED <<config, reactions, notifys, unbinds, requests, data, arcs, effects, raw,
                   place, code, history>>

\* effect_async_in.
Subscribe(e) ==
    /\ UserCode
    /\ life[e] = "new"
    /\ life' = [life EXCEPT ![e] = "live"]
    /\ InsertWaker(e)
    /\ dirty' = [dirty EXCEPT ![e] = TRUE]
    /\ reactions' = Push(reactions, Reaction(e))
    /\ GlobalsWake
    /\ UNCHANGED <<config, actions, notifys, unbinds, data, arcs, fut, isWake, bound, raw,
                   place, code, history>>

\* The nodes of effects are freed: their waker, their future and their SourceBindings.
DropNodes(gone) ==
    /\ life' = [e \in Waiter |-> IF e \in gone THEN "done" ELSE life[e]]
    /\ fut' = [e \in Effect |-> fut[e] /\ e \notin gone]
    /\ drops' = drops \cup LastClones(gone)
    /\ unbinds' = unbinds \cup {e \in gone \cap Effect : bound[e]}

\* A user drops the Subscription of an effect that is not running.
Unsubscribe(e) ==
    /\ UserCode
    /\ life[e] = "live" /\ ~Moved(e) /\ ~Polling(e)
    /\ DropNodes({e})
    /\ UNCHANGED <<config, actions, reactions, notifys, wakers, table, key, wakes, data, arcs,
                   dirty, isWake, bound, raw, place, code, history>>

\* The end of a borrow_mut_loose guard of the State e reads: Globals::push_notify.
LooseNotify(e) ==
    /\ UserCode
    /\ bound[e]
    /\ Len(notifys) < MaxNotifys
    /\ notifys' = Append(notifys, [of |-> e, slot |-> "deps"])
    /\ GlobalsWake
    /\ UNCHANGED <<config, actions, reactions, unbinds, requests, data, life, arcs, effects,
                   raw, place, code, history>>

\* AsyncSourceBinder::on_notify and the scheduling of the effect's reaction.
Notified(e, slot) ==
    LET new == life[e] = "live" /\ ~(IF slot = "wake" THEN isWake[e] ELSE dirty[e])
    IN  /\ IF slot = "wake"
           THEN isWake' = [isWake EXCEPT ![e] = @ \/ life[e] = "live"] /\ UNCHANGED dirty
           ELSE dirty' = [dirty EXCEPT ![e] = @ \/ life[e] = "live"] /\ UNCHANGED isWake
        /\ IF new THEN reactions' = Push(reactions, Reaction(e)) /\ GlobalsWake
                  ELSE UNCHANGED <<reactions, wakers>>

\* State::set with an ActionContext.
SetState(e) ==
    /\ HasContext
    /\ bound[e]
    /\ Notified(e, "deps")
    /\ UNCHANGED <<config, actions, notifys, unbinds, requests, data, life, arcs, fut, bound,
                   raw, place, code, history>>

-----------------------------------------------------------------------------
(* Who has the RawRuntime. *)

\* Runtime::new_with_config; it panics in the other cases and changes nothing.
NewRuntime(c) ==
    /\ UserCode
    /\ raw = "none"
    /\ runtimes < MaxRuntimes
    /\ \A i \in DOMAIN actions : actions[i].phase \in c
    /\ config' = c
    /\ raw' = "owner"
    /\ runtimes' = runtimes + 1
    /\ UNCHANGED <<actions, reactions, notifys, unbinds, wakers, requests, data, life, arcs,
                   effects, place, code, woken, fault>>

\* Runtime::lend, and the creation of the wait_for_ready future.
Lend ==
    /\ "lend" \in Use
    /\ UserCode /\ at = "user"
    /\ raw = "owner"
    /\ raw' = "globals"
    /\ wait' = "poll"
    /\ UNCHANGED <<queues, needWake, waker, requests, data, life, arcs, effects, place, code,
                   history>>

\* The end of the loan; the future may be dropped before it is ready.
Unlend ==
    /\ UserCode /\ at = "user"
    /\ raw = "globals"
    /\ raw' = "owner"
    /\ wait' = "none"
    /\ UNCHANGED <<queues, needWake, waker, requests, data, life, arcs, effects, place, code,
                   history>>

\* Mutant: the requests of other threads are not looked at.
NothingToDoHere == notifys = <<>> /\ actions = <<>> /\ reactions = <<>> /\ unbinds = {}

NothingToDo == /\ notifys = <<>> /\ actions = <<>> /\ reactions = <<>> /\ unbinds = {}
               /\ drops = {} /\ wakes = <<>>

\* Globals::wait_for_ready, polled by the executor.  The queues are the thread's own, so the
\* critical section is the last thing it does.
PollWait ==
    /\ UserCode /\ at = "user"
    /\ raw = "globals"
    /\ wait = "poll"
    /\ IF NothingToDo
       THEN wait' = "parked" /\ waker' = TRUE /\ needWake' = TRUE
       ELSE wait' = "ready" /\ needWake' = FALSE /\ UNCHANGED waker
    /\ UNCHANGED <<queues, requests, data, life, arcs, effects, raw, place, code, history>>

\* Runtime::try_call from other code of the thread while the runtime is lent.
EnterCall ==
    /\ UserCode /\ at = "user"
    /\ raw = "globals"
    /\ raw' = "caller"
    /\ UNCHANGED <<queues, wakers, requests, data, life, arcs, effects, place, code, history>>

\* The closure of try_call returns: Drop of a Runtime that is not owned.
LeaveCall ==
    /\ UserCode /\ at = "user"
    /\ raw = "caller"
    /\ raw' = "globals"
    /\ UNCHANGED <<queues, wakers, requests, data, life, arcs, effects, place, code, history>>

\* Mutant: the tasks are left to the next runtime.
CancelledNone == {}

\* RawRuntime::cancel_async_actions takes every future.
Cancelled == tasks

Discarded == {e \in Waiter : \E i \in DOMAIN actions :
                                 actions[i].do # "next" /\ actions[i].of = e}

\* Drop of the owned Runtime: the tasks are cancelled, then finish_runtime drops what is queued
\* while Globals is borrowed.  A dropped SourceBindings borrows it again.
DropRuntime ==
    /\ "drop" \in Use
    /\ UserCode /\ at = "user"
    /\ raw = "owner"
    /\ runtimes < MaxRuntimes
    /\ IF \E e \in Discarded \cap Effect : bound[e]
       THEN fault' = "borrow"
            /\ UNCHANGED <<queues, requests, data, life, effects, raw>>
       ELSE /\ DropNodes(Cancelled \cup Discarded)
            /\ tasks' = tasks \ Cancelled
            /\ discards' = 0
            /\ config' = None
            /\ actions' = <<>> /\ reactions' = <<>>
            /\ raw' = "none"
            /\ UNCHANGED <<notifys, table, key, wakes, dirty, isWake, bound, fault>>
    /\ UNCHANGED <<wakers, arcs, place, code, runtimes, woken>>

-----------------------------------------------------------------------------
(* What waiters await, on other threads. *)

Fire(e) ==
    /\ Running
    /\ life[e] = "live" /\ ~ready[e]
    /\ ready' = [ready EXCEPT ![e] = TRUE]
    /\ UNCHANGED <<queues, wakers, requests, data, life, held, waking, effects, raw, place,
                   code, history>>

\* RawWake::wake, by anyone and with or without a reason.
Wake(e) ==
    /\ Running
    /\ held[e] /\ ~waking[e]
    /\ wakes' = Append(wakes, key[e])
    /\ TakeWaker
    /\ held' = [held EXCEPT ![e] = FALSE]
    /\ waking' = [waking EXCEPT ![e] = TRUE]
    /\ woken' = [woken EXCEPT ![e] = Awaiting(e)]
    /\ UNCHANGED <<queues, needWake, table, key, drops, data, life, ready, effects, raw, place,
                   code, runtimes, fault>>

\* Mutant: every clone that is dropped asks for the removal of the entry.
ReleaseEach(e) ==
    /\ Running
    /\ waking[e]
    /\ waking' = [waking EXCEPT ![e] = FALSE]
    /\ drops' = drops \cup {key[e]}
    /\ UNCHANGED <<queues, wakers, table, key, wakes, data, life, held, ready, effects, raw,
                   place, code, history>>

\* The clone that was consumed by wake is dropped.
Release(e) ==
    /\ Running
    /\ waking[e]
    /\ waking' = [waking EXCEPT ![e] = FALSE]
    /\ drops' = IF life[e] = "live" \/ held[e] THEN drops ELSE drops \cup {key[e]}
    /\ UNCHANGED <<queues, wakers, table, key, wakes, data, life, held, ready, effects, raw,
                   place, code, history>>

\* A clone nobody needs any more is dropped without a wake.
Forget(e) ==
    /\ Running
    /\ held[e] /\ ~Awaiting(e)
    /\ held' = [held EXCEPT ![e] = FALSE]
    /\ drops' = IF life[e] = "live" \/ waking[e] THEN drops ELSE drops \cup {key[e]}
    /\ UNCHANGED <<queues, wakers, table, key, wakes, data, life, waking, ready, effects, raw,
                   place, code, history>>

-----------------------------------------------------------------------------
(* Calls of the dispatch functions, and of a context. *)

EntryOf(f) == CASE f \in {"action", "actions", "flush"} -> "actions"
                [] f = "reactions" -> "unbind"
                [] f = "discards" -> "discard"

\* Runtime::dispatch_action, dispatch_actions, dispatch_reactions, dispatch_discards, flush.
Dispatch(f, p) ==
    /\ f \in Use
    /\ UserCode /\ at = "user"
    /\ raw \in {"owner", "caller"}
    /\ CASE f = "action" -> p \in config
         [] f = "actions" -> p \in config \cup {All}
         [] f = "reactions" -> p \in Phase \cup {All}
         [] OTHER -> p = All
    /\ fn' = f
    /\ arg' = p
    /\ handled' = FALSE
    /\ at' = EntryOf(f)
    /\ back' = "react"
    /\ UNCHANGED <<queues, wakers, requests, data, life, arcs, effects, raw, batch, nbatch,
                   code, history>>

\* ActionContext::sc or rc, or those of Runtime: apply_notify first.
OpenContext ==
    /\ "context" \in Use
    /\ HasContext
    /\ at' = "unbind"
    /\ back' = at
    /\ UNCHANGED <<queues, wakers, requests, data, life, arcs, effects, raw, fn, arg, handled,
                   batch, nbatch, code, history>>

Finish == at' = "user" /\ fn' = None /\ arg' = All /\ handled' = FALSE

-----------------------------------------------------------------------------
(* RawRuntime::dispatch_action and dispatch_actions_with. *)

Idle(place_) == Running /\ at = place_ /\ code = None /\ batch = <<>>

\* Globals::get_action; without an action, dispatch_action returns.
GetAction ==
    /\ Idle("actions") /\ fn = "action"
    /\ IF handled THEN Finish /\ UNCHANGED <<requests, actions, batch>>
       ELSE /\ ApplyWake
            /\ LET mine == Drained(WokenActions, arg) IN
               IF mine = <<>> THEN Finish /\ actions' = WokenActions /\ UNCHANGED batch
               ELSE /\ batch' = <<Head(mine)>>
                    /\ actions' = Popped(WokenActions, arg)
                    /\ handled' = TRUE
                    /\ UNCHANGED <<at, fn, arg>>
    /\ notifys' = IF handled THEN notifys ELSE WokenNotifys
    /\ UNCHANGED <<config, reactions, unbinds, wakers, data, life, arcs, effects, raw, back,
                   nbatch, code, history>>

\* Globals::get_actions; without an action, dispatch_actions_with returns and flush goes on.
GetActions ==
    /\ Idle("actions") /\ fn \in {"actions", "flush"}
    /\ ApplyWake
    /\ notifys' = WokenNotifys
    /\ batch' = Drained(WokenActions, arg)
    /\ actions' = Remaining(WokenActions, arg)
    /\ IF batch' # <<>> THEN handled' = TRUE /\ UNCHANGED <<at, back, fn, arg>>
       ELSE IF fn = "actions" THEN Finish /\ UNCHANGED back
       ELSE /\ at' = IF handled THEN "actions" ELSE "unbind"
            /\ back' = "react"
            /\ handled' = FALSE
            /\ UNCHANGED <<fn, arg>>
    /\ UNCHANGED <<config, reactions, unbinds, wakers, data, life, arcs, effects, raw, nbatch,
                   code, history>>

Poll(e) == /\ code' = ActionItem(PhaseOf[e], "poll", e)
           /\ woken' = [woken EXCEPT ![e] = FALSE]

\* Action::call: a closure, AsyncAction::start or AsyncAction::next.
CallAction ==
    /\ Running /\ at = "actions" /\ code = None /\ batch # <<>>
    /\ batch' = Tail(batch)
    /\ LET x == Head(batch) IN
       \/ /\ x.do = "code"
          /\ code' = x
          /\ UNCHANGED <<requests, tasks, life, woken>>
       \/ \E t \in Task :
          /\ x.do = "start" /\ x.of = t
          /\ life[t] = "spawned"
          /\ life' = [life EXCEPT ![t] = "live"]
          /\ tasks' = tasks \cup {t}
          /\ InsertWaker(t)
          /\ Poll(t)
       \/ \E t \in Task :
          /\ x.do = "next" /\ x.of = t
          /\ IF life[t] = "live" THEN Poll(t) ELSE UNCHANGED <<code, woken>>
          /\ UNCHANGED <<requests, tasks, life>>
    /\ UNCHANGED <<queues, wakers, discards, arcs, effects, raw, at, back, fn, arg, handled,
                   nbatch, runtimes, fault>>

\* A closure ends; the Subscription it owned is dropped.
CodeReturns ==
    /\ Running /\ at = "actions" /\ code # None /\ code.do = "code"
    /\ code' = None
    /\ DropNodes({e \in Effect : code.of = e})
    /\ UNCHANGED <<config, actions, reactions, notifys, wakers, table, key, wakes, data, arcs,
                   dirty, isWake, bound, raw, place, history>>

\* AsyncAction::next after the poll: Ready takes the data with the waker, Pending leaves a
\* clone of the waker with what is awaited.
TaskPolled(t) ==
    /\ Running /\ at = "actions" /\ Polling(t)
    /\ code' = None
    /\ IF ready[t]
       THEN /\ life' = [life EXCEPT ![t] = "done"]
            /\ tasks' = tasks \ {t}
            /\ drops' = drops \cup LastClones({t})
            /\ UNCHANGED held
       ELSE held' = [held EXCEPT ![t] = TRUE] /\ UNCHANGED <<life, tasks, drops>>
    /\ UNCHANGED <<queues, wakers, table, key, wakes, discards, waking, ready, effects, raw,
                   place, history>>

-----------------------------------------------------------------------------
(* RawRuntime::apply_notify: first the unbindings, then the notifications. *)

\* One SourceBindingsData of apply_unbind.  Its source may be a signal, which then has to be
\* discarded.
Unbind(e) ==
    /\ Running /\ at = "unbind"
    /\ e \in unbinds
    /\ unbinds' = unbinds \ {e}
    /\ bound' = [bound EXCEPT ![e] = FALSE]
    /\ discards' \in {d \in {discards, discards + 1} : d <= MaxDiscards}
    /\ UNCHANGED <<config, actions, reactions, notifys, wakers, requests, tasks, life, arcs,
                   fut, dirty, isWake, raw, place, code, history>>

UnbindsDone ==
    /\ Running /\ at = "unbind"
    /\ unbinds = {}
    /\ at' = IF back = "discard" THEN "discard" ELSE "notify"
    /\ back' = IF back = "discard" THEN "react" ELSE back
    /\ UNCHANGED <<queues, wakers, requests, data, life, arcs, effects, raw, fn, arg, handled,
                   batch, nbatch, code, history>>

\* NotifyReaction::call_notify.
CallNotify ==
    /\ Running /\ at = "notify"
    /\ nbatch # <<>>
    /\ Notified(Head(nbatch).of, Head(nbatch).slot)
    /\ nbatch' = Tail(nbatch)
    /\ UNCHANGED <<config, actions, notifys, unbinds, requests, data, life, arcs, fut, bound,
                   raw, at, back, fn, arg, handled, batch, code, history>>

\* Globals::get_notifys.  Without a notification, apply_notify returns: to
\* dispatch_reactions_with, which takes out the reactions, or to the user of the context, who
\* may read a signal that then has to be discarded.
GetNotifys ==
    /\ Running /\ at = "notify"
    /\ nbatch = <<>>
    /\ ApplyWake
    /\ nbatch' = WokenNotifys
    /\ notifys' = <<>>
    /\ actions' = WokenActions
    /\ IF WokenNotifys # <<>>
       THEN UNCHANGED <<at, back, handled, batch, reactions, discards>>
       ELSE /\ at' = back
            /\ back' = "react"
            /\ IF back = "react"
               THEN /\ batch' = Drained(reactions, arg)
                    /\ reactions' = Remaining(reactions, arg)
                    /\ handled' = (batch' # <<>>)
                    /\ UNCHANGED discards
               ELSE /\ discards' \in {d \in {discards, discards + 1} : d <= MaxDiscards}
                    /\ UNCHANGED <<batch, reactions, handled>>
    /\ UNCHANGED <<config, unbinds, wakers, tasks, life, arcs, effects, raw, fn, arg, code,
                   history>>

\* apply_wake panics while it holds the lock.
PhasePanic ==
    /\ Running
    /\ \/ Idle("actions") /\ ~(fn = "action" /\ handled)
       \/ at = "notify" /\ nbatch = <<>>
    /\ ~PhasesValid
    /\ fault' = "phase"
    /\ UNCHANGED <<queues, wakers, requests, data, life, arcs, effects, raw, place, code,
                   runtimes, woken>>

-----------------------------------------------------------------------------
(* RawRuntime::dispatch_reactions_with and dispatch_discards. *)

\* Reaction::run: EffectAsyncNode::call up to the poll of the future.
RunReaction ==
    /\ Running /\ at = "react" /\ code = None /\ batch # <<>>
    /\ batch' = Tail(batch)
    /\ \E e \in Effect :
       /\ Head(batch).of = e
       /\ IF life[e] # "live" \/ ~(dirty[e] \/ isWake[e])
          THEN UNCHANGED <<effects, code, woken>>
          ELSE /\ dirty' = [dirty EXCEPT ![e] = FALSE]
               /\ fut' = [fut EXCEPT ![e] = @ \/ dirty[e]]
               /\ bound' = [bound EXCEPT ![e] = @ /\ ~dirty[e]]
               /\ isWake' = [isWake EXCEPT ![e] = @ /\ ~fut'[e]]
               /\ IF fut'[e] THEN Poll(e) ELSE UNCHANGED <<code, woken>>
    /\ UNCHANGED <<queues, wakers, requests, data, life, arcs, raw, at, back, fn, arg, handled,
                   nbatch, runtimes, fault>>

\* EffectAsyncNode::call after the poll, in which the closure has read its State.
EffectPolled(e) ==
    /\ Running /\ at = "react" /\ Polling(e)
    /\ code' = None
    /\ bound' = [bound EXCEPT ![e] = TRUE]
    /\ IF ready[e] THEN fut' = [fut EXCEPT ![e] = FALSE] /\ UNCHANGED held
                   ELSE held' = [held EXCEPT ![e] = TRUE] /\ UNCHANGED fut
    /\ UNCHANGED <<queues, wakers, requests, data, life, waking, ready, dirty, isWake, raw,
                   place, history>>

\* Mutant: flush goes on to the discards although reactions have run.
ReactionsDoneOnce ==
    /\ Idle("react")
    /\ IF fn = "reactions" THEN Finish
       ELSE at' = "discard" /\ handled' = FALSE /\ UNCHANGED <<fn, arg>>
    /\ UNCHANGED <<queues, wakers, requests, data, life, arcs, effects, raw, back, batch,
                   nbatch, code, history>>

\* Out of reactions: dispatch_reactions_with returns, and flush goes on.
ReactionsDone ==
    /\ Idle("react")
    /\ IF fn = "reactions" THEN Finish
       ELSE /\ at' = IF handled THEN "actions" ELSE "discard"
            /\ handled' = FALSE
            /\ UNCHANGED <<fn, arg>>
    /\ UNCHANGED <<queues, wakers, requests, data, life, arcs, effects, raw, back, batch,
                   nbatch, code, history>>

RunDiscard ==
    /\ Running /\ at = "discard"
    /\ discards > 0
    /\ discards' = discards - 1
    /\ handled' = TRUE
    /\ UNCHANGED <<queues, wakers, requests, tasks, life, arcs, effects, raw, at, back, fn, arg,
                   batch, nbatch, code, history>>

DiscardsReturn ==
    IF fn = "flush" /\ handled
    THEN at' = "actions" /\ handled' = FALSE /\ UNCHANGED <<fn, arg>>
    ELSE Finish

\* dispatch_discards without a discard: apply_unbind, then it returns.
DiscardsDone ==
    /\ Running /\ at = "discard"
    /\ discards = 0
    /\ IF unbinds # {} THEN at' = "unbind" /\ back' = "discard" /\ handled' = TRUE
                            /\ UNCHANGED <<fn, arg>>
                       ELSE DiscardsReturn /\ UNCHANGED back
    /\ UNCHANGED <<queues, wakers, requests, data, life, arcs, effects, raw, batch, nbatch,
                   code, history>>

-----------------------------------------------------------------------------
Init ==
    /\ config = None /\ actions = <<>> /\ reactions = <<>> /\ notifys = <<>> /\ unbinds = {}
    /\ needWake = FALSE /\ waker = FALSE /\ wait = "none"
    /\ table = [k \in Key |-> None] /\ key = [e \in Waiter |-> None]
    /\ wakes = <<>> /\ drops = {}
    /\ tasks = {} /\ discards = 0
    /\ life = [e \in Waiter |-> "new"]
    /\ held = [e \in Waiter |-> FALSE] /\ waking = held /\ ready = held
    /\ fut = [e \in Effect |-> FALSE] /\ dirty = fut /\ isWake = fut /\ bound = fut
    /\ raw = "none"
    /\ at = "user" /\ back = "react" /\ fn = None /\ arg = All /\ handled = FALSE
    /\ batch = <<>> /\ nbatch = <<>>
    /\ code = None
    /\ runtimes = 0 /\ woken = held /\ fault = "none"

\* After a panic the thread is gone.
Halted == fault # "none" /\ UNCHANGED vars

UserStep ==
    \/ \E p \in Phase, e \in Effect \cup {None} : SpawnAction(p, e)
    \/ \E t \in Task : SpawnAsync(t)
    \/ \E e \in Effect : Subscribe(e) \/ Unsubscribe(e) \/ LooseNotify(e) \/ SetState(e)
    \/ \E c \in Config : NewRuntime(c)
    \/ \E f \in Dispatcher, p \in Phase \cup {All} : Dispatch(f, p)
    \/ OpenContext \/ Lend \/ Unlend \/ EnterCall \/ LeaveCall \/ DropRuntime

\* The code that runs once it is called, user code in it included.
Internal ==
    \/ GetAction \/ GetActions \/ CallAction \/ CodeReturns
    \/ \E t \in Task : TaskPolled(t)
    \/ \E e \in Effect : Unbind(e) \/ EffectPolled(e)
    \/ UnbindsDone \/ CallNotify \/ GetNotifys \/ PhasePanic
    \/ RunReaction \/ ReactionsDone \/ RunDiscard \/ DiscardsDone

Threads == \E e \in Waiter : Fire(e) \/ Wake(e) \/ Release(e) \/ Forget(e)

Next == UserStep \/ Internal \/ PollWait \/ Threads \/ Halted

Spec == Init /\ [][Next]_vars

-----------------------------------------------------------------------------
(* Properties. *)

TypeOK ==
    /\ config \in Config \cup {None}
    /\ ToSet(actions) \subseteq Item /\ ToSet(batch) \subseteq Item
    /\ ToSet(reactions) \subseteq [phase : Phase, do : {"run"}, of : Effect]
    /\ ToSet(notifys) \subseteq Notify /\ ToSet(nbatch) \subseteq Notify
    /\ unbinds \subseteq Effect
    /\ needWake \in BOOLEAN /\ waker \in BOOLEAN /\ wait \in {"none", "poll", "parked", "ready"}
    /\ table \in [Key -> Waiter \cup {None}] /\ key \in [Waiter -> Key \cup {None}]
    /\ ToSet(wakes) \subseteq Key /\ drops \subseteq Key
    /\ tasks \subseteq Task /\ discards \in 0 .. MaxDiscards
    /\ life \in [Waiter -> {"new", "spawned", "live", "done"}]
    /\ {held, waking, ready, woken} \subseteq [Waiter -> BOOLEAN]
    /\ {fut, dirty, isWake, bound} \subseteq [Effect -> BOOLEAN]
    /\ raw \in {"owner", "globals", "caller", "none"}
    /\ at \in {"user", "actions", "unbind", "notify", "react", "discard"}
    /\ back \in {"user", "actions", "react", "discard"}
    /\ fn \in Dispatcher \cup {None} /\ arg \in Phase \cup {All} /\ handled \in BOOLEAN
    /\ code \in Item \cup {None}
    /\ runtimes \in 0 .. MaxRuntimes /\ fault \in {"none", "borrow", "phase"}

\* As long as anybody holds the waker of a waiter, the table has the waiter at its key and nobody
\* has asked for its removal; every wake that is not applied yet finds an entry; and no entry
\* stays when its waker is gone, except until the next apply_wake.
KeysAgree ==
    /\ \A e \in Waiter :
           life[e] = "live" \/ held[e] \/ waking[e]
           => key[e] \in Key \ drops /\ table[key[e]] = e
    /\ \A k \in Key : table[k] # None /\ k \notin drops
           => LET e == table[k] IN life[e] = "live" \/ held[e] \/ waking[e]
    /\ \A k \in ToSet(wakes) \cup drops : table[k] # None

\* An index of the table is not given to another waiter while a wake with that index is
\* under way: nobody is polled for the wake of another.
EntryGoesWithItsWakes ==
    [][\A k \in Key : table[k] # None /\ table'[k] # table[k]
           => table'[k] = None /\ k \notin ToSet(wakes')]_vars

\* apply_wake removes entries while it holds the lock that RawWake::drop takes: the removed
\* Rc<AsyncAction> must not be the one that frees a future, or the thread waits for itself.
RemovalFreesNoFuture ==
    \A k \in drops : table[k] \in Task => life[table[k]] = "done"

\* A wake is not lost: until the waiter is polled, it is in the requests or in a queue.  An effect
\* that was queued when a Runtime ended is another matter.  (Together with the types.)
WokenIsPending ==
    TypeOK /\ (Running =>
    \A e \in Waiter : woken[e] /\ Awaiting(e) =>
        \/ key[e] \in ToSet(wakes)
        \/ e \in Task /\ \E x \in ToSet(actions) \cup ToSet(batch) :
                             x.do = "next" /\ x.of = e
        \/ e \in Effect /\ [of |-> e, slot |-> "wake"] \in ToSet(notifys) \cup ToSet(nbatch)
        \/ e \in Effect /\ isWake[e] /\ (\/ Reaction(e) \in ToSet(reactions) \cup ToSet(batch)
                                         \/ runtimes > 1 \/ raw = "none"))

\* No future of an asynchronous action outlives its Runtime, and async_actions has those
\* that exist.
TasksEndWithRuntime ==
    /\ tasks = {t \in Task : life[t] = "live"}
    /\ raw = "none" => tasks = {}

\* What flush leaves: nothing, but for actions of tasks that were woken meanwhile.
FlushLeavesOnlyWoken ==
    [][fn = "flush" /\ fn' = None =>
           /\ reactions' = <<>> /\ notifys' = <<>> /\ unbinds' = {} /\ discards' = 0
           /\ \A x \in ToSet(actions') : x.do = "next"]_vars

\* While wait_for_ready is suspended, there is a waker to be taken, and no action, reaction or
\* notification that needs flush.
ParkedMeansIdle ==
    wait = "parked" /\ raw = "globals" =>
        /\ waker /\ needWake
        /\ actions = <<>> /\ reactions = <<>> /\ notifys = <<>> /\ wakes = <<>>

Upcoming(p) == OfPhase(IF "actions" \in {at, back} THEN batch ELSE <<>>, p)
               \o OfPhase(actions, p)

\* The actions of a phase run in the order in which they were scheduled.
ActionsKeepOrder ==
    [][raw' # "none" => \A p \in Phase :
           \/ IsPrefix(Upcoming(p), Upcoming(p)')
           \/ Upcoming(p) # <<>> /\ Tail(Upcoming(p)) = Upcoming(p)']_vars

\* Dropping a SourceBindings defers the clearing (core.rs:822): it does not panic.
DropDefersClearing == fault # "borrow"

-----------------------------------------------------------------------------
(* Liveness. *)

\* The main loop of a user: flush, wait until there is something to do, and again.  What is
\* called returns; the executor polls a future that was woken; who is awaited wakes once the
\* event has happened, and not before.  (A task that is woken again whenever it has been
\* polled keeps dispatch_actions_with busy, and no reaction ever runs.)
LoopNext ==
    \/ UserStep \/ Internal \/ PollWait \/ Halted
    \/ \E e \in Waiter : Fire(e) \/ (ready[e] /\ Wake(e)) \/ Release(e) \/ Forget(e)

LoopSpec ==
    /\ Init /\ [][LoopNext]_vars
    /\ WF_vars(Internal) /\ WF_vars(PollWait)
    /\ WF_vars(LeaveCall) /\ WF_vars(wait = "ready" /\ Unlend)
    /\ WF_vars(\E c \in Config : NewRuntime(c))
    /\ SF_vars(Dispatch("flush", All))
    /\ \A e \in Waiter : WF_vars(ready[e] /\ Wake(e)) /\ WF_vars(Release(e))

\* A started task ends once what it awaits has happened: no wake-up is lost between the check
\* of the queues in wait_for_ready and the moment its waker is in place.
TasksFinish == \A t \in Task : life[t] = "live" /\ ready[t] ~> life[t] = "done"

\* An effect whose State has changed runs again.
EffectsCatchUp == \A e \in Effect : dirty[e] ~> ~dirty[e] \/ life[e] = "done"
=============================================================================
