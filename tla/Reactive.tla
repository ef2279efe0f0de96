------------------------------ MODULE Reactive ------------------------------
(***************************************************************************)
(* The reactive graph of sigmut and the loop that drives it: State nodes   *)
(* (state.rs), cached computed signals (signal/builder/scan.rs, get.rs)    *)
(* and effects (effect_fn.rs), joined by SourceBindings and SinkBindings   *)
(* (core.rs), and Runtime's dispatch functions (core.rs).                  *)
(*                                                                         *)
(* The code is one thread of nested calls.  Here the call chain is implied *)
(* by pc: a node that needs a source up to date waits, and only the last   *)
(* node of the chain can step.  One action is one operation of the code    *)
(* that touches shared state between two nested calls.                     *)
(*                                                                         *)
(* A SourceBinding is (source, key).  A sink never holds two bindings to   *)
(* the same source at the same index (SinkBindings::bind reuses the old    *)
(* one), so the index serves as the key: sinks[s][n][i] is the slab entry  *)
(* of source s for the i-th binding of sink n, "Unbound" when empty.       *)
(*                                                                         *)
(* Definitions marked "Mutant" are plausible mistakes in the operation     *)
(* that follows them; nothing uses them.  Each breaks a property below.    *)
(***************************************************************************)
EXTENDS Naturals, Sequences, DirtyFlags

CONSTANTS
    State,            \* State nodes
    Scan,             \* computed signals (ScanNode)
    Effect,           \* effects; each is created and dropped at most once
    Dedup,            \* the signals built with FILTER (dedup)
    Keep,             \* the signals built with keep()
    Spawner,          \* the effects whose closures spawn actions
    Value, NoValue,   \* NoValue: no cache
    NextRead(_, _),   \* NextRead(n, seen): what n's closure reads next, having
                      \* read the values seen so far; Done when it returns
    Result(_, _),     \* Result(n, seen): what it returns
    Done,
    Rank,             \* orders the nodes so that closures only read lower ones
    MaxReads,         \* bound: reads of one closure run
    MaxActions,       \* bound: pending actions
    MaxNotifys,       \* bound: pending loose notifications
    LooseEnds         \* where users end a borrow_mut_loose: "idle", "sc"

Source == State \cup Scan
Sink == Scan \cup Effect
Node == Source \cup Effect
Index == 1 .. MaxReads
Key == Sink \X Index
CallState == {"idle", "notify", "check", "run", "read", "trim", "clear"}
Reads == UNION {[1 .. k -> Value] : k \in 0 .. MaxReads}

ASSUME NodesAssumption ==
    /\ State \cap Scan = {} /\ Source \cap Effect = {}
    /\ Dedup \subseteq Scan /\ Keep \subseteq Scan /\ Spawner \subseteq Effect
    /\ NoValue \notin Value /\ Done \notin Source
    /\ LooseEnds \subseteq {"idle", "sc"}
    /\ MaxReads \in Nat /\ MaxActions \in Nat /\ MaxNotifys \in Nat

\* A closure reads at most MaxReads sources, all of lower rank: the graph has no
\* cycle (ReactionContext::borrow panics with "detect cyclic dependency").
ASSUME ClosureAssumption ==
    \A n \in Sink : \A seen \in Reads :
        /\ NextRead(n, seen) \in Source \cup {Done}
        /\ Len(seen) = MaxReads => NextRead(n, seen) = Done
        /\ n \in Scan => Result(n, seen) \in Value
        /\ NextRead(n, seen) # Done => Rank[NextRead(n, seen)] < Rank[n]

\* What closures read of each other ends: ranks are numbers.
ASSUME RankAssumption == \A n \in Node : Rank[n] \in Nat

VARIABLES
    val,        \* the value of a State; the cache of a signal or NoValue
    dirty,      \* SourceBinder::dirty of every sink
    srcs,       \* SourceBindings of every sink: the sources in reading order
    sinks,      \* SinkBindings of every source
    pc,         \* where each node is in the call chain
    pos,        \* the index a loop over srcs has reached; 1 outside
    seen,       \* the values the closure under way has read
    result,     \* what a signal's closure returned, until it is passed on
    level,      \* the level a source is sending to its sinks
    todo,       \* the bindings a source has not notified yet
    scheduled,  \* ScanNode::discard_scheduled
    discards,   \* RuntimeData::discards, its top first
    actions,    \* Globals::actions: pending writes <<state, value>>
    notifys,    \* Globals::notifys: states with a queued notification
    reactions,  \* Globals::reactions (one phase)
    unbinds,    \* Globals::unbinds: dropped effects with bindings left
    rt,         \* the dispatch function the runtime is in
    flushing,   \* that function was called by flush
    batch,      \* the reactions taken out for dispatch
    get,        \* the signal a top-level read asks for
    life,       \* whether an effect's node does not exist yet, lives or is dropped
    obs,        \* history: what the last complete run of an effect read
    moved,      \* history: sinks one of whose sources changed value since they ran
    held        \* states whose borrow_mut_loose outlives the opening of the context

graph == <<val, dirty, srcs, sinks>>
calls == <<pc, pos, seen, result>>
sweep == <<level, todo>>
disc == <<scheduled, discards>>
queues == <<actions, notifys, reactions, unbinds>>
loop == <<rt, flushing, batch, get>>
users == <<life, obs, moved, held>>
vars == <<graph, calls, sweep, disc, queues, loop, users>>

-----------------------------------------------------------------------------
(* The calls under way. *)

Quiet == \A n \in Node : pc[n] = "idle"

\* Mutant: a reader does not wait for ScanNode::update.
SettledUnchecked(s) == pc[s] = "idle"

\* ScanNode::update returns at once on such a source; a State has no update.
Settled(s) == pc[s] = "idle" /\ (s \in Scan => dirty[s] = "Clean")

\* The source whose update() the sink n is waiting for.
Awaited(n, s) == \/ /\ pc[n] = "check"
                    /\ pos[n] <= Len(srcs[n])
                    /\ s = srcs[n][pos[n]]
                 \/ /\ pc[n] = "read"
                    /\ s = NextRead(n, seen[n])

Demanded(s) == \/ \E n \in Sink : Awaited(n, s)
               \/ rt = "get" /\ get = s

\* User code runs between calls into the runtime, with or without an open SignalContext,
\* and inside an effect's closure.
TopLevel == rt \in {"idle", "sc"} /\ Quiet
InClosure(effects) == \E e \in effects : pc[e] = "run"

-----------------------------------------------------------------------------
(* Bindings, and what hangs on them. *)

Bound(s) == {k \in Key : sinks[s][k[1]][k[2]] # "Unbound"}

NoSinks(table) == \A n \in Sink, i \in Index : table[n][i] = "Unbound"

Unbind(s, n, i) == [sinks EXCEPT ![s][n][i] = "Unbound"]

\* Mutant: every source that may have changed is taken to have.
ResolveDirty(table, isDirty) ==
    [n \in Sink |-> [i \in Index |->
        IF table[n][i] = "MaybeDirty" THEN "Dirty" ELSE table[n][i]]]

\* SinkBindings::update.
Resolve(table, isDirty) ==
    [n \in Sink |-> [i \in Index |->
        IF table[n][i] = "MaybeDirty" THEN FromIsDirty(isDirty) ELSE table[n][i]]]

\* Mutants: the sinks are looked at before the unbinding; the scheduled flag is not
\* tested; a keep() signal is discarded like any other.
TryScheduleEarly(s, after) ==
    IF s \in Scan \ Keep /\ ~scheduled[s] /\ NoSinks(sinks[s])
    THEN /\ scheduled' = [scheduled EXCEPT ![s] = TRUE]
         /\ discards' = <<s>> \o discards
    ELSE UNCHANGED disc
TryScheduleTwice(s, after) ==
    IF s \in Scan \ Keep /\ NoSinks(after)
    THEN /\ scheduled' = [scheduled EXCEPT ![s] = TRUE]
         /\ discards' = <<s>> \o discards
    ELSE UNCHANGED disc
TryScheduleKept(s, after) ==
    IF s \in Scan /\ ~scheduled[s] /\ NoSinks(after)
    THEN /\ scheduled' = [scheduled EXCEPT ![s] = TRUE]
         /\ discards' = <<s>> \o discards
    ELSE UNCHANGED disc

\* ScanNode::try_schedule_discard; `after` is what s's sinks are at the call.
TryScheduleDiscard(s, after) ==
    IF s \in Scan \ Keep /\ ~scheduled[s] /\ NoSinks(after)
    THEN /\ scheduled' = [scheduled EXCEPT ![s] = TRUE]
         /\ discards' = <<s>> \o discards
    ELSE UNCHANGED disc

\* The sinks, not running, whose sources include s: s changing value concerns them.
Readers(s) == {n \in Sink : /\ \E i \in 1 .. Len(srcs[n]) : srcs[n][i] = s
                            /\ pc[n] \notin {"run", "read"}}

-----------------------------------------------------------------------------
(* Notification: SinkBindings::notify and the sinks' BindSink::notify. *)

BeginNotify(s, lv) == /\ pc' = [pc EXCEPT ![s] = "notify"]
                      /\ level' = [level EXCEPT ![s] = lv]
                      /\ todo' = [todo EXCEPT ![s] = Bound(s)]

\* One round of the loop in SinkBindings::notify, for the binding k of s.  The slab's
\* order is left open.  A sink whose node is gone is skipped (Weak::upgrade).
NotifySink(s, k) ==
    LET n == k[1]
        entry == sinks[s][n][k[2]]
        called == NeedsNotify(entry) /\ (n \in Effect => life[n] = "live")
        first == called /\ NeedsNotify(dirty[n])
    IN  /\ pc[s] = "notify"
        /\ k \in todo[s]
        /\ \A j \in Bound(s) : pc[j[1]] # "notify"
        /\ sinks' = [sinks EXCEPT ![s][n][k[2]] = ApplyNotify(@, level[s])]
        /\ dirty' = IF called THEN [dirty EXCEPT ![n] = ApplyNotify(@, level[s])] ELSE dirty
        /\ IF first /\ n \in Scan
           THEN /\ pc' = [pc EXCEPT ![n] = "notify"]
                /\ level' = [level EXCEPT ![n] = MaybeIf(level[s], n \in Dedup)]
                /\ todo' = [todo EXCEPT ![s] = @ \ {k}, ![n] = Bound(n)]
           ELSE /\ todo' = [todo EXCEPT ![s] = @ \ {k}]
                /\ UNCHANGED <<pc, level>>
        /\ reactions' = IF first /\ n \in Effect THEN Append(reactions, n) ELSE reactions
        /\ UNCHANGED <<val, srcs, pos, seen, result, disc, actions, notifys, unbinds,
                       loop, users>>

NotifyDone(s) ==
    /\ pc[s] = "notify"
    /\ todo[s] = {}
    /\ \A j \in Bound(s) : pc[j[1]] # "notify"
    /\ pc' = [pc EXCEPT ![s] = "idle"]
    /\ level' = [level EXCEPT ![s] = "Dirty"]
    /\ UNCHANGED <<graph, pos, seen, result, todo, disc, queues, loop, users>>

-----------------------------------------------------------------------------
(* Checking and updating a sink: SourceBinder, ScanNode::update, EffectNode::call. *)

\* SourceBinder::check, and update when the node is known to be dirty.
Refresh(n) ==
    \/ /\ dirty[n] = "MaybeDirty"
       /\ pc' = [pc EXCEPT ![n] = "check"]
       /\ pos' = [pos EXCEPT ![n] = 1]
       /\ UNCHANGED <<dirty, moved>>
    \/ /\ dirty[n] = "Dirty"
       /\ pc' = [pc EXCEPT ![n] = "run"]
       /\ dirty' = [dirty EXCEPT ![n] = "Clean"]
       /\ moved' = moved \ {n}
       /\ UNCHANGED pos

\* ScanNode::update on a signal that is not clean, called by a reader or a check.
ScanUpdate(n) ==
    /\ pc[n] = "idle" /\ dirty[n] # "Clean"
    /\ Demanded(n)
    /\ TryScheduleDiscard(n, sinks[n])
    /\ Refresh(n)
    /\ UNCHANGED <<val, srcs, sinks, seen, result, sweep, queues, loop, life, obs, held>>

\* Mutant: the check goes on behind a source that has changed.
CheckPastDirty(n) ==
    /\ pc[n] = "check"
    /\ pos[n] <= Len(srcs[n])
    /\ Settled(srcs[n][pos[n]])
    /\ pos' = [pos EXCEPT ![n] = @ + 1]
    /\ UNCHANGED <<graph, pc, seen, result, sweep, disc, queues, loop, users>>

\* SourceBindings::check, one source that is up to date: stop at the first dirty one.
CheckSource(n) ==
    LET s == srcs[n][pos[n]]
        entry == sinks[s][n][pos[n]]
    IN  /\ pc[n] = "check"
        /\ pos[n] <= Len(srcs[n])
        /\ Settled(s)
        /\ \/ /\ entry = "Clean"
              /\ pos' = [pos EXCEPT ![n] = @ + 1]
              /\ UNCHANGED <<dirty, pc, moved>>
           \/ /\ entry = "Dirty"
              /\ pc' = [pc EXCEPT ![n] = "run"]
              /\ dirty' = [dirty EXCEPT ![n] = "Clean"]
              /\ pos' = [pos EXCEPT ![n] = 1]
              /\ moved' = moved \ {n}
        /\ UNCHANGED <<val, srcs, sinks, seen, result, sweep, disc, queues, loop, life, obs, held>>

\* Mutant: a signal found clean does not tell its sinks.
CheckDoneSilent(n) ==
    /\ pc[n] = "check"
    /\ pos[n] > Len(srcs[n])
    /\ dirty' = [dirty EXCEPT ![n] = "Clean"]
    /\ pc' = [pc EXCEPT ![n] = "idle"]
    /\ pos' = [pos EXCEPT ![n] = 1]
    /\ UNCHANGED <<val, srcs, sinks, seen, result, sweep, disc, queues, loop, users>>

\* No source was dirty; a signal tells its sinks so.
CheckDone(n) ==
    /\ pc[n] = "check"
    /\ pos[n] > Len(srcs[n])
    /\ dirty' = [dirty EXCEPT ![n] = "Clean"]
    /\ pc' = [pc EXCEPT ![n] = "idle"]
    /\ pos' = [pos EXCEPT ![n] = 1]
    /\ sinks' = IF n \in Scan THEN [sinks EXCEPT ![n] = Resolve(@, FALSE)] ELSE sinks
    /\ UNCHANGED <<val, srcs, seen, result, sweep, disc, queues, loop, users>>

-----------------------------------------------------------------------------
(* A closure running under SourceBindings::update, and its dependencies. *)

\* SinkBindings::bind: the i-th read reuses the old i-th binding when it is to the same
\* source, else replaces and unbinds it, else appends.
Bind(n) ==
    LET i == Len(seen[n]) + 1
        s == NextRead(n, seen[n])
        bound == [sinks EXCEPT ![s][n][i] = "Clean"]
    IN  /\ pc[n] = "run"
        /\ s # Done
        /\ pc' = [pc EXCEPT ![n] = "read"]
        /\ \/ /\ i <= Len(srcs[n]) /\ srcs[n][i] = s
              /\ sinks' = bound
              /\ UNCHANGED <<srcs, disc>>
           \/ /\ i <= Len(srcs[n]) /\ srcs[n][i] # s
              /\ sinks' = [bound EXCEPT ![srcs[n][i]][n][i] = "Unbound"]
              /\ srcs' = [srcs EXCEPT ![n][i] = s]
              /\ TryScheduleDiscard(srcs[n][i], sinks'[srcs[n][i]])
           \/ /\ i > Len(srcs[n])
              /\ sinks' = bound
              /\ srcs' = [srcs EXCEPT ![n] = Append(@, s)]
              /\ UNCHANGED disc
        /\ UNCHANGED <<val, dirty, pos, seen, result, sweep, queues, loop, users>>

\* The source is up to date: ScanNode::borrow, State::borrow hand out its value.  A state
\* whose loose guard is still held panics here (RefCell::borrow): nothing follows.
ReadValue(n) ==
    LET s == NextRead(n, seen[n])
    IN  /\ pc[n] = "read"
        /\ Settled(s)
        /\ s \notin held
        /\ seen' = [seen EXCEPT ![n] = Append(@, val[s])]
        /\ pc' = [pc EXCEPT ![n] = "run"]
        /\ UNCHANGED <<graph, pos, result, sweep, disc, queues, loop, users>>

\* The closure returns; GetFnGetDedup keeps an equal value and reports no change.
CloseRun(n) ==
    /\ pc[n] = "run"
    /\ NextRead(n, seen[n]) = Done
    /\ pc' = [pc EXCEPT ![n] = "trim"]
    /\ pos' = [pos EXCEPT ![n] = Len(seen[n]) + 1]
    /\ IF n \in Scan
       THEN LET new == Result(n, seen[n])
            IN  /\ val' = [val EXCEPT ![n] = new]
                /\ result' = [result EXCEPT ![n] = n \notin Dedup \/ val[n] # new]
                /\ moved' = IF val[n] # new THEN moved \cup Readers(n) ELSE moved
                /\ UNCHANGED obs
       ELSE /\ obs' = [obs EXCEPT ![n] = seen[n]]
            /\ UNCHANGED <<val, result, moved>>
    /\ UNCHANGED <<dirty, srcs, sinks, seen, sweep, disc, queues, loop, life, held>>

\* Mutants: the loop skips every other source; its last source is left bound.
UnbindEveryOther(n) ==
    LET s == srcs[n][pos[n]]
    IN  /\ pc[n] \in {"trim", "clear"}
        /\ pos[n] <= Len(srcs[n])
        /\ sinks' = Unbind(s, n, pos[n])
        /\ TryScheduleDiscard(s, sinks'[s])
        /\ pos' = [pos EXCEPT ![n] = @ + 2]
        /\ UNCHANGED <<val, dirty, srcs, pc, seen, result, sweep, queues, loop, users>>
UnbindAllButLast(n) ==
    LET s == srcs[n][pos[n]]
    IN  /\ pc[n] \in {"trim", "clear"}
        /\ pos[n] <= Len(srcs[n])
        /\ IF pos[n] < Len(srcs[n])
           THEN sinks' = Unbind(s, n, pos[n]) /\ TryScheduleDiscard(s, sinks'[s])
           ELSE UNCHANGED <<sinks, disc>>
        /\ pos' = [pos EXCEPT ![n] = @ + 1]
        /\ UNCHANGED <<val, dirty, srcs, pc, seen, result, sweep, queues, loop, users>>

\* One round of a loop that unbinds sources: the tail the run no longer reads
\* (SourceBindings::update), or all of them (SourceBindings::clear, apply_unbind).
UnbindSource(n) ==
    LET s == srcs[n][pos[n]]
    IN  /\ pc[n] \in {"trim", "clear"}
        /\ pos[n] <= Len(srcs[n])
        /\ sinks' = Unbind(s, n, pos[n])
        /\ TryScheduleDiscard(s, sinks'[s])
        /\ pos' = [pos EXCEPT ![n] = @ + 1]
        /\ UNCHANGED <<val, dirty, srcs, pc, seen, result, sweep, queues, loop, users>>

\* The end of SourceBindings::update: a signal tells its sinks whether it changed; an
\* effect dropped meanwhile is freed with its bindings (SourceBindings::drop).
TrimDone(n) ==
    /\ pc[n] = "trim"
    /\ pos[n] > Len(srcs[n])
    /\ srcs' = [srcs EXCEPT ![n] = SubSeq(@, 1, Len(seen[n]))]
    /\ pc' = [pc EXCEPT ![n] = "idle"]
    /\ sinks' = IF n \in Scan THEN [sinks EXCEPT ![n] = Resolve(@, result[n])] ELSE sinks
    /\ unbinds' = IF n \in Effect /\ life[n] = "dropped" /\ seen[n] # <<>>
                  THEN Append(unbinds, n) ELSE unbinds
    /\ pos' = [pos EXCEPT ![n] = 1]
    /\ seen' = [seen EXCEPT ![n] = <<>>]
    /\ result' = IF n \in Scan THEN [result EXCEPT ![n] = FALSE] ELSE result
    /\ UNCHANGED <<val, dirty, sweep, disc, actions, notifys, reactions, loop, users>>

\* Mutant: the emptied node counts as up to date.
ClearDoneClean(n) ==
    /\ pc[n] = "clear"
    /\ pos[n] > Len(srcs[n])
    /\ srcs' = [srcs EXCEPT ![n] = <<>>]
    /\ dirty' = IF n \in Scan THEN [dirty EXCEPT ![n] = "Clean"] ELSE dirty
    /\ pc' = [pc EXCEPT ![n] = "idle"]
    /\ pos' = [pos EXCEPT ![n] = 1]
    /\ UNCHANGED <<val, sinks, seen, result, sweep, disc, queues, loop, users>>

\* The end of SourceBinder::clear, or of the bindings of a dropped effect.
ClearDone(n) ==
    /\ pc[n] = "clear"
    /\ pos[n] > Len(srcs[n])
    /\ srcs' = [srcs EXCEPT ![n] = <<>>]
    /\ dirty' = IF n \in Scan THEN [dirty EXCEPT ![n] = "Dirty"] ELSE dirty
    /\ pc' = [pc EXCEPT ![n] = "idle"]
    /\ pos' = [pos EXCEPT ![n] = 1]
    /\ UNCHANGED <<val, sinks, seen, result, sweep, disc, queues, loop, users>>

BeginClear(n) == pc' = [pc EXCEPT ![n] = "clear"]

-----------------------------------------------------------------------------
(* What users do. *)

Assign(s, v) == /\ val' = [val EXCEPT ![s] = v]
                /\ moved' = IF val[s] # v THEN moved \cup Readers(s) ELSE moved

\* State::set, or a borrow_mut whose value was touched: notify without comparing.
\* set_dedup and borrow_mut_dedup do this for a different value and nothing for an equal one.
Set(s, v) ==
    /\ rt = "idle" /\ Quiet
    /\ Assign(s, v)
    /\ BeginNotify(s, "Dirty")
    /\ UNCHANGED <<dirty, srcs, sinks, pos, seen, result, disc, queues, loop, life, obs, held>>

\* The drop of a borrow_mut_loose: its notification is queued (schedule_notify).  The
\* guard needs an ActionContext to begin, so one that ends in a context was held before it
\* opened.  Until then nothing reads what was written, so the write is made here.
SetLoose(s, v) ==
    /\ rt \in LooseEnds /\ Quiet
    /\ rt = "sc" => s \in held
    /\ Len(notifys) < MaxNotifys
    /\ Assign(s, v)
    /\ notifys' = Append(notifys, s)
    /\ held' = held \ {s}
    /\ UNCHANGED <<dirty, srcs, sinks, calls, sweep, disc, actions, reactions, unbinds,
                   loop, life, obs>>

\* spawn_action(|ac| s.set(v, ac)), at top level or in the closure of a Spawner.
SpawnSet(s, v) ==
    /\ TopLevel \/ InClosure(Spawner)
    /\ Len(actions) < MaxActions
    /\ actions' = Append(actions, <<s, v>>)
    /\ UNCHANGED <<graph, calls, sweep, disc, notifys, reactions, unbinds, loop, users>>

\* effect(): the node is created dirty and its first call is scheduled.
Subscribe(e) ==
    /\ TopLevel \/ InClosure(Effect)
    /\ life[e] = "new"
    /\ life' = [life EXCEPT ![e] = "live"]
    /\ reactions' = Append(reactions, e)
    /\ UNCHANGED <<graph, calls, sweep, disc, actions, notifys, unbinds, loop, obs, moved, held>>

\* Mutant: the bindings of a dropped effect are not queued for unbinding.
UnsubscribeBound(e) ==
    /\ TopLevel \/ InClosure(Effect)
    /\ life[e] = "live"
    /\ life' = [life EXCEPT ![e] = "dropped"]
    /\ UNCHANGED <<graph, calls, sweep, disc, queues, loop, obs, moved, held>>

\* Drop of the Subscription.  The node is freed at once, and its bindings are queued,
\* unless its own closure is running: EffectNode::call holds an Rc until it returns.
Unsubscribe(e) ==
    /\ TopLevel \/ InClosure(Effect)
    /\ life[e] = "live"
    /\ life' = [life EXCEPT ![e] = "dropped"]
    /\ unbinds' = IF pc[e] = "idle" /\ srcs[e] # <<>> THEN Append(unbinds, e) ELSE unbinds
    /\ UNCHANGED <<graph, calls, sweep, disc, actions, notifys, reactions, loop, obs, moved, held>>

\* A call of dispatch_all_actions, dispatch_all_reactions or dispatch_discards.
Dispatch(stage) ==
    /\ rt = "idle" /\ Quiet
    /\ rt' = stage
    /\ UNCHANGED <<graph, calls, sweep, disc, queues, flushing, batch, get, users>>

\* Mutant: flush begins with the discards, and stops when there are none.
FlushDiscardsFirst ==
    /\ rt = "idle" /\ Quiet
    /\ rt' = "discards"
    /\ flushing' = TRUE
    /\ UNCHANGED <<graph, calls, sweep, disc, queues, batch, get, users>>

\* Runtime::flush repeats the three until none of them had work.
Flush ==
    /\ rt = "idle" /\ Quiet
    /\ rt' = "actions"
    /\ flushing' = TRUE
    /\ UNCHANGED <<graph, calls, sweep, disc, queues, batch, get, users>>

\* Runtime::sc or ActionContext::sc: notifications are applied once, when it opens.  Loose
\* guards may be held across it; one still held at its end may end any time later.
OpenContext ==
    /\ rt = "idle" /\ Quiet
    /\ rt' = "open"
    /\ held' \in IF "sc" \in LooseEnds THEN SUBSET State ELSE {{}}
    /\ UNCHANGED <<graph, calls, sweep, disc, queues, flushing, batch, get, life, obs, moved>>

CloseContext ==
    /\ rt = "sc" /\ Quiet
    /\ rt' = "idle"
    /\ held' = {}
    /\ UNCHANGED <<graph, calls, sweep, disc, queues, flushing, batch, get, life, obs, moved>>

\* A read at top level, n.get(&mut sc).
Get(n) ==
    /\ rt = "sc" /\ Quiet
    /\ rt' = "get"
    /\ get' = n
    /\ UNCHANGED <<graph, calls, sweep, disc, queues, flushing, batch, users>>

-----------------------------------------------------------------------------
(* The runtime: RawRuntime's dispatch functions. *)

\* Where a dispatch function returns to: the next one under flush, else its caller.
Return(next) == IF flushing THEN rt' = next ELSE rt' = "idle"

\* dispatch_actions_with: pending actions in order, those they spawn included.
RunAction ==
    /\ rt = "actions" /\ Quiet
    /\ actions # <<>>
    /\ LET s == Head(actions)[1]
       IN  /\ Assign(s, Head(actions)[2])
           /\ BeginNotify(s, "Dirty")
    /\ actions' = Tail(actions)
    /\ UNCHANGED <<dirty, srcs, sinks, pos, seen, result, disc, notifys, reactions, unbinds,
                   loop, life, obs, held>>

ActionsDone ==
    /\ rt = "actions" /\ Quiet
    /\ actions = <<>>
    /\ Return("apply")
    /\ UNCHANGED <<graph, calls, sweep, disc, queues, flushing, batch, get, users>>

\* apply_unbind, called by apply_notify and by dispatch_discards.
ApplyUnbind ==
    /\ rt \in {"apply", "open", "unbinds"} /\ Quiet
    /\ unbinds # <<>>
    /\ BeginClear(Head(unbinds))
    /\ unbinds' = Tail(unbinds)
    /\ UNCHANGED <<graph, pos, seen, result, sweep, disc, actions, notifys, reactions, loop,
                   users>>

\* apply_notify, once nothing is left to unbind.
ApplyPending ==
    /\ rt \in {"apply", "open"} /\ Quiet
    /\ unbinds = <<>> /\ notifys # <<>>
    /\ BeginNotify(Head(notifys), "Dirty")
    /\ notifys' = Tail(notifys)
    /\ UNCHANGED <<graph, pos, seen, result, disc, actions, reactions, unbinds, loop, users>>

\* After apply_notify: the context is open, or dispatch_reactions_with takes the
\* reactions scheduled by now.
ApplyDone ==
    /\ rt \in {"apply", "open"} /\ Quiet
    /\ unbinds = <<>> /\ notifys = <<>>
    /\ \/ /\ rt = "open"
          /\ rt' = "sc"
          /\ UNCHANGED <<batch, reactions>>
       \/ /\ rt = "apply" /\ reactions # <<>>
          /\ rt' = "reactions"
          /\ batch' = reactions
          /\ reactions' = <<>>
       \/ /\ rt = "apply" /\ reactions = <<>>
          /\ Return("discards")
          /\ UNCHANGED <<batch, reactions>>
    /\ UNCHANGED <<graph, calls, sweep, disc, actions, notifys, unbinds, flushing, get, users>>

\* A top-level read has its signal up to date and returns val[get].
GetDone ==
    /\ rt = "get" /\ Quiet
    /\ Settled(get)
    /\ rt' = "sc"
    /\ get' = Done
    /\ UNCHANGED <<graph, calls, sweep, disc, queues, flushing, batch, users>>

\* EffectNode::call; the reaction holds the node weakly.
RunReaction ==
    /\ rt = "reactions" /\ Quiet
    /\ batch # <<>>
    /\ LET e == Head(batch)
       IN  IF life[e] = "live" /\ dirty[e] # "Clean"
           THEN Refresh(e)
           ELSE UNCHANGED <<pc, pos, dirty, moved>>
    /\ batch' = Tail(batch)
    /\ UNCHANGED <<val, srcs, sinks, seen, result, sweep, disc, queues, rt, flushing, get, life, obs,
                   held>>

ReactionsDone ==
    /\ rt = "reactions" /\ Quiet
    /\ batch = <<>>
    /\ Return("actions")
    /\ UNCHANGED <<graph, calls, sweep, disc, queues, flushing, batch, get, users>>

\* dispatch_discards and ScanNode::discard: the latest scheduled first; a signal that
\* got a sink in the meantime keeps its cache.  "discarded": this call had work.
Discard ==
    /\ rt \in {"discards", "discarded"} /\ Quiet
    /\ discards # <<>>
    /\ rt' = "discarded"
    /\ discards' = Tail(discards)
    /\ LET n == Head(discards)
       IN  /\ scheduled' = [scheduled EXCEPT ![n] = FALSE]
           /\ IF NoSinks(sinks[n])
              THEN /\ val' = [val EXCEPT ![n] = NoValue]
                   /\ BeginClear(n)
              ELSE UNCHANGED <<val, pc>>
    /\ UNCHANGED <<dirty, srcs, sinks, pos, seen, result, sweep, queues, flushing, batch, get, users>>

DiscardUnbinds ==
    /\ rt \in {"discards", "discarded"} /\ Quiet
    /\ discards = <<>> /\ unbinds # <<>>
    /\ rt' = "unbinds"
    /\ UNCHANGED <<graph, calls, sweep, disc, queues, flushing, batch, get, users>>

DiscardUnbindsDone ==
    /\ rt = "unbinds" /\ Quiet
    /\ unbinds = <<>>
    /\ rt' = "discarded"
    /\ UNCHANGED <<graph, calls, sweep, disc, queues, flushing, batch, get, users>>

\* Mutant: flush starts over whether or not there was work.
DiscardsDoneAgain ==
    /\ rt \in {"discards", "discarded"} /\ Quiet
    /\ discards = <<>> /\ unbinds = <<>>
    /\ Return("actions")
    /\ UNCHANGED <<graph, calls, sweep, disc, queues, flushing, batch, get, users>>

\* Nothing left to discard: flush starts over if there was, and is done otherwise.
DiscardsDone ==
    /\ rt \in {"discards", "discarded"} /\ Quiet
    /\ discards = <<>> /\ unbinds = <<>>
    /\ IF rt = "discarded" THEN Return("actions") /\ UNCHANGED flushing
                           ELSE rt' = "idle" /\ flushing' = FALSE
    /\ UNCHANGED <<graph, calls, sweep, disc, queues, batch, get, users>>

-----------------------------------------------------------------------------
Init ==
    /\ \E init \in [State -> Value] :
          val = [s \in Source |-> IF s \in State THEN init[s] ELSE NoValue]
    /\ dirty = [n \in Sink |-> "Dirty"]
    /\ srcs = [n \in Sink |-> <<>>]
    /\ sinks = [s \in Source |-> [n \in Sink |-> [i \in Index |-> "Unbound"]]]
    /\ pc = [n \in Node |-> "idle"]
    /\ pos = [n \in Sink |-> 1]
    /\ seen = [n \in Sink |-> <<>>]
    /\ result = [n \in Scan |-> FALSE]
    /\ level = [s \in Source |-> "Dirty"]
    /\ todo = [s \in Source |-> {}]
    /\ scheduled = [n \in Scan |-> FALSE]
    /\ discards = <<>>
    /\ actions = <<>> /\ notifys = <<>> /\ reactions = <<>> /\ unbinds = <<>>
    /\ rt = "idle" /\ flushing = FALSE /\ batch = <<>> /\ get = Done
    /\ life = [e \in Effect |-> "new"]
    /\ obs = [e \in Effect |-> <<>>]
    /\ moved = {} /\ held = {}

\* The synchronous part: what a call does once it has started.
Internal ==
    \/ \E s \in Source : NotifyDone(s) \/ \E k \in Key : NotifySink(s, k)
    \/ \E n \in Scan : ScanUpdate(n)
    \/ \E n \in Sink : \/ CheckSource(n) \/ CheckDone(n)
                       \/ Bind(n) \/ ReadValue(n) \/ CloseRun(n)
                       \/ UnbindSource(n) \/ TrimDone(n) \/ ClearDone(n)
    \/ RunAction \/ ActionsDone
    \/ ApplyUnbind \/ ApplyPending \/ ApplyDone \/ GetDone
    \/ RunReaction \/ ReactionsDone
    \/ Discard \/ DiscardUnbinds \/ DiscardUnbindsDone \/ DiscardsDone

Users ==
    \/ \E s \in State, v \in Value : Set(s, v) \/ SetLoose(s, v) \/ SpawnSet(s, v)
    \/ \E e \in Effect : Subscribe(e) \/ Unsubscribe(e)
    \/ \E stage \in {"actions", "apply", "discards"} : Dispatch(stage)
    \/ OpenContext \/ CloseContext \/ \E n \in Scan : Get(n)
    \/ Flush

Next == Internal \/ Users

Spec == Init /\ [][Next]_vars

\* Runtime code runs to completion: its caller's thread is inside the call.
FairSpec == Spec /\ WF_vars(Internal)

\* The same under a main loop that comes back to flush and never reads in
\* one context for ever.
LoopSpec == FairSpec /\ SF_vars(Flush) /\ SF_vars(CloseContext)

-----------------------------------------------------------------------------
(* The reference: what the closures compute from the states, with no cache. *)

\* The values n's closure reads when every source s has the value f[s].
ReadsOver(f, n) ==
    LET reads[k \in 0 .. MaxReads] ==
            IF k = 0 THEN <<>>
            ELSE LET before == reads[k - 1]
                     s == NextRead(n, before)
                 IN  IF s = Done THEN before ELSE Append(before, f[s])
    IN  reads[MaxReads]

\* The value of every source computed afresh from the states in `store`.
Fresh(store) ==
    LET fresh[s \in Source] ==
            IF s \in State THEN store[s] ELSE Result(s, ReadsOver(fresh, s))
    IN  fresh

View(store, e) == ReadsOver(Fresh(store), e)

-----------------------------------------------------------------------------
(* Properties. *)

TypeOK ==
    /\ val \in [Source -> Value \cup {NoValue}]
    /\ \A s \in State : val[s] \in Value
    /\ dirty \in [Sink -> Dirty]
    /\ srcs \in [Sink -> Seq(Source)]
    /\ \A n \in Sink : Len(srcs[n]) <= MaxReads
    /\ sinks \in [Source -> [Sink -> [Index -> Entry]]]
    /\ pc \in [Node -> CallState]
    /\ pos \in [Sink -> 1 .. MaxReads + 1]
    /\ seen \in [Sink -> Reads]
    /\ result \in [Scan -> BOOLEAN]
    /\ level \in [Source -> DirtyLevel]
    /\ todo \in [Source -> SUBSET Key]
    /\ scheduled \in [Scan -> BOOLEAN]
    /\ discards \in Seq(Scan)
    /\ actions \in Seq(State \X Value)
    /\ notifys \in Seq(State)
    /\ reactions \in Seq(Effect) /\ unbinds \in Seq(Effect) /\ batch \in Seq(Effect)
    /\ rt \in {"idle", "actions", "apply", "open", "sc", "get", "reactions",
               "discards", "discarded", "unbinds"}
    /\ flushing \in BOOLEAN
    /\ get \in Scan \cup {Done}
    /\ life \in [Effect -> {"new", "live", "dropped"}]
    /\ obs \in [Effect -> Reads]
    /\ moved \in SUBSET Sink /\ held \in SUBSET State

\* The bindings have two ends that agree at every moment, the middle of a notification, of
\* a run or of an unbinding loop included: the slab entry of source s for sink n's i-th
\* binding exists exactly when that binding is to s and has not been unbound yet.  The
\* code indexes the slab with stored keys and panics on a missing one.
BindingsAgree ==
    \A s \in Source, n \in Sink, i \in Index :
        sinks[s][n][i] # "Unbound" <=>
            /\ i <= Len(srcs[n])
            /\ srcs[n][i] = s
            /\ pc[n] \in {"trim", "clear"} => i <= Len(seen[n]) \/ i >= pos[n]

\* SinkBindings::is_dirty is only asked of an entry that update() has resolved, so its
\* panic "`is_dirty` called before `update()`" is never reached.
DirtyAskedAfterUpdate ==
    \A n \in Sink : pc[n] = "check" /\ pos[n] <= Len(srcs[n]) =>
        LET s == srcs[n][pos[n]]
        IN  Settled(s) => sinks[s][n][pos[n]] \in {"Clean", "Dirty"}

\* Once the runtime has delivered the queued notifications, a clean cache that is not in
\* use holds what its closure would compute from the current states.
Delivered == notifys = <<>> /\ \A s \in Source : pc[s] # "notify"
CleanCachesAreFresh ==
    Delivered => \A n \in Scan : pc[n] = "idle" /\ dirty[n] = "Clean" => val[n] = Fresh(val)[n]

\* A read at top level returns the value its signal has on the current states.
GetsAreCurrent ==
    rt = "get" /\ Quiet /\ Settled(get) => val[get] = Fresh(val)[get]

\* No computation on outdated state (README.md, "Glitch-free"): every value a running
\* closure has read is current, whatever order the sources were brought up to date in, and
\* so is what is read at top level.
ReadsAreCurrent ==
    /\ GetsAreCurrent
    /\ \A n \in Sink : pc[n] \in {"run", "read"} =>
           \A i \in 1 .. Len(seen[n]) : seen[n][i] = Fresh(val)[srcs[n][i]]

\* No computation that current state does not ask for: a check that has come to its i-th
\* source, and may have to run it, only does so when the closure would read that source
\* on the current states.  A conditional dependency is not recomputed behind a
\* condition that no longer holds.
ChecksFollowCurrentReads ==
    \A n \in Sink : pc[n] = "check" /\ pos[n] <= Len(srcs[n]) =>
        LET fresh == Fresh(val)
        IN  NextRead(n, [i \in 1 .. pos[n] - 1 |-> fresh[srcs[n][i]]]) = srcs[n][pos[n]]

\* A cached signal nobody subscribes to is always on its way to dispatch_discards, at any
\* interleaving of reads, unbindings and discards.
UnusedCacheIsScheduled ==
    \A n \in Scan \ Keep :
        NoSinks(sinks[n]) => val[n] = NoValue \/ scheduled[n]

\* discard_scheduled is true exactly while the signal is in RuntimeData::discards, once.
ScheduledOnce ==
    \A n \in Scan :
        /\ scheduled[n] <=> \E i \in 1 .. Len(discards) : discards[i] = n
        /\ \A i, j \in 1 .. Len(discards) : discards[i] = n /\ discards[j] = n => i = j

\* An effect that may have to run is never forgotten, and never queued twice: while it is
\* dirty and not being called it is in exactly one place of one queue.
Pending == batch \o reactions
DirtyEffectIsQueuedOnce ==
    \A e \in Effect :
        /\ life[e] = "live" /\ dirty[e] # "Clean" /\ pc[e] = "idle" =>
               \E i \in 1 .. Len(Pending) : Pending[i] = e
        /\ \A i, j \in 1 .. Len(Pending) : Pending[i] = e /\ Pending[j] = e => i = j

\* With no work left, every live effect has seen the current states.
Quiescent == /\ rt = "idle" /\ Quiet
             /\ actions = <<>> /\ notifys = <<>> /\ reactions = <<>>
             /\ unbinds = <<>> /\ discards = <<>>
EffectsAreCurrent ==
    Quiescent => \A e \in Effect : life[e] = "live" => obs[e] = View(val, e)

\* With no work left, every cache is there for someone: a live effect or a cached signal
\* that is bound to it, itself kept alive in the same way; nothing is bound by an effect
\* that was dropped.
NoOrphanCache ==
    Quiescent =>
        /\ \A n \in Scan \ Keep : val[n] # NoValue =>
               \E k \in Bound(n) : IF k[1] \in Effect THEN life[k[1]] = "live"
                                                      ELSE val[k[1]] # NoValue
        /\ \A s \in Source : \A k \in Bound(s) : k[1] \in Effect => life[k[1]] = "live"

\* "if the dependency status has not changed since the previous call, it will not be
\* called" (effect_fn.rs): a sink that only reads dedup signals runs again only if the
\* value of one of them has changed since its last run began.
RunsOnlyIfMoved ==
    [][\A n \in Sink :
        /\ pc[n] # "run" /\ pc'[n] = "run" /\ seen'[n] = <<>>
        /\ srcs[n] # <<>>
        /\ \A i \in 1 .. Len(srcs[n]) : srcs[n][i] \in Dedup
        => n \in moved]_vars

\* A kept cache is never discarded.
KeptCacheStays == [][\A n \in Keep : val[n] # NoValue => val'[n] # NoValue]_vars

\* The abstract promise: effects observe the states of one instant.
Abstract == INSTANCE GlitchFree WITH store <- [s \in State |-> val[s]]
ImplementsGlitchFree == Abstract!Spec

\* A call into the runtime returns.
CallsReturn == rt \notin {"idle", "sc"} ~> rt \in {"idle", "sc"}

\* Under a main loop that flushes, a live effect's latest observation is eventually
\* brought up to the states, unless the states change or the effect is dropped.
EffectsCatchUp ==
    \A e \in Effect : [](life[e] = "live" => <>(life[e] # "live" \/ obs[e] = View(val, e)))

=============================================================================
