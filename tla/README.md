# A TLA+ model of sigmut

sigmut is a single-threaded reactive state library for Rust.  Users hold `State`s, derive
cached computed `Signal`s from them and attach `effect`s; a `Runtime` decides when changes are
applied, effects run and unused caches are thrown away.  This directory holds a specification
of that machinery, the TLC runs that check it on small graphs and TLAPS proofs of the facts
that hold for every graph.

Paths such as `core.rs:591` are relative to `src/src/` of the repository.

## 1. Inventory

| Component | State it keeps | Operations | What makes it correct |
|---|---|---|---|
| Dirty flags (`core/dirty.rs`, `DirtyLevel` in `core.rs`) | Clean, MaybeDirty, Dirty | `maybe_if`, `from_is_dirty`, `needs_notify`, `apply_notify` | a flag never gets weaker except by a check or a run |
| Bindings (`core.rs:736-966`, `core/source_binder.rs`) | each sink's list of (source, key), each source's slab of (sink, flag) | `bind`, `rebind`, `unbind`, `notify`, `is_dirty`, `check`, `update`, `clear`, deferred drop | both ends agree; `is_dirty` is only asked after `update` |
| Computed signals (`signal/builder*.rs`) | cache, flag, "discard scheduled" | `borrow`, `update`, `notify`, `discard` | caches handed out are current; no closure runs on outdated reads or needlessly; unused caches go away |
| State (`state.rs`) | value, sinks | `set`, `set_dedup`, `borrow_mut` and loose variants | every change reaches every dependant |
| Effects (`effect_fn.rs`, `subscription.rs`) | closure, flag, sources | creation, `call`, `notify`, drop of the `Subscription` | an effect whose inputs changed runs; a dropped one does not and leaves nothing bound |
| Runtime loop (`core.rs:42-671`) | queues of actions, notifications, reactions, unbindings, discards; wake table | `dispatch_*`, `flush`, `ac`/`sc`, `wait_for_ready`, `lend`, `call`, drop | work is done in the promised order, nothing is lost, `flush` ends, a waiter is woken |
| Phased queues (`utils/buckets.rs`, `isize_map.rs`) | bounds and a map of queues | `push`, `pop_front`, `drain` | bounds cover every non-empty bucket |
| Async nodes (`core/async_signal_context.rs`, `signal/scan_async.rs`, `effect_async_fn.rs`) | future, wake flag, flag, dependencies of three slots | `update`, `poll`, `init`, `clear`, `notify` | a wake leads to a poll; a changed dependency restarts the future; abandoned polls leave nothing bound |
| Future and stream nodes (`future_scan.rs`, `stream_scan.rs`, `stream.rs`) | future or stream, wake flag | `update`, `notify`, `poll_next` | every item is seen |
| Context channels (`core/context_channel.rs`) | Inactive, Available, Borrowed | `scope`, `try_with` | the innermost lent context is used and given back once |
| Change feed (`building_blocks/change_feed.rs`) and its collections (`collections/*.rs`) | current value, aged changes with reference counts, cursors | `record`, `read`, `peek`, clone and drop of readers, `compact` | replaying a delta on what a reader saw last gives the current value; changes are freed when and only when nobody needs them |
| One-shot broadcast (`utils/sync/oneshot_broadcast.rs`) | value, wakers | `send`, `recv`, drop | every receiver gets the value |
| References to state (`core/state_ref*.rs`) | a value or pointer, and a chain of what it owns in the arena | `from_value`, `From`, `map`, `map_ref`, `into_owned`, drop | nothing points to what was dropped; everything is dropped once, guards included |

How they interact.  A read of a signal inside a closure *binds* (`ScanNode::watch`,
`SinkBindings::bind`) and then brings the signal up to date (`ScanNode::update`), which checks
or runs its own sources recursively.  A write *notifies* the sinks, which notify theirs and at
the ends put effects in the reaction queue.  Dropping a `Subscription` or a node pushes its
bindings into `Globals::unbinds`, because they can only be removed under a `ReactionContext`.
The runtime applies unbindings and queued notifications when a context opens and before it
takes the reactions (`apply_notify`), and discards unused caches in `dispatch_discards`.
A change feed lets several readers follow one collection: an edit records what it changed, and each
reader later gets the changes since its last read.  Its nodes are sources like any other; a slab map
has in addition one set of sinks for each item.  An async node is a sink of what its future reads and
a source of its dependants, and is woken from outside by a waker.

The hard behaviour, with the lines where it bites, is listed under `hazards` in PROJECT.json:
recursive notification, checking and unbinding over a shared graph whose shape changes while it
is walked; conditional dependencies; user code that creates and drops effects from inside
closures; queues that are filled while they are emptied; work deferred to a later call; wakes
from other threads.

## 2. Modules

`DirtyFlags` holds the flags and their operators.

`Reactive` models the graph and the loop.  The code is one call stack; the model keeps for every
node where it is in that stack (`pc`), and one action is the piece of code between two nested
calls.  Where the code calls into a source, the calling node waits and the source's action
becomes enabled, so that the chain of waiting nodes *is* the call stack.  Only its last node can
step, so internal steps interleave only where the order really is open (the slab order in
which a source notifies its sinks).

| Variables | Code |
|---|---|
| `val`, `dirty` | `StateNode::value`, `ScanNodeData::state`; `SourceBinder::dirty` |
| `srcs`, `sinks` | `SourceBindings`; `SinkBindings`, one entry per binding |
| `pc`, `pos`, `seen`, `result` | the frames of `update`, `check`, `SourceBindings::update`, `clear` |
| `level`, `todo` | the frame of `SinkBindings::notify` |
| `scheduled`, `discards` | `ScanNode::discard_scheduled`; `RuntimeData::discards` |
| `actions`, `notifys`, `reactions`, `unbinds` | the queues of `Globals` |
| `rt`, `flushing`, `batch`, `get` | the frame of the runtime function under way |
| `life`, `obs`, `moved` | whether an effect's node lives; two history variables |
| `held` | the `RefMut`s of loose guards that were held when the context opened |

| Actions | Code |
|---|---|
| `NotifySink`, `NotifyDone` | `SinkBindings::notify` with the sinks' `BindSink::notify` |
| `ScanUpdate`, `CheckSource`, `CheckDone` | `ScanNode::update`, `SourceBindings::check` |
| `Bind`, `ReadValue`, `CloseRun`, `UnbindSource`, `TrimDone` | a closure under `SourceBindings::update` |
| `ClearDone` | `SourceBinder::clear`, or the end of a dropped node's bindings |
| `Set`, `SetLoose`, `SpawnSet`, `Subscribe`, `Unsubscribe` | what users do |
| `Dispatch`, `Flush`, `OpenContext`, `CloseContext`, `Get` | calls into the runtime |
| `RunAction` ... `DiscardsDone` | the bodies of `RawRuntime`'s dispatch functions |

A closure is given by two constant operators: `NextRead(n, seen)` is the source it reads next,
having read the values `seen`, and `Result(n, seen)` what it returns.  This covers every closure
whose reads and result depend only on what it read, conditional reads included.  Effects are
created and dropped at most once each, which bounds the history.

A binding is identified by its sink and its index in the sink's list.  This is enough because
`bind` only ever looks at the entry of the current index; a slab key never moves from one index
to another (`rebind`, which could, is used by async nodes only).

`GlitchFree` is the abstract promise: states change, and an effect observes all at once what its
closure computes from the states of one instant.  `ImplementsGlitchFree` says that `Reactive`
implements it, with `obs` as what each effect's last complete run read.

`Runtime` models the runtime at its other end: what comes from other threads and from other users of
the thread.  It has no graph; the nodes that wait for something are *waiters*, asynchronous actions
(`Task`) and asynchronous effects (`Effect`), which have a waker in the wake table.  Main-thread code
is split at its user calls and wherever it looks at what other threads may have changed; a step of
another thread is one critical section of `RawWakeRequests`.

| Variables | Code |
|---|---|
| `actions`, `reactions`, `notifys`, `unbinds`, `config`, `needWake` | `Globals`; a `Buckets` is the sequence of its items in phase order |
| `table`, `wakes`, `drops`, `waker` | `WakeTable::reactions`; `RawWakeRequests` |
| `key`, `held`, `waking` | `RawWake::key`; the `Arc<RawWake>` clones that what is awaited, or a thread in `wake`, holds |
| `life`, `fut`, `dirty`, `isWake`, `bound` | `AsyncAction::data`; the future, `AsyncSourceBinder` and the binding of an effect to the one State it reads |
| `tasks`, `discards` | `RuntimeData::async_actions`, `RuntimeData::discards` |
| `raw`, `wait` | which place holds the `RawRuntime` (`Runtime`, `Globals` while lent, `Runtime::call`); the `wait_for_ready` future |
| `at`, `back`, `fn`, `arg`, `handled`, `batch`, `nbatch`, `code` | the call stack of the main thread |
| `ready`, `woken`, `runtimes`, `fault` | the outside event; history; the panic that ended the thread |

| Actions | Code |
|---|---|
| `SpawnAction`, `SpawnAsync`, `Subscribe`, `Unsubscribe`, `LooseNotify`, `SetState` | user code, in or outside an action |
| `NewRuntime`, `DropRuntime`, `Lend`, `Unlend`, `EnterCall`, `LeaveCall`, `PollWait` | `Runtime` and `wait_for_ready` |
| `Dispatch`, `OpenContext` | calls of the dispatch functions, and of a context |
| `GetAction`, `GetActions`, `CallAction`, `CodeReturns`, `TaskPolled` | `dispatch_action`, `dispatch_actions_with`, `AsyncAction` |
| `Unbind`, `UnbindsDone`, `CallNotify`, `GetNotifys` | `apply_notify`, `apply_wake` |
| `RunReaction`, `EffectPolled`, `ReactionsDone`, `RunDiscard`, `DiscardsDone` | the rest of `flush`, `EffectAsyncNode::call` |
| `Fire`, `Wake`, `Release`, `Forget` | other threads: the event, `RawWake::wake`, `RawWake::drop` |
| `PhasePanic` | the assertion of `push_action` under `apply_wake` |

The queues of actions and reactions are written in `Runtime` with the operators of `PhaseOrder`, one
sequence in phase order; `PhaseQueues` has `Buckets` and `ISizeMap` as they are (an array that grows at
both ends, bounds of the ids in use) and carries the sequence along: `QueuesImplementOrder` says that
every call leaves and hands out what `PhaseOrder` says.

`AsyncNodes` models one node that polls: `ScanAsyncNode`, `EffectAsyncNode`, `FutureScanNode` or
`StreamScanNode`, chosen by `kind`, with its sources, its one dependant and the environment.  A whole
update (check, restart, poll, resolving of dependants) is one step, as it is one call without user code
other than the future; what the future reads and awaits next is the step's outcome `o`.  Between two
steps sources change, wakers are called and requests are taken in.

| Fields of `node` | Code |
|---|---|
| `dirty`, `woken`, `deps` | `AsyncSourceBinder::dirty`, `is_wake`, the entries of `sources` in each source (`SLOT_DEPS`) |
| `polled`, `pollWaker` | `poll_bindings` (`SLOT_POLL`) and `poll_waker` of the `AsyncSignalContext` |
| `awaits`, `happened` | the state of the future |
| `discard`, `user` | `discard_scheduled`; the entry, flag and queue place of the dependant |
| `used`, `outdated`, `moved`, `unsure` | history: what the future has read and what of it has changed; whether the cached source knows |

`ChangeFeed` is the storage of a change feed: `history` is `Changes` with the model, `ops` is
`RefCountOps`, `cursor` the readers, `guards` and `editing` the borrows of the two `RefCell`s.  Every function of
`ChangeFeedStorage` and `ChangeFeedCursorReader` is an action, with the `compact` it calls inside.  What is
stored is a parameter; `VecModel` and `SlabModel` define it for `StateVec` and `StateSlabMap`: each call
of `ItemsMut` with the changes it records, `release_change`, the public form of a change.
`SnapshotFeed` is the promise: readers that copy the whole collection when they read.
`ImplementsSnapshots` shows that `ChangeFeed` implements it when a reader replays the deltas it is given
(`mirror`).

`FeedNodes` has the nodes around that storage: states, states with a scan, scans, slab maps and scanned
slab maps, chosen by `kind`.  An edit is the set of slots it touches; the binder of the scan, the
entries of each effect per slot, and a loose edit's queued notification are state.

`ContextChannel` has the call stack of nested `scope` and `try_with` calls, each frame with what its `StateGuard`
puts back; a panic (`panicking`) ends frames one by one until something catches it.  `SignalStream` is the stream
that `stream_from` makes; `Oneshot` the broadcast, one critical section a step.

`StateRefs` has one `StateRef` under construction (`top`), the `map_ref`s whose closure is running (`calls`, each with what
`Data::pin` gave it) and the objects, values and `RefCell` guards, that own or refer to each other.  A drop is one
step for each object, so that the order is visible.  A panic (`unwinding`) drops first what the running closure has, then
what each `map_ref` has pinned.  `Seg` are the places that will drop something, `Places` those of one object.

`Parts` puts `FeedNodes`, `PhaseQueues`, `ContextChannel`, `SignalStream`, `Oneshot` and `StateRefs` side
by side.  They share no state, so a behavior is one of one part; the module only states their properties
together.

`MCReactive`, `MCRuntime`, `MCChangeFeed` and `MCParts` define the graphs, phases and models of the runs.
The theorems are in `ReactiveProofs`, `RuntimeProofs`, `AsyncProofs`, `ChangeFeedProofs`, `FeedNodesProofs`, `StateRefsProofs`
and `PartsProofs` (which has those of `PhaseQueues`, `ContextChannel`, `SignalStream` and `Oneshot` too); `CommonLemmas` has
the inductions that they share and what filters (`Filter`) keep of a sequence.

What is composed and what is not.  `Reactive` and `Runtime` are not composed: they share the queues,
but a waiter's only node in `Runtime` stands for the graph, and the product of both is out of TLC's reach.
`AsyncNodes` meets them at two points: a wake request that is taken in (in `Runtime` the table and the
threads) and the reaction of its dependant (in `Reactive` the whole graph).  `FeedNodes` meets `ChangeFeed` in the edit:
what an edit records is in the one, whom it tells in the other; `borrow_mut` and its guard exclude
every other use of the storage, so no step of the one falls between.  Both `FeedNodes` and
`AsyncNodes` rely on `BindingsAgree` of `Reactive` when they keep only one of the two flags of a binding.

Definitions marked "Mutant" are plausible mistakes in the operation that follows them.  Nothing uses them; each
breaks the property that PROJECT.json lists with it.

## 3. Runs

The graphs of `Reactive` have the values 0 and 1 and closures of at most two reads (`MaxReads`).

*Diamond*: states x, y; a reads x and is dedup; b reads a and, while a is 0, also y; effect e reads
a and then, while a is 0, b.  It has a dedup node above a plain one, a shared source reached along
two paths, a dependency of a signal and one of an effect that come and go.  *Pair*: one state x;
a reads x (dedup), b reads a and x; effect e reads a and b; effect f reads x and, while x is 1, b.

| Run of `Reactive` | Graph | Bounds | Shows |
|---|---|---|---|
| `diamond_safety` | Diamond | one queued loose notification | structure, freshness, no needless work, ends of caches, and the refinement of `GlitchFree`, over all orders of writes, reads, contexts, dispatches, and the effect's creation and drop |
| `pair_safety` | Pair, two effects, b kept, e spawns | one pending action, no loose writes | effects that create and drop each other in their closures and write states by actions are neither lost nor queued twice and are current when no work is left; the kept cache stays |
| `pair_liveness` | Pair, effect e | | calls return; effects catch up |
| `loose_in_context` | Diamond, loose guards may be held while a context opens and end in it | one notification | expected to fail, see section 6 |

| Run of `Runtime` | Instance | Bounds | Shows |
|---|---|---|---|
| `runtime_tasks` | two tasks in two phases, two keys, configurations {0, 1} and {1} | one closure pending, two runtimes | wakes of tasks are neither lost nor given to another; actions keep their order; tasks end with the runtime |
| `runtime_loop` | one task and one effect, whose Subscription may move into an action; the main loop of a lent runtime, with `dispatch_discards` | one each of closure, notification and discard, one runtime | a suspended waiter has no work, `flush` leaves none; tasks finish, effects catch up |
| `drop_while_borrowed` | one effect, two runtimes | | expected to fail, see section 6 |

No run of `Runtime` calls `dispatch_reactions` by itself, so as to stay within a few minutes: its loop is the one that
`flush` runs, and the theorems of `RuntimeProofs` about safety hold for every set `Use` of calls.

| Other runs | Instance | Bounds | Shows |
|---|---|---|---|
| `feed` | a list of up to three items and a slab map, four keys, values 0 and 1 | ages modulo 4, two retained changes, two readers and two borrows over the slab map, one of each over the list | counts, retained changes and slab entries are exact; compaction catches up; deltas replay to the collection |
| `async_nodes` | the four kinds of node; a State and a cached signal as sources | two sources a poll | outdated futures restart, wakes are not lost, dependants are current, events are polled for |
| `async_panics` | the same | no sources, so that only wakes notify | expected to fail, see section 6 |
| `parts` | two effects and two items; phases -1, 0, 2; two channels and two contexts; one stream; two receivers; four objects under two nested `map_ref`s | two reads a run, three queued items, call depth 5 | who must be told or woken is, and nobody else; queues and contexts are handed out in order |
| `slab_rebind` | one effect, two items | two reads a run | expected to fail, see section 6 |

Why the bounds are enough to be interesting: each of the mechanisms has its case in the graphs (a binding
that is reused, replaced, appended and trimmed; a MaybeDirty that resolves to Clean and one that resolves
to Dirty; a signal that is scheduled for a discard, used again and then discarded; an effect dropped
while queued, while running and while bound), and every property has a mutation of the code's operation,
next to that operation in the module, that TLC finds violates it.  A second queued notification only
repeats the delivery of the first, as `apply_notify` works them off one by one.  In `runtime_tasks` two
keys for two tasks are just enough that an index is freed and given to the other task while clones of the
first one's waker are around; two runtimes are needed for wakes that arrive after the runtime they were
meant for; a narrower second configuration reaches the assertion of `push_action`.

In `feed` two changes and ages modulo 4 let the front of the history wrap around several times, with
readers before, between and at the end of the changes; `FeedAssumption` (fewer changes than ages) is what
`usize` gives.  Counts do not depend on the collection, so the list, which has the richer edits, is
explored with one reader and one borrow (`FewWithVec`), the slab map with two of each.  Readers and slab
keys of the list are interchangeable (symmetry); the properties are about safety.  A list of three items
is the least in which every call (swap, move, drain, sort, swap_remove) has a case that is not one of
another. In `async_nodes` two sources are needed for a dependency that stays while another goes, and one
of them is a cached signal, because only that can turn a `MaybeDirty` into `Clean`.  In `parts` phases on
both sides of 0 with a gap make the array grow at both ends and the bounds step over an empty queue; call
depth 5 is a scope within a `try_with` within a scope, twice; four objects under two nested `map_ref`s
have a guard of a `RefCell` in a value that another value was mapped to, and a closure over a static
`StateRef` inside another closure; two effects and two items show
that one item's change does not reach the other's reader.

The properties of `Reactive`:

* *Structure.* `TypeOK`; `BindingsAgree`, the two ends of each binding in every intermediate state;
  `DirtyAskedAfterUpdate`, the panic at `core.rs:920` is not reached.
* *No outdated values.* `CleanCachesAreFresh`, `ReadsAreCurrent` (with `GetsAreCurrent`, reads at top level),
  `ImplementsGlitchFree`, against `Fresh`, which recomputes everything from the states.
* *No unnecessary work.* `RunsOnlyIfMoved` (dedup stops propagation), `ChecksFollowCurrentReads` (no
  source is recomputed behind a condition that no longer holds).
* *Caches end.* `UnusedCacheIsScheduled`, `ScheduledOnce`, `KeptCacheStays`, `NoOrphanCache`.
* *Effects run.* `DirtyEffectIsQueuedOnce`, `EffectsAreCurrent`; `CallsReturn`, `EffectsCatchUp`.

And of `Runtime`:

* *The wake table.* `KeysAgree`, `EntryGoesWithItsWakes` (no one is polled for the wake of another),
  `RemovalFreesNoFuture` (the lock is not taken again by the drop of a future's wakers).
* *Wakes are not lost.* `WokenIsPending`, `ParkedMeansIdle`; `TasksFinish`, `EffectsCatchUp`.
* *Order and end.* `ActionsKeepOrder`, `FlushLeavesOnlyWoken`, `TasksEndWithRuntime`.

Of the other modules:

* *Change feeds.* `ReadersAreCounted`: once the queued counts are taken in, every reader is counted exactly at
  the age it has read up to; no assertion of `Changes` fails, wrap-around included.  `SlabHoldsWhatIsNamed`: no
  value is freed that a delta may still show, none outlives its last change.  `CompactionCatchesUp`,
  `ImplementsSnapshots`.  `ChangesReachReaders`, `RunsAreDue`: effects on a feed or on one item run after each change
  of what they read and after nothing else.
* *Async nodes.* `OutdatedIsKnown`, `WakesAreKept`, `DependantIsCurrent`, `EventsArePolled`.
* *The rest.* `QueuesKeepOrder` (exact bounds, and the order that `Runtime` assumes), `ContextsAreLentOnce` (two
  callbacks never have one `&mut` context at a time; no pointer stays after its scope, panics included),
  `RefsStayValid` (a chain of references drops its parts in the right order and once), `WaitersAreWoken` (streams and broadcasts).

*Fairness of Reactive.*  `FairSpec` is weakly fair on `Internal`, the steps of runtime code that has been
called: it runs on the caller's thread and has no blocking operation.  Users are not fair in it, so
`CallsReturn` says that no sequence of internal steps is infinite, as long as closures are finite.
`LoopSpec` adds the main loop that the README of the repository shows: `Flush` and the end of a
context are taken again and again when possible (strong fairness, since the user's other calls
disable them for a while).  Without such a loop no effect ever runs, in the code as in the model.

*Fairness of Runtime.*  Its `LoopSpec` has the main loop of an executor: internal steps and the polls of a
woken `wait_for_ready` are weakly fair; the loan ends when the future is ready, a call ends, and `flush` is
called again and again; a thread that has a waker of something that has happened wakes it and drops its
clone.  It also restricts the threads: a waker is not used before the event has happened.  This
is needed.  `dispatch_actions_with` goes on until there is no action, so a task that is woken anew after each of its
polls keeps `flush` from ever running a reaction.

*Fairness of the other modules.*  `AsyncNodes` assumes that wake requests are taken in and that the queue of reactions
is emptied again and again, which is what `flush` in the main loop does (`EffectsCatchUp` and
`FlushLeavesOnlyWoken` of `Runtime`); `Parts` that the reaction of a stream, once queued, runs.  Futures,
events, consumers and users are not fair.

## 4. Proofs

Every inductive invariant below was checked by TLC, as an invariant of the runs' instances, before it was proved.  Each
theorem holds for all values of the constants that satisfy the named assumptions, which TLC evaluates in
every run.

### Graph (`ReactiveProofs`)

For every set of nodes, all closures and all bounds that satisfy `NodesAssumption` (the kinds of
node are disjoint, bounds are naturals) and `ClosureAssumption` (a closure reads lower-ranked sources,
at most `MaxReads` of them).  The code answers a cycle with the panic "detect cyclic dependency".

1. `SpecTypeOK`.  `TypeOK` is not inductive: that `pos` stays in range, or that a
   loop reads an existing binding, needs to know how far a run has come.  The inductive invariant
   `CallsInv` adds `NotifyPhase` (while anything notifies, nothing is checked, run or unbound),
   `Progress` (the relation of `seen`, `pos` and `srcs` in each state of a node; a source being read
   has just been bound) and `CachesPresent` (a signal that is not dirty has a value, so that
   what a closure reads is one).  The proof has one lemma per group of actions.
2. `SpecScheduledOnce` and `SpecKeptCacheStays`, from `QueueInv`: the discard
   list holds no signal twice and none that is kept.  Every action changes the list in one of three ways
   (`QueueSteps`).
3. `SpecBindingsAgree`.  Needs `Sweeps` besides: a notification only has existing
   entries left to visit, otherwise `ApplyNotify` would bring a removed entry back.
   All steps but `Bind` and `UnbindSource` leave the bindings where they are (`BindingsStay`).
4. `SpecUnusedCacheIsScheduled`, from `CacheInv`.  The stronger fact is about
   a signal without sinks: it is scheduled, or it has no cache *and* is not about to get one (it is not
   being checked or computed).  A signal loses its last sink only in a step that calls
   `try_schedule_discard` (`LastUnbind`), and starts to be computed only in `ScanUpdate`, which calls it too.
5. `SpecDirtyAskedAfterUpdate`, from `FlagInv`.  `PhaseInv` says which node is where and what its flag then is;
   `EntryInv` what the entry of a source for a sink says in the middle of sweeps, checks and runs.  At rest, a clean
   entry means a clean source and a flagged entry a flagged sink; within a sweep, a check or a run the exceptions
   are exactly the entries still to be visited (`CleanEntry`, `MaybeEntry`, `FlagEntry`) or already
   resolved (`CheckedClean`, `ReadClean`).  `EffectStep` first says of every action what it does to the flags and
   entries, so that each part of `FlagInv` is one case split over those effects.
6. `SpecDirtyEffectIsQueuedOnce`, from `PendingInv`: what is queued waits to run, nothing is queued twice and everything
   that waits is queued, over both queues (`reactions` and the batch being dispatched) as one sequence.
7. `SpecCleanCachesAreFresh` and `SpecEffectsAreCurrent`.  What a closure would compute now (`Fresh`) is recursive over the
   graph.  That it exists and is unique is proved with inductions on the rank that are stated for sets
   (`CommonLemmas`), as theorems with an operator parameter cannot be instantiated.  `ValueInv` then relates
   runs to the values of sources: what a running closure has read are the values that its bindings had, apart from
   sources that have told it otherwise since (`RunReads`, `RunEnds`), and of a node at rest that is not "Dirty" there
   is a last run that gave its value (`LastRun`).  A clean cache is fresh by taking the settled node of least rank for
   which it fails.
8. `SpecReadsAreCurrent`, `SpecChecksFollowCurrentReads` and the refinement `SpecImplementsGlitchFree`: every step of
   `Reactive` is a step of `GlitchFree` or a stutter.  They need `ContextInv` (checks and closures are under way only
   in a top-level read or in `dispatch_reactions`, where one effect is called at a time; what is checked has not
   been dropped) and that no notification is queued while a context is open (`NotifysRt`).  The last is
   true if loose guards end outside contexts, so these three have the hypothesis `LooseEnds \subseteq {"idle"}`;
   without it they are false, which is the finding `loose_in_context`.
9. `SpecNoOrphanCache`.  A dropped effect that still has bindings is queued for unbinding (`DroppedUnbinds`), and a signal
   at rest has bindings only with a cache (`CachedBindings`), so what is bound to a cache at rest is a live effect
   or has a cache itself.  With `SpecUnusedCacheIsScheduled` something is bound to every cache that is not kept.
10. `SpecRunsOnlyIfMoved` (an action property), from `MovedInv`: a source that filters equal values tells "MaybeDirty"
    only, and an entry becomes "Dirty" only if its value has moved since the sink's last run.

### Runtime (`RuntimeProofs`)

For any sets of waiters, phases and keys and any bounds that satisfy `RuntimeAssumption` (tasks and effects are
disjoint, `None` and `All` are no phase, key or waiter), from the inductive invariant `RuntimeInv`.

1. `SpecKeysAgree`, `SpecEntryGoesWithItsWakes`, `SpecRemovalFreesNoFuture` and `SpecTasksEndWithRuntime`.  `KeysAgree`
   alone is not inductive.  `TableInv` adds that entries and keys are inverse to each other, or the last clone of one
   waiter might ask for the removal of another's entry, and that a waiter not started has no key;
   `CodeInv` that a task that is being polled lives, which needs to know where in the call stack user
   code can be; `TaskInv` that there is no task and no call without a runtime.  One lemma for each way
   the table changes (`InsertTable`, `DropTable`, `ApplyTable`, `HoldTable`, `ReleaseTable`, `WakeTable`), and
   one for each group of actions.
2. Lemmas about phase order.  `PushOf`, `DrainOf`, `PopOf` and `PushAllOf` say what the operators of `PhaseOrder` do to the
   items of one phase, and to which items there are.  `Kept` (`Filter`) is a filter over a sequence
   written as a recursive function, which the provers can unfold, where `SelectSeq` is not; `NatSetInduction` and
   `SeqSetInduction` of `CommonLemmas` stand in for induction.
3. `SpecParkedMeansIdle`, from `ParkedInv`: whatever fills a queue while a waiter is parked takes its waker.
4. `SpecWokenIsPending`, from `TypeInv` (what is in each queue, and that each is in phase order) and `PendingInv`: a woken
   waiter is in the wakes, a queue, a batch or a notification, and an effect whose wake flag is set is
   scheduled, unless its runtime has ended.
5. `SpecFlushLeavesOnlyWoken`, from `FlushInv`: once a round of `flush` has handled no reaction, every queue is empty but
   for the next polls of woken tasks, which `apply_wake` pushes; a round that has handled some is followed by another.
6. `SpecActionsKeepOrder`: for every phase the batch followed by the queue is only appended to at the end and
   taken from at the front (`OrderGrows`, `OrderStays`, `OrderTakes`).

### Async nodes (`AsyncProofs`)

For any sources: `SpecOutdatedIsKnown`, `SpecWakesAreKept`, `SpecDependantIsCurrent`, and `SpecPlainNodesAnswer`, which no run
states: a future or a stream on its own never runs into the panic that `async_panics` shows of `ScanAsyncNode`.
`AsyncInv` is about one node: what its entries in the sources say of what the future has read (`DepsInv`), that
`poll_waker` is there only while nothing that was polled has moved (`PollInv`), that a future which can go on is about
to be polled (`Safe`), and that a dependant is queued whenever the next update polls (`UserInv`).  Each operator
of an update has a lemma; an update is their composition.

### Change feeds (`ChangeFeedProofs`, `FeedNodesProofs`)

`ChangeFeedProofs` is about any readers, any collection and ages of any width larger than `MaxHistory` (`FeedAssumption`).
`SpecReadersAreCounted` follows from `FeedInv`: at every age, the readers are as many as the history holds at it, plus
what is queued (`CountedAt`); ages outside of the history have neither.  The counts are queued by age and
applied by index, both modulo the width, so half the lemmas are about ages that wrap.  While an edit is under way
there are no guards and no new reader is queued (`StorageInv`), or its changes would come before a
reader that has not seen them.  `SpecCompactionCatchesUp` is an action property from the same invariant.

`SlabHoldsWhatIsNamed` is false of a collection that frees what a later change of the same edit names, so
`SpecSlabHoldsWhatIsNamed` has a contract of the collection as its hypothesis, `KeepsSlab`: a set of models closed
under edits and releases in which keys that wait for a release stay in the slab and are not named again, and every other
key that leaves the collection is given back by one change of the edit that no later one names.  `SlabInv` says the same of
a history in place of an edit; a release of the first change keeps it for the rest (`ReleaseFits`), so compact
does, by induction over the changes that it releases (`ReleasesFit`), and what an edit records comes
last (`EditFits`).  Every step is one or the other (`OnlyCompacts`, `Record`).  `VecKeepsContract` and
`SlabKeepsContract` discharge the hypothesis for the two collections: the list of a `StateVec` has no key twice, which each
call of `ItemsMut` keeps, and `apply_to` keeps swap by swap (`ApplyToIs`).  `StateVecHoldsWhatIsNamed` and
`SlabMapHoldsWhatIsNamed` put them together.  `MCChangeFeed` checks both collections in one run, each on its own
behaviors.

`FeedNodesProofs` is about any effects, items and reads: an effect is stale exactly if it or one of its bindings is "Dirty", or
a loose edit's notification is on its way to it; while the scan is clean no binding is unresolved, and while it is
not, none is clean (`EffectInv`).  Both properties of `FeedNodes` follow.

### Queues, contexts, waiters and references (`PartsProofs`, `StateRefsProofs`)

`SpecQueuesKeepOrder` is about any set of phases (`QueuesAssumption`: integers between the two that stand for no bound; `None`
is no phase) and any items.  `QueuesInv` says of every integer what `BoundsAreExact` says of phases: what is queued at `j` has
phase `j`, so that the array has nothing at integers that are no phase, over which `drain` runs as well.  Two lemmas carry
the proof.  `SameQueues`: two arrays with the same queues hold the same order, wherever they start and end, which covers an
array that has grown (`PreparedIs`), a drain of a phase it does not reach, and the range that a drain of everything
goes through.  `OrderParts`: of a sequence that is items before a phase, in it and behind it, the filters of
`PhaseOrder` find the three parts; with `WithQueueIs`, which splits the array at a phase, `push`, `pop_front` and `drain` of one
phase change the order as `Push`, `Popped` and `Remaining` do.  `FlattenSeq` is handled as `Kept` is: its
recursive function is shown to exist (`FlattenUnfold`), then what it gives for one more queue and for two
arrays in a row.  `BoundsAre` is the case split of `update_bounds`.

`SpecWaitersHaveWakers`, the safety half of `WaitersAreWoken`, needs of a stream that a changed source has
left the binder "Dirty" and a dirty binder has scheduled its reaction (`StreamInv`), and of a broadcast that
until `send` every key is its receiver's own (`ShotInv`), or the end of one `recv` could remove the waker of
another.

`LentOnce` alone is not inductive.  `ChannelInv` says that every frame is `Nested`: its guard has what the channel was
when it was entered; a `scope` has a context that nobody has lent or that a `try_with` has borrowed last; a `try_with` has
borrowed from the scope that had its context last, through the same channel.

`StateRefsProofs` is about the order of drops.  Everything that lives has one place in one segment (`Placed`), and, as long as
no closure has borrowed across a static `StateRef` (`~crossed`), refers only to
later places of its segment or to segments of `map_ref`s around it that its lifetime covers
(`Follows`, `Covers`); so nothing refers to what is dropped next (`RefsInv`, `SpecNoDangling`).  That everything is dropped
once holds whatever is borrowed (`SpecOwnedOnce`): which objects are owned where does not depend on what they refer to, so
`OwnInv` only asks for some calls, `StateRef` and objects that own the same (`OwnLike`) and are laid out in order.

`PartsProofs` carries all of this to the specification that the run checks: a behavior of `Parts` is one of each part
(`SpecsOfParts`), and what an instance of a part states is what the part's own module states.  Theorems:
`SpecChangesReachReaders`, `SpecRunsAreDue`, `SpecQueuesKeepOrder`, `SpecContextsAreLentOnce`, `SpecRefsStayValid`,
`SpecWaitersHaveWakers`.

### Model-checked only

* Liveness and what needs ENABLED: beyond the prover.
* `GetsAreCurrent`: its run is a violation.
* `ImplementsSnapshots`: what replaying a list of changes gives is an induction over data.
* `EventsArePolled`, and the liveness half of `WaitersAreWoken`.

## 5. What is not modelled, and the plan

Left out of `Reactive`: closures that panic; scans that accumulate (the node is the same, the value then
depends on the number of runs); `KeepNode`; nodes freed while the graph still refers to them, except
effects; `RefCell` conflicts of overlapping guards, but for a loose guard that is held while a context
opens: until it ends, a read of its state is the code's panic, after which nothing follows.  Phases and async are in `Runtime`.  Formatting,
macros and serialization are not part of any model.

Left out of `Runtime`: panics of user code; a loan inside `Runtime::call`; user code that the
drop of a future or a value runs; an effect that drops its own `Subscription` while it is polled;
`wake_by_ref`; more than one dependency of an effect.  A `Runtime` is only dropped if another may follow
(`MaxRuntimes`).  An effect that is queued when a runtime ends loses its reaction with the queue
and keeps its wake flag, so it is never polled again; `WokenIsPending` says so.

Left out of `ChangeFeed` and its collections: iterators and construction from an iterator (they end in
the modelled calls), overflow of a count at 2^64 readers, serialization.  Of a scanned slab map, edits in
several `PendingEdit`s of one scan are one edit.  Left out of `AsyncNodes`: more than one dependant; a
panic of the future; a future that is polled while its node is already borrowed.  Left out of
`StateRefs`: where in a buffer or in the arena a value is; values that refer to several others; a
StateRef that is moved out of a closure other than as its result.  What a closure can point to follows
the lifetimes of `map_ref`'s signature: what it is given (`Given`) and what the closures around it were
given (`Enclosing`); what it returns is not a value that borrows from what it alone was given.  Of the
latter, `Captured` is what it reaches without a static `StateRef` in between.  `crossed` becomes true when
a closure borrows more than that; from then on `RefsStayValid` only says that everything is dropped
once, for the reason in section 6.  The KeepNode of `Signal::keep` is an effect
that does nothing; the wrapping constructors of `signal_t.rs` have no state.  A panic in the closure of
a signal is not modelled: what is left after it has been caught is described at `source_binder.rs:34` in the hazards.

Left of the plan is one theorem: that every step of `ChangeFeed` is one of `SnapshotFeed` or a stutter (`ImplementsSnapshots`,
which a run checks).  It needs what the replay of a list of changes gives, for every list.

## 6. Findings

`loose_in_context`: the README of the repository says that "users only ever see values derived from the
latest state" (`README.md:128`).  `borrow_mut_loose` only borrows its `ActionContext` for the call, so its
guard may outlive it, be held while a `SignalContext` opens, and be dropped there.  While it is held
(`held`), a read of the state panics, as its `RefCell` is mutably borrowed (`state.rs:39`, `state.rs:206`).  After its
drop the notification is queued (`state.rs:173`), and the queue is applied when the next context opens
(`core.rs:561`), not when a signal is read.  A signal that was computed before, and whose cache is
therefore clean, is read in the open context with its old value; that is the trace of the run.  With loose guards
that end outside any context (`LooseEnds = {"idle"}`, all other runs) the promise holds.

`drop_while_borrowed`: a dropped `SourceBindings` promises to defer the clearing (`core.rs:822`).  If an
action that is still queued owns the `Subscription` of an effect that has run, the end of the runtime drops both
while `Globals` is borrowed (`core.rs:513`, `core.rs:226`), and the drop of the bindings borrows it again
(`core.rs:837`): the thread panics.

`async_panics`: an async signal that is woken tells its dependants that it may have changed.  If the poll
that follows is still pending, `ScanAsyncNode::update` returns without resolving them (`scan_async.rs:97`), and the
check of a dependant that asks `is_dirty` next panics with "`is_dirty` called before `update()`" (`core.rs:920`).
The futures of this run have no dependencies (`MaxReads = 0`), so its trace is this one: a read, a wake, a dispatch.
With dependencies (`MaxReads = 1`) there is a second way: one tells the signal that it may have changed, turns out unchanged,
and the poll is pending.
`FutureScanNode` and `StreamScanNode` always resolve.  The other properties of `AsyncNodes` hold up to that panic.

`slab_rebind`: the bindings to single items of a `StateSlabMap` are in one `RefCell`.  An effect that reads another item than
in its last run, at the same place in its reads, replaces its binding while that cell is borrowed
(`slab_map.rs:402`); the old binding is unbound at once (`core.rs:827` explains why that needs care) and borrows
the cell again: the thread panics.  `SinkBindingsSet` of a scanned slab map has the same cell for all slots; there
too the model (`Cell`) panics.

Observations that no run states:

* `SourceBindings::drop` queues bindings in `Globals::unbinds` without `Globals::wake`, unlike every other push to a queue
  (`core.rs:837`): a waiter that is suspended in `wait_for_ready` is not woken, though a poll of it would be ready.
  Nothing waits for the unbinding itself.
* `VecModel::sort_as` calls `sort_unstable_by` when `stable` is set and `sort_by` when it is not
  (`vec.rs:721`); `Orders` follows the code.
* `StreamScanNode::update` polls one item and resets the wake flag (`stream_scan.rs:155`): items that are
  ready already wait for the next wake.
* A `FutureScanNode` that always reports a change notifies "Dirty" when it is woken, so a spurious wake
  runs its dependants (`future_scan.rs:224`).
* After a restart or a discard, `poll_bindings` of the last `poll_fn` stay until the next one; their
  notifications only wake the node (`async_signal_context.rs:144`).
* `SignalStream` and `oneshot_broadcast` call the waker while their `RefCell` is borrowed or their mutex is held
  (`stream.rs:110`, `oneshot_broadcast.rs:31`), as `Globals` does (`core.rs:234`).
* `map_ref` keeps a static result of its closure as it is and drops what the closure was given (`state_ref.rs:88`), and what
  a closure makes of a static `StateRef` is static for it (`state_ref.rs:83`).  The inner closure's result may however have a
  type that borrows from a closure around it: in a `map_ref` over some `x`, a `map_ref` over a `from_value` whose closure returns
  a `from_value_non_static` of `&x`.  The outer `map_ref` would then drop `x` and return the reference.  In the model it
  does, with three objects and two calls, if `NoDangling` is checked without the hypothesis `~crossed`; that the
  compiler accepts such closures was read from the signatures, not tried.
* The arena that `StateRef`s allocate in is never reset while its `Runtime` lives (`core.rs:540`): every value that is pinned or
  too large to be embedded takes memory until the runtime ends, though it is dropped in time.
