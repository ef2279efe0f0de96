----------------------------- MODULE AsyncNodes -----------------------------
(***************************************************************************)
(* Nodes that poll a future or a stream: when they are woken, what they    *)
(* depend on, and what they tell their dependant.                          *)
(*                                                                         *)
(*   signal   ScanAsyncNode    restarts its future when a dependency       *)
(*                             changes; its state has dependants           *)
(*   effect   EffectAsyncNode  the same without a state                    *)
(*   future   FutureScanNode   one future, no dependencies                 *)
(*   stream   StreamScanNode   one stream, no dependencies                 *)
(*                                                                         *)
(* The first two keep an AsyncSourceBinder: what the future reads through  *)
(* AsyncSignalContext::with are its dependencies and accumulate over its   *)
(* polls; what a poll_fn that is still pending read only wakes the future. *)
(* Sources are states, which notify "Dirty", and one cached signal, Memo,  *)
(* which notifies "MaybeDirty" and may turn out unchanged when it is read  *)
(* or asked.                                                               *)
(*                                                                         *)
(* A future waits for an event outside of the runtime (awaits = "event"),  *)
(* in poll_fn ("source"), or for nothing it was not yet polled for         *)
(* ("start").  A waker may be called at any time, by any thread, also by   *)
(* what no longer has to do with the future; it leaves a request that the  *)
(* runtime takes in before it dispatches (Runtime has the protocol).       *)
(*                                                                         *)
(* The dependant is an effect.  A poll's outcome is chosen: what it read,  *)
(* what it waits for next, whether the scan reports a change.              *)
(***************************************************************************)
EXTENDS Naturals, FiniteSets, DirtyFlags

CONSTANTS Source,
          Memo,
          MaxReads  \* bound: sources read in one poll, and by one poll_fn

ASSUME SourceAssumption == Memo \in Source /\ MaxReads \in Nat

VARIABLES
    kind,
    filter,   \* a FutureScanNode whose scan reports whether it changed the state
    node,     \* [dirty, woken, ...], below
    request,  \* a wake request for the node waits in the runtime
    panicked

vars == <<kind, filter, node, request, panicked>>

(* The fields of node:                                                              *)
(*   dirty      AsyncSourceBinder::dirty; "Clean" for a future or stream             *)
(*   woken      is_wake                                                              *)
(*   deps       its entry in each source for SLOT_DEPS                               *)
(*   polled     and for SLOT_POLL (poll_bindings)                                    *)
(*   pollWaker  poll_waker holds a waker                                             *)
(*   awaits     what the future waits for; "none": it has ended, "never": none made  *)
(*   happened   the event the future waits for has happened since its last poll      *)
(*   used       history: the sources the future has the values of since it started   *)
(*   outdated   those that have changed since then                                   *)
(*   moved      sources of polled that changed since the poll_fn read them           *)
(*   unsure     Memo was told of a change and does not know whether it changed       *)
(*   discard    discard_scheduled                                                    *)
(*   user       the dependant: [dirty, queued, bound, behind]                        *)

Binds == kind \in {"signal", "effect"}
NotBound == [s \in Source |-> "Unbound"]
Bound(f) == {s \in Source : f[s] # "Unbound"}
NoFuture(n) == n.awaits \in {"never", "none"}

\* What the environment chooses for an update that polls: Memo changed, what the future
\* reads, whether a poll_fn that became ready read it, what the future waits for next
\* ("none": it is ready), what a pending poll_fn read, whether the scan reports a change.
\* FutureScanNode and StreamScanNode give the future no context.
Reads == {r \in SUBSET Source : Cardinality(r) <= MaxReads}
Outcome == {o \in [changed : BOOLEAN, reads : Reads, extends : BOOLEAN, polls : Reads,
                   next : {"none", "event", "source"}, reports : BOOLEAN] :
               o.next # "source" => o.polls = {}}
PlainOutcome == {o \in Outcome : /\ o.reads = {} /\ ~o.extends /\ ~o.changed
                                 /\ o.next # "source"}
NoPoll == {o \in PlainOutcome : o.next = "none" /\ ~o.reports}
Outcomes ==
    IF node.dirty = "Clean" /\ (~node.woken \/ NoFuture(node)) THEN NoPoll
    ELSE IF ~Binds THEN PlainOutcome
    ELSE {o \in Outcome : /\ o.changed => node.unsure
                          /\ o.reports => kind = "signal"}

-----------------------------------------------------------------------------
(* Notifications. *)

\* SinkBindings::notify of the node's one dependant.
Tell(u, level) ==
    IF u.bound = "Unbound" THEN u
    ELSE [u EXCEPT !.bound = ApplyNotify(@, level),
                   !.dirty = IF NeedsNotify(u.bound) THEN ApplyNotify(@, level) ELSE @,
                   !.queued = @ \/ (NeedsNotify(u.bound) /\ NeedsNotify(u.dirty))]

\* SinkBindings::update; a dependant is behind from a change of what it read until it runs.
Resolve(u, isDirty) ==
    [u EXCEPT !.bound = IF @ = "MaybeDirty" THEN FromIsDirty(isDirty) ELSE @,
              !.behind = @ \/ (isDirty /\ u.bound # "Unbound")]

\* BindSink::notify of ScanAsyncNode and EffectAsyncNode when on_notify returns true.
\* An effect schedules itself: user stands for its place in the queue.
TellOn(n, needsNotify) ==
    IF ~needsNotify THEN n
    ELSE [n EXCEPT !.user = IF kind = "effect" THEN [@ EXCEPT !.queued = TRUE]
                            ELSE Tell(@, "MaybeDirty")]

\* Mutant: a notification of a dependency while the future is woken is dropped.
DepNotifiedUnlessWoken(n, s, level) ==
    IF n.deps[s] = "Unbound" \/ ~NeedsNotify(n.deps[s]) THEN n
    ELSE IF n.woken THEN [n EXCEPT !.deps[s] = ApplyNotify(@, level)]
         ELSE TellOn([n EXCEPT !.deps[s] = ApplyNotify(@, level),
                               !.dirty = ApplyNotify(@, level)], NeedsNotify(n.dirty))

\* AsyncSourceBinder::on_notify for SLOT_DEPS, from source s.
DepNotified(n, s, level) ==
    IF n.deps[s] = "Unbound" THEN n
    ELSE IF ~NeedsNotify(n.deps[s]) THEN [n EXCEPT !.deps[s] = ApplyNotify(@, level)]
    ELSE TellOn([n EXCEPT !.deps[s] = ApplyNotify(@, level),
                          !.dirty = ApplyNotify(@, level)], NeedsNotify(n.dirty))

\* Mutant: a poll_fn is woken only by what is known to have changed.
PollNotifiedIfDirty(n, s, level) ==
    IF n.polled[s] = "Unbound" THEN n
    ELSE [n EXCEPT !.polled[s] = ApplyNotify(@, level),
                   !.pollWaker = @ /\ ~(NeedsNotify(n.polled[s]) /\ level = "Dirty")]

\* on_notify for SLOT_POLL: poll_waker is taken and called, which only leaves a request.
PollNotified(n, s, level) ==
    IF n.polled[s] = "Unbound" THEN n
    ELSE [n EXCEPT !.polled[s] = ApplyNotify(@, level),
                   !.pollWaker = @ /\ ~NeedsNotify(n.polled[s])]

Notified(n, s, level) == PollNotified(DepNotified(n, s, level), s, level)

\* A state changes.
SourceChanges(s) ==
    LET n == Notified(node, s, "Dirty")
    IN  /\ panicked = "no" /\ Binds /\ s # Memo
        /\ node' = [n EXCEPT !.outdated = @ \cup (n.used \cap {s}),
                             !.moved = @ \cup (Bound(n.polled) \cap {s})]
        /\ request' = (request \/ n.pollWaker # node.pollWaker)
        /\ UNCHANGED <<kind, filter, panicked>>

\* A source of Memo changes.
MemoNotified ==
    LET n == Notified(node, Memo, "MaybeDirty")
    IN  /\ panicked = "no" /\ Binds /\ ~node.unsure
        /\ node' = [n EXCEPT !.unsure = TRUE]
        /\ request' = (request \/ n.pollWaker # node.pollWaker)
        /\ UNCHANGED <<kind, filter, panicked>>

\* Memo computes and resolves its entries.
MemoResolved(n, changed) ==
    LET Entry1(e) == IF e = "MaybeDirty" THEN FromIsDirty(changed) ELSE e
        new == IF changed THEN {Memo} ELSE {}
    IN  IF ~n.unsure THEN n
        ELSE [n EXCEPT !.unsure = FALSE,
                       !.deps[Memo] = Entry1(@), !.polled[Memo] = Entry1(@),
                       !.outdated = @ \cup (n.used \cap new),
                       !.moved = @ \cup (Bound(n.polled) \cap new)]

\* Somebody else reads Memo.
MemoRead(changed) ==
    /\ panicked = "no" /\ Binds /\ node.unsure
    /\ node' = MemoResolved(node, changed)
    /\ UNCHANGED <<kind, filter, request, panicked>>

\* A waker of the node is called: for the event, or for no reason.  Polls hand it out.
Wake(event) ==
    /\ panicked = "no" /\ node.awaits \notin {"never", "start"}
    /\ event => node.awaits = "event"
    /\ node' = [node EXCEPT !.happened = @ \/ event]
    /\ request' = TRUE
    /\ UNCHANGED <<kind, filter, panicked>>

\* BindSink::notify of FutureScanNode and StreamScanNode, which ignore it once they have
\* ended.  A future says "maybe" if its scan may report no change, a stream always.
FutureNotified(n) ==
    IF n.woken \/ NoFuture(n) THEN n
    ELSE [n EXCEPT !.woken = TRUE, !.user = Tell(@, MaybeIf("Dirty", filter))]
StreamNotified(n) ==
    IF n.woken \/ NoFuture(n) THEN n
    ELSE [n EXCEPT !.woken = TRUE, !.user = Tell(@, "MaybeDirty")]

\* The runtime takes the request in: notify, for SLOT_WAKE.
TakeRequest ==
    /\ panicked = "no" /\ request
    /\ request' = FALSE
    /\ node' = CASE Binds -> TellOn([node EXCEPT !.woken = TRUE], ~node.woken)
                 [] kind = "future" -> FutureNotified(node)
                 [] kind = "stream" -> StreamNotified(node)
    /\ UNCHANGED <<kind, filter, panicked>>

-----------------------------------------------------------------------------
(* Polls. *)

Set(f, sources, to) == [s \in Source |-> IF s \in sources THEN to ELSE f[s]]

\* Mutant: what a poll_fn that became ready had read is forgotten.
PolledForgetting(n, o) ==
    [n EXCEPT !.woken = FALSE, !.happened = FALSE, !.awaits = o.next, !.used = @ \cup o.reads,
              !.deps = IF o.extends THEN @ ELSE Set(@, o.reads, "Clean"),
              !.polled = IF o.next = "source" THEN Set(NotBound, o.polls, "Clean")
                         ELSE IF o.extends THEN NotBound ELSE @,
              !.pollWaker = IF o.next = "source" THEN TRUE ELSE @ /\ ~o.extends,
              !.moved = IF o.next = "source" \/ o.extends THEN {} ELSE @]

\* AsyncSourceBinder::poll: what with reads, and what a poll_fn that became ready had
\* read, joins the dependencies; a pending poll_fn keeps its own bindings and its waker.
\* Another pending or an ended future leaves those of an earlier poll_fn.
Polled(n, o) ==
    [n EXCEPT !.woken = FALSE, !.happened = FALSE, !.awaits = o.next, !.used = @ \cup o.reads,
              !.deps = Set(@, o.reads, "Clean"),
              !.polled = IF o.next = "source" THEN Set(NotBound, o.polls, "Clean")
                         ELSE IF o.extends THEN NotBound ELSE @,
              !.pollWaker = IF o.next = "source" THEN TRUE ELSE @ /\ ~o.extends,
              !.moved = IF o.next = "source" \/ o.extends THEN {} ELSE @]

\* The outcomes a future may have in state n: it does not go on before its event, and
\* goes on from a poll_fn only when that is ready.
Possible(n, o) ==
    /\ (n.awaits = "event" /\ ~n.happened) =>
           o.next = "event" /\ o.reads = {} /\ ~o.extends
    /\ n.awaits = "source" => \/ o.extends
                              \/ o.next = "source" /\ o.reads = {}

\* AsyncSourceBinder::check, and init when it finds a change: the dependencies go, the
\* future starts anew, poll_bindings stay.
Asks(n) == n.dirty = "MaybeDirty" /\ n.deps[Memo] # "Unbound"
Checked(n, o) ==
    LET m == IF Asks(n) THEN MemoResolved(n, o.changed) ELSE n
    IN  [m EXCEPT !.dirty = IF n.dirty = "MaybeDirty"
                            THEN FromIsDirty(\E s \in Source : m.deps[s] = "Dirty") ELSE @]
Started(n) == [n EXCEPT !.dirty = "Clean", !.woken = TRUE, !.deps = NotBound,
                        !.awaits = "start", !.happened = FALSE, !.used = {}, !.outdated = {}]

\* Whether a poll that reads Memo finds it unsure.
Settled(n, o) == IF Memo \in o.reads \cup o.polls THEN MemoResolved(n, o.changed) ELSE n

\* ScanAsyncNode::update.  A poll that is pending resolves no dependant, unless the future
\* has just started.  try_schedule_discard of a node without dependants comes first.
SignalUpdated(n, o) ==
    LET d == [n EXCEPT !.discard = @ \/ n.user.bound = "Unbound"]
        c == Checked(d, o)
        s == IF c.dirty = "Dirty" THEN Started(c) ELSE c
        p == Polled(Settled(s, o), o)
    IN  IF n.dirty = "Clean" /\ ~n.woken THEN n
        ELSE IF NoFuture(s) THEN s
        ELSE [p EXCEPT !.user = IF c.dirty = "Dirty" \/ o.next = "none"
                                THEN Resolve(@, o.reports) ELSE @]

\* Mutant: a future that is still pending is not polled again for what it has read.
EffectCalledOnce(n, o) ==
    LET c == Checked(n, o)
        s == IF c.dirty = "Dirty" THEN Started(c) ELSE c
    IN  IF c.dirty = "Clean" /\ ~n.woken THEN c
        ELSE IF s.awaits \notin {"start", "source"} THEN s
        ELSE Polled(Settled(s, o), o)

\* EffectAsyncNode::call.
EffectCalled(n, o) ==
    LET c == Checked(n, o)
        s == IF c.dirty = "Dirty" THEN Started(c) ELSE c
    IN  IF n.dirty = "Clean" /\ ~n.woken THEN n
        ELSE IF NoFuture(s) THEN s
        ELSE Polled(Settled(s, o), o)

\* The future's result is its one change; a scan that cannot report always has one.
FutureUpdated(n, o) ==
    LET ready == o.next = "none"
    IN  IF ~n.woken \/ NoFuture(n) THEN n
        ELSE [n EXCEPT !.woken = FALSE, !.happened = FALSE, !.awaits = o.next,
                       !.user = Resolve(@, ready /\ (filter => o.reports))]

\* StreamScanNode::update takes one item, if there is one; "none" is the end of the stream.
StreamUpdated(n, o) ==
    IF ~n.woken \/ NoFuture(n) THEN n
    ELSE [n EXCEPT !.woken = FALSE, !.happened = FALSE, !.awaits = o.next,
                   !.user = Resolve(@, o.reports)]

Updated(n, o) == CASE kind = "signal" -> SignalUpdated(n, o)
                   [] kind = "future" -> FutureUpdated(n, o)
                   [] kind = "stream" -> StreamUpdated(n, o)

\* The future can have outcome o in an update of the node, if that polls it; a stream may
\* find an item it was not woken for.
Fits(o) ==
    LET c == Checked(node, o)
    IN  Possible(IF c.dirty = "Dirty" THEN Started(c)
                 ELSE IF kind = "stream" THEN [c EXCEPT !.happened = TRUE] ELSE c, o)

\* A read without a dependant.
Watch(o) ==
    /\ panicked = "no" /\ kind # "effect" /\ Fits(o)
    /\ node' = Updated(node, o)
    /\ UNCHANGED <<kind, filter, request, panicked>>

\* The reaction of an asynchronous effect.
CallEffect(o) ==
    /\ panicked = "no" /\ kind = "effect" /\ node.user.queued /\ Fits(o)
    /\ node' = [EffectCalled(node, o) EXCEPT !.user.queued = FALSE]
    /\ UNCHANGED <<kind, filter, request, panicked>>

\* Mutant: a dependant's entry keeps its flag when it reads the node again.
ReadKeepingFlag(n, o) ==
    LET m == Updated(n, o)
    IN  [m EXCEPT !.user.bound = IF @ = "Unbound" THEN "Clean" ELSE @, !.user.behind = FALSE]

\* borrow in the dependant: FutureScanNode and StreamScanNode update and bind, a
\* ScanAsyncNode binds and updates, which leaves the clean entry alone.
ReadPlain(n, o) == [Updated(n, o) EXCEPT !.user.bound = "Clean"]
ReadSignal(n, o) == [Updated([n EXCEPT !.user.bound = "Clean"], o) EXCEPT !.user.bound = "Clean"]
ReadByUser(n, o) ==
    [IF kind = "signal" THEN ReadSignal(n, o) ELSE ReadPlain(n, o) EXCEPT !.user.behind = FALSE]

\* unbind: a ScanAsyncNode without dependants schedules its discard.
UnboundByUser(n) ==
    [n EXCEPT !.discard = @ \/ (kind = "signal" /\ n.user.bound # "Unbound"),
              !.user.bound = "Unbound", !.user.behind = FALSE]

\* BindSource::check, asked by a dependant that may have to run: update, then is_dirty, whose
\* answer is the entry.
CheckedByUser(n, o) ==
    IF n.user.dirty # "MaybeDirty" THEN [node |-> n, answer |-> "Dirty"]
    ELSE [node |-> Updated(n, o), answer |-> Updated(n, o).user.bound]

\* The dispatch of the dependant, which reads the node again or no longer does.
AfterRun(o, reads) ==
    LET c == CheckedByUser(node, o)
        n == c.node
        due == c.answer
        m == IF due # "Dirty" THEN n ELSE IF reads THEN ReadByUser(n, o) ELSE UnboundByUser(n)
    IN  [after |-> [m EXCEPT !.user.dirty = "Clean", !.user.queued = FALSE],
         panicked |-> IF due = "MaybeDirty" THEN "asked" ELSE "no"]

RunUser(o, reads) ==
    /\ panicked = "no" /\ kind # "effect" /\ node.user.queued /\ Fits(o)
    /\ \E r \in {AfterRun(o, reads)} :
        /\ node' = r.after
        /\ panicked' = r.panicked
    /\ UNCHANGED <<kind, filter, request>>

\* ScanAsyncNode::discard, and AsyncSourceBinder::clear, which leaves poll_bindings.
Discard ==
    /\ panicked = "no" /\ node.discard
    /\ node' = IF node.user.bound # "Unbound" THEN [node EXCEPT !.discard = FALSE]
               ELSE [node EXCEPT !.discard = FALSE, !.dirty = "Dirty", !.deps = NotBound,
                                 !.awaits = IF NoFuture(node) THEN @ ELSE "none",
                                 !.happened = FALSE, !.used = {}, !.outdated = {}]
    /\ UNCHANGED <<kind, filter, request, panicked>>

-----------------------------------------------------------------------------
Init ==
    /\ kind \in {"signal", "effect", "future", "stream"}
    /\ filter \in IF kind = "future" THEN BOOLEAN ELSE {FALSE}
    /\ node = [dirty |-> IF Binds THEN "Dirty" ELSE "Clean", woken |-> ~Binds,
               deps |-> NotBound, polled |-> NotBound, pollWaker |-> FALSE,
               awaits |-> IF Binds THEN "never" ELSE "start", happened |-> FALSE,
               used |-> {}, outdated |-> {}, moved |-> {}, unsure |-> FALSE, discard |-> FALSE,
               user |-> [dirty |-> IF kind = "effect" THEN "Clean" ELSE "Dirty",
                         queued |-> TRUE, bound |-> "Unbound", behind |-> FALSE]]
    /\ request = FALSE
    /\ panicked = "no"

Next ==
    \/ \E s \in Source : SourceChanges(s)
    \/ MemoNotified
    \/ \E changed \in BOOLEAN : MemoRead(changed)
    \/ \E event \in BOOLEAN : Wake(event)
    \/ TakeRequest
    \/ \E o \in Outcomes : Watch(o)
    \/ \E o \in Outcomes : CallEffect(o) \/ \E reads \in BOOLEAN : RunUser(o, reads)
    \/ Discard

\* The runtime's loop takes requests in and dispatches what is queued (Runtime).  Only a
\* dispatch takes a reaction off the queue, so that the second conjunct is the weak fairness
\* of CallEffect and RunUser.
Fairness == WF_vars(TakeRequest) /\ []<>(~node.user.queued \/ panicked # "no")

Spec == Init /\ [][Next]_vars /\ Fairness

-----------------------------------------------------------------------------
(* Properties. *)

Attended == \/ kind = "effect" /\ node.user.queued
            \/ kind # "effect" /\ node.user.bound = "Unbound"
            \/ node.user.queued /\ node.user.dirty # "Clean" /\ node.user.bound # "Clean"

\* A future that has read something that changed since will start anew, also when the change
\* came between two of its polls, or was read by a poll_fn: it is known to be out of date,
\* and so is its dependant, which is queued.
OutdatedIsKnown ==
    (node.outdated # {} /\ panicked = "no") => node.dirty # "Clean" /\ Attended

\* What a future waits for is not lost: once its event has happened, or a source that its
\* pending poll_fn read has changed, the node is about to be woken, or will be asked by its
\* dependant and polls, or starts anew.
WakesAreKept ==
    (\/ node.awaits = "event" /\ node.happened
     \/ node.awaits = "source" /\ node.moved # {})
    => request \/ ((node.woken \/ node.dirty # "Clean") /\ (Attended \/ panicked # "no"))

\* A dependant that is not queued has seen the last change the scan reported.
DependantIsCurrent == (panicked = "no" /\ ~node.user.queued) => ~node.user.behind

\* An event that happened is followed by a poll, while anybody depends on the node.
EventsArePolled ==
    node.happened ~> \/ ~node.happened
                     \/ kind # "effect" /\ node.user.bound = "Unbound"
                     \/ panicked # "no"

\* The assertion of SinkBindings::is_dirty: "`is_dirty` called before `update()`".
AskedOnceResolved == panicked # "asked"
=============================================================================
