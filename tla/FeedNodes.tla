----------------------------- MODULE FeedNodes -----------------------------
(***************************************************************************)
(* The nodes of change feeds and slab maps: who is told of which change.   *)
(*                                                                         *)
(*   state     ChangeFeedState::new         edits, loose edits             *)
(*   derived   ChangeFeedState::from_scan   edits, loose edits, a scan     *)
(*   scan      ChangeFeedSignal::from_scan  a scan                         *)
(*   slab      StateSlabMap                 edits, dependants of one item  *)
(*   slabscan  SignalSlabMap::from_scan     a scan, dependants of one item *)
(*                                                                         *)
(* A dependant is an effect; it binds the whole collection ("any") or, of  *)
(* a slab map, single items.  The scan reads one source, which may be a    *)
(* state (it notifies "Dirty") or a cached signal ("MaybeDirty": it may    *)
(* turn out unchanged).  The flag of the node's own binding to that source *)
(* equals the dirtiness of its binder (BindingsAgree of Reactive), as does *)
(* the place of an effect in the queue its dirtiness.                      *)
(*                                                                         *)
(* What the collection holds is ChangeFeed's concern.  Here an edit is the *)
(* set of slots it touches, and an effect is stale from the moment a slot  *)
(* it has read is touched until it runs.                                   *)
(***************************************************************************)
EXTENDS FiniteSets, SequencesExt, DirtyFlags

CONSTANTS Effect,
          Key,      \* item keys of a slab map
          MaxReads  \* bound: reads of one run of an effect

\* Assumed of the constants (Parts).
NodesAssumption == "any" \notin Key /\ MaxReads \in Nat

Kind == {"state", "derived", "scan", "slab", "slabscan"}

VARIABLES
    kind,
    binder,     \* the dirtiness of the scan's SourceBinder, "Clean" without a scan
    effect,     \* [dirty, queued, sources, stale, last]; a source is [slot, dirty]
    scheduled,  \* a loose edit's notification waits in Globals
    panicked    \* "no", or what ended the program

vars == <<kind, binder, effect, scheduled, panicked>>

Slots == IF kind \in {"slab", "slabscan"} THEN Key \cup {"any"} ELSE {"any"}
Scanned == kind \in {"derived", "scan", "slabscan"}

\* The RefCell that holds the bindings of a slot.
Cell(slot) == IF kind = "slab" /\ slot # "any" THEN "item_sinks" ELSE "sinks"

\* The slots whose readers an edit of these keys concerns.
Touched(keys) == IF keys = {} THEN {} ELSE keys \cup {"any"}

\* What one edit, and one scan, may change.
EditKeys == CASE kind = "slab" -> {{k} : k \in Key}
              [] kind = "slabscan" -> SUBSET Key
              [] OTHER -> {{}, {"any"}}
ScanOutcome == [changed : BOOLEAN, keys : EditKeys]

-----------------------------------------------------------------------------
(* Sets of sinks.  A node is [binder, effect]. *)

Stale(eff, slots) ==
    [e \in Effect |-> [eff[e] EXCEPT
        !.stale = @ \/ \E i \in DOMAIN eff[e].sources : eff[e].sources[i].slot \in slots]]

\* SinkBindings::notify of the bindings of these slots, down to the effects.
Notified(eff, slots, level) ==
    LET Told(s) == IF s.slot \in slots THEN [s EXCEPT !.dirty = ApplyNotify(@, level)] ELSE s
        Hit(e) == \E i \in DOMAIN e.sources :
                     e.sources[i].slot \in slots /\ NeedsNotify(e.sources[i].dirty)
    IN  [e \in Effect |-> [eff[e] EXCEPT
            !.sources = [i \in DOMAIN @ |-> Told(@[i])],
            !.dirty = IF Hit(eff[e]) THEN ApplyNotify(@, level) ELSE @,
            !.queued = @ \/ (Hit(eff[e]) /\ NeedsNotify(eff[e].dirty))]]

\* SinkBindings::update of the bindings of these slots.
SinksUpdated(eff, slots, isDirty) ==
    LET Told(s) == IF s.slot \in slots /\ s.dirty = "MaybeDirty"
                   THEN [s EXCEPT !.dirty = FromIsDirty(isDirty)] ELSE s
    IN  [e \in Effect |-> [eff[e] EXCEPT !.sources = [i \in DOMAIN @ |-> Told(@[i])]]]

\* Mutant: every item's dependants are told that theirs changed.
SetUpdatedAll(eff, keys) == SinksUpdated(eff, Slots, keys # {})

\* SinkBindingsSet: update_changed, then update_all(false).
SetUpdated(eff, keys) == SinksUpdated(SinksUpdated(eff, Touched(keys), TRUE), Slots, FALSE)

\* The end of an update whose scan recorded edits of these keys, none if it did not run
\* (Scan::update; nodes without items have the one slot).
Resolved(eff, keys) == IF kind = "slabscan" THEN SetUpdated(Stale(eff, Touched(keys)), keys)
                       ELSE SinksUpdated(Stale(eff, Touched(keys)), Slots, keys # {})

\* Mutant: dependants are updated only when the scan ran.
UpdatedIfScanned(n, o) ==
    LET runs == n.binder = "Dirty" \/ o.changed
    IN  IF n.binder = "Clean" THEN n
        ELSE [binder |-> "Clean",
              effect |-> IF runs THEN Resolved(n.effect, o.keys) ELSE n.effect]

\* StateNode::update, ScanNode::update and Scan::update: a source that may have changed
\* is asked (changed), and the scan runs, records its edits and resolves the sinks.
Updated(n, o) ==
    LET runs == n.binder = "Dirty" \/ o.changed
    IN  IF n.binder = "Clean" THEN n
        ELSE [binder |-> "Clean",
              effect |-> Resolved(n.effect, IF runs THEN o.keys ELSE {})]

Node == [binder |-> binder, effect |-> effect]
Becomes(n) == binder' = n.binder /\ effect' = n.effect

-----------------------------------------------------------------------------
(* The source, edits and reads. *)

Running == panicked = "no"

\* BindSink::notify of the node, for the slot of its sources.
SourceNotifies(level) ==
    /\ Running /\ Scanned
    /\ Becomes([binder |-> ApplyNotify(binder, level),
                effect |-> IF NeedsNotify(binder)
                           THEN Notified(effect, Slots, "MaybeDirty") ELSE effect])
    /\ UNCHANGED <<kind, scheduled, panicked>>

\* borrow_mut and the drop of its guard (EditFinish::Notify); insert and remove of a slab
\* map then notify the sinks of the item.
Edit(o, keys) ==
    LET n == Updated(Node, o)
        eff == Stale(n.effect, Touched(keys))
    IN  /\ Running /\ kind \in {"state", "derived", "slab"}
        /\ keys \in EditKeys
        /\ binder' = n.binder
        /\ effect' = Notified(eff, Touched(keys), "Dirty")
        /\ UNCHANGED <<kind, scheduled, panicked>>

\* borrow_mut_loose and the drop of its guard (EditFinish::Schedule).  Nothing can use
\* the node in between: the model is borrowed.
LooseEdit(o, keys) ==
    LET n == Updated(Node, o)
    IN  /\ Running /\ kind \in {"state", "derived"}
        /\ keys \in EditKeys
        /\ binder' = n.binder
        /\ effect' = Stale(n.effect, Touched(keys))
        /\ scheduled' = (scheduled \/ keys # {})
        /\ UNCHANGED <<kind, panicked>>

\* Mutant: a node whose scan may have to run again keeps the notification to itself.
DeliverWhenClean ==
    /\ Running /\ scheduled
    /\ effect' = IF binder = "Clean" THEN Notified(effect, {"any"}, "Dirty") ELSE effect
    /\ scheduled' = FALSE
    /\ UNCHANGED <<kind, binder, panicked>>

\* The runtime's apply_notify: StateNode::notify for STATE_LOCAL_EDIT_SLOT.
Deliver ==
    /\ Running /\ scheduled
    /\ effect' = Notified(effect, {"any"}, "Dirty")
    /\ scheduled' = FALSE
    /\ UNCHANGED <<kind, binder, panicked>>

\* A read outside of effects: watch, with no sink to bind.
Watch(o) ==
    /\ Running /\ binder # "Clean"
    /\ Becomes(Updated(Node, o))
    /\ UNCHANGED <<kind, scheduled, panicked>>

-----------------------------------------------------------------------------
(* Effects. *)

\* SourceBindings::check of e in node n: the sources are asked in the order they were
\* read; the first that is dirty decides, one that is unresolved panics.
FirstUnclean(sources) ==
    SelectInSeq(sources, LAMBDA s : s.dirty # "Clean")
Asks(e, n) == IF n.effect[e].dirty # "MaybeDirty" THEN n.effect[e].dirty
              ELSE LET i == FirstUnclean(n.effect[e].sources) IN
                   IF i = 0 THEN "Clean" ELSE n.effect[e].sources[i].dirty

\* SinkBindings::bind of the reads, one by one: a read of what was read in its place keeps
\* the binding, another read replaces it.  The node's bindings are borrowed meanwhile, and
\* the binding that is replaced is unbound: if it is in the same RefCell, that panics.
Rebinds(old, reads) == \E i \in DOMAIN old \cap DOMAIN reads :
                          old[i].slot # reads[i] /\ Cell(old[i].slot) = Cell(reads[i])

\* Mutant: a binding that is kept keeps its flag.
BoundKeeping(old, reads) ==
    [i \in DOMAIN reads |-> IF i \in DOMAIN old /\ old[i].slot = reads[i] THEN old[i]
                            ELSE [slot |-> reads[i], dirty |-> "Clean"]]

Bound(old, reads) == [i \in DOMAIN reads |-> [slot |-> reads[i], dirty |-> "Clean"]]

\* The dispatch of an effect's reaction; it does not run before what is scheduled in
\* Globals is delivered.  Its function reads the slots `reads`.
RunEffect(e, o, reads) ==
    LET asks == effect[e].dirty = "MaybeDirty"
        n == IF asks THEN Updated(Node, o) ELSE Node
        due == Asks(e, n)
        m == IF reads # <<>> THEN Updated(n, o) ELSE n
        old == m.effect[e].sources
    IN  /\ Running /\ effect[e].queued /\ ~scheduled
        /\ \/ /\ due = "MaybeDirty"
              /\ panicked' = "asked"
              /\ UNCHANGED <<binder, effect>>
           \/ /\ due = "Clean"
              /\ Becomes([n EXCEPT !.effect[e].dirty = "Clean", !.effect[e].queued = FALSE,
                                   !.effect[e].last = "skipped"])
              /\ UNCHANGED panicked
           \/ /\ due = "Dirty"
              /\ Becomes([m EXCEPT !.effect[e] =
                             [dirty |-> "Clean", queued |-> FALSE, stale |-> FALSE,
                              sources |-> Bound(old, reads),
                              last |-> IF @.stale THEN "due" ELSE "undue"]])
              /\ panicked' = IF Rebinds(old, reads) THEN "borrow" ELSE "no"
        /\ UNCHANGED <<kind, scheduled>>

-----------------------------------------------------------------------------
\* An effect is queued when it is made, and runs whatever its sources say.
Init ==
    /\ kind \in Kind
    /\ binder = IF Scanned THEN "Dirty" ELSE "Clean"
    /\ effect = [e \in Effect |-> [dirty |-> "Dirty", queued |-> TRUE, sources |-> <<>>,
                                   stale |-> TRUE, last |-> "never"]]
    /\ scheduled = FALSE
    /\ panicked = "no"

Next ==
    \/ \E level \in DirtyLevel : SourceNotifies(level)
    \/ \E o \in ScanOutcome :
        \/ Watch(o)
        \/ \E keys \in EditKeys : Edit(o, keys) \/ LooseEdit(o, keys)
        \/ \E e \in Effect, reads \in BoundedSeq(Slots, MaxReads) : RunEffect(e, o, reads)
    \/ Deliver

Spec == Init /\ [][Next]_vars

-----------------------------------------------------------------------------
(* Properties. *)

\* No change is lost: once no effect is queued, nothing is scheduled and the scan has
\* nothing to do, every effect has run since the last change of anything it read.
ChangesReachReaders ==
    \A e \in Effect : (Running /\ ~effect[e].queued /\ ~scheduled) => ~effect[e].stale

\* A dependency is never asked before it is resolved (the panic of SinkBindings::is_dirty).
AskedOnceResolved == panicked # "asked"

\* No effect runs for nothing: neither because another item changed, nor because the scan
\* found its source changed and recorded no edit, nor twice for one change.  And none asks a
\* dependency that is not resolved to find out.
RunsAreDue == AskedOnceResolved /\ \A e \in Effect : effect[e].last # "undue"

\* Reads in a RefCell's own bindings never meet themselves: core.rs says of dependencies
\* that a `ReactionContext` is required for editing them "to prevent `BorrowMutError` in
\* the `RefCell` that records dependencies".
NoBorrowPanic == panicked # "borrow"
=============================================================================
