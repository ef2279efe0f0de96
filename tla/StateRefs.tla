----------------------------- MODULE StateRefs -----------------------------
(***************************************************************************)
(* References to state (core/state_ref.rs): what a StateRef owns, what it  *)
(* points to, and in which order all of it is dropped.                     *)
(*                                                                         *)
(* An object is what has a drop of its own: a value given to a StateRef,   *)
(* or the guard of a RefCell.  An object may refer to another one, a guard *)
(* to the one its RefCell is part of.  Values that are embedded in the     *)
(* StateRef move with it; the arena (a Bump) never moves and never drops   *)
(* anything by itself.                                                     *)
(*                                                                         *)
(* The closure of map_ref is user code: it makes a StateRef of its own,    *)
(* which may point to what it is given, may map that, and may panic.  Its  *)
(* lifetimes decide what it can point to.  map_ref takes what a closure    *)
(* makes of a static StateRef for static too, and a result that borrows    *)
(* from the closures around may then outlive that: `crossed` tells the     *)
(* behaviors in which user code has made such a borrow.                    *)
(***************************************************************************)
EXTENDS Integers, FiniteSets, SequencesExt

CONSTANTS Outside,     \* what outlives every StateRef
          NoRef,
          MaxObjects,  \* bound: objects that are made
          MaxCalls     \* bound: calls of map_ref that have not returned

Object == 1 .. MaxObjects

\* A StateRef:
\*   kind    "ref" (RawRef::Ref), "guard" (RawRef::RefCell), "embedded" or "static"
\*           (Data::ValueStatic)
\*   value   the guard or embedded value, <<>> for a "ref"
\*   target  the object that the value is part of
\*   owner   AllocHandle: objects of the arena, in the order they are dropped
StateRef == [kind : {"ref", "guard", "embedded", "static"}, static : BOOLEAN,
             value : Seq(Object), target : Object \cup {Outside}, owner : Seq(Object)]

\* Assumed of the constants (Parts).
RefsAssumption ==
    /\ MaxObjects \in Nat /\ MaxCalls \in Nat
    /\ Outside \notin Object /\ NoRef \notin StateRef

VARIABLES
    obj,      \* [is, refers] of each object
    top,      \* the StateRef that the running code has, or NoRef
    calls,    \* the map_refs under way, each with the StateRef it has pinned
    dropping, \* objects that are being dropped, in order
    unwinding,\* a panic is on its way up the stack
    crossed   \* history: a closure has borrowed from one around it across a static StateRef

vars == <<obj, top, calls, dropping, unwinding, crossed>>

Live == {o \in Object : obj[o].is = "live"}
Fresh == {o \in Object : obj[o].is = "free" /\ \A p \in Object : p < o => obj[p].is # "free"}

\* What has a reference to a place can follow: the object, and what that refers to.
Reach(t) == {t, Outside} \cup (IF t = Outside THEN {} ELSE {obj[t].refers})

\* What the closure of the last map_ref may have from the ones around it.  The type U of what
\* it makes carries that lifetime, which is all that map_ref's signature asks.
Enclosing == {Outside} \cup UNION {Reach(calls[i].target) : i \in 1 .. Len(calls) - 1}

\* Of that, what no closure in between has from a static StateRef.
Captured == {Outside} \cup UNION {Reach(calls[i].target) : i \in
                {j \in 1 .. Len(calls) - 1 : \A k \in j + 1 .. Len(calls) : ~calls[k].static}}
Given == IF calls = <<>> THEN {Outside} ELSE Reach(Last(calls).target)
Lent == Captured \cup Given

\* User code makes something that borrows from t; `safe` is what it borrows without crossing
\* a static StateRef.
Borrow(t, safe) == crossed' = (crossed \/ t \notin safe)

\* User code runs, without and with a StateRef.
Running == dropping = <<>> /\ ~unwinding
Idle == Running /\ top = NoRef
Ready == Running /\ top # NoRef

-----------------------------------------------------------------------------
(* New StateRefs. *)

Created(o, refers) == [obj EXCEPT ![o] = [is |-> "live", refers |-> refers]]

\* MaybeBox::alloc and into_data: a value that is too large is in the arena.
Boxed(o, static) == [kind |-> "ref", static |-> static, value |-> <<>>, target |-> o,
                     owner |-> <<o>>]

\* from_value, which asks that the value borrows nothing.
FromValue(o, small) ==
    /\ Idle
    /\ obj' = Created(o, Outside)
    /\ top' = IF small THEN [kind |-> "static", static |-> TRUE, value |-> <<o>>, target |-> o,
                             owner |-> <<>>]
              ELSE Boxed(o, TRUE)
    /\ UNCHANGED <<calls, dropping, unwinding, crossed>>

\* from_value_non_static.
FromValueNonStatic(o, refers, small) ==
    /\ Idle
    /\ obj' = Created(o, refers)
    /\ top' = IF small THEN [kind |-> "embedded", static |-> FALSE, value |-> <<o>>,
                             target |-> o, owner |-> <<>>]
              ELSE Boxed(o, FALSE)
    /\ Borrow(refers, Captured)
    /\ UNCHANGED <<calls, dropping, unwinding>>

\* From<&T>.
FromRef(target) ==
    /\ Idle
    /\ top' = [kind |-> "ref", static |-> FALSE, value |-> <<>>, target |-> target,
               owner |-> <<>>]
    /\ Borrow(target, Lent)
    /\ UNCHANGED <<obj, calls, dropping, unwinding>>

\* From<Ref<T>>: o is the guard.
FromGuard(o, target) ==
    /\ Idle
    /\ obj' = Created(o, target)
    /\ top' = [kind |-> "guard", static |-> FALSE, value |-> <<o>>, target |-> target,
               owner |-> <<>>]
    /\ Borrow(target, Lent)
    /\ UNCHANGED <<calls, dropping, unwinding>>

-----------------------------------------------------------------------------
(* Maps. *)

\* AllocHandle::chain: the pair (value, owner) is dropped in this order.
Chain(owner, value) == value \o owner

\* What the drop of a StateRef drops: the fields of Data, in their order.
Owned(r) == r.value \o r.owner

\* Data::pin: a guard or embedded value goes to the arena.
Pinned(r) == [static |-> r.static, target |-> r.target, handle |-> Chain(r.owner, r.value)]

\* StateRef::map, to a part of what the value is, or of what it refers to.
Map(target) ==
    LET p == Pinned(top) IN
    /\ Ready /\ target \in Reach(top.target)
    /\ top' = IF top.kind \in {"ref", "guard"} THEN [top EXCEPT !.target = target]
              ELSE [kind |-> "ref", static |-> p.static, value |-> <<>>, target |-> target,
                    owner |-> p.handle]
    /\ UNCHANGED <<obj, calls, dropping, unwinding, crossed>>

\* map_ref, up to its closure.
MapRef ==
    /\ Ready /\ Len(calls) < MaxCalls
    /\ calls' = Append(calls, Pinned(top))
    /\ top' = NoRef
    /\ UNCHANGED <<obj, dropping, unwinding, crossed>>

\* Mutant: what the closure was given is dropped before what it returned.
ReturnedReversed(r, p) == [r EXCEPT !.static = p.static, !.owner = Chain(@, p.handle)]

\* The StateRef that map_ref makes of what its closure returned.
Returned(r, p) == [r EXCEPT !.static = p.static, !.owner = Chain(p.handle, @)]

\* The closure of map_ref returns.  What it returns is not a value that borrows from what it
\* was given, whose lifetime U cannot name.  A static result is taken to need nothing of
\* what it was made from, which is dropped.
ClosureReturns ==
    LET p == Last(calls) IN
    /\ Ready /\ calls # <<>>
    /\ \A o \in Object : o = top.target /\ obj[o].refers = p.target => p.target \in Enclosing
    /\ calls' = Front(calls)
    /\ top' = IF top.static THEN top ELSE Returned(top, p)
    /\ dropping' = IF top.static THEN p.handle ELSE <<>>
    /\ UNCHANGED <<obj, unwinding, crossed>>

-----------------------------------------------------------------------------
(* Ends. *)

\* The running code drops the StateRef.
Drop ==
    /\ Ready
    /\ dropping' = Owned(top)
    /\ top' = NoRef
    /\ UNCHANGED <<obj, calls, unwinding, crossed>>

\* into_owned of a ValueStatic moves the value out; other StateRefs are cloned and dropped.
IntoOwned ==
    /\ Ready /\ top.kind = "static"
    /\ obj' = [obj EXCEPT ![top.value[1]].is = "gone"]
    /\ top' = NoRef
    /\ UNCHANGED <<calls, dropping, unwinding, crossed>>

\* The running code panics.  The stack unwinds from its end: what the closure has, then what
\* its map_ref has pinned, until the code around some map_ref catches the panic.
Panic ==
    /\ Running
    /\ dropping' = IF top = NoRef THEN <<>> ELSE Owned(top)
    /\ top' = NoRef /\ unwinding' = TRUE
    /\ UNCHANGED <<obj, calls, crossed>>

Unwind ==
    /\ unwinding /\ dropping = <<>> /\ calls # <<>>
    /\ dropping' = Last(calls).handle
    /\ calls' = Front(calls)
    /\ UNCHANGED <<obj, top, unwinding, crossed>>

Catch ==
    /\ unwinding /\ dropping = <<>>
    /\ unwinding' = FALSE
    /\ UNCHANGED <<obj, top, calls, dropping, crossed>>

\* The drop of one object: RawAllocHandle::drop, Embedded::drop, or that of a guard.
DropNext ==
    /\ dropping # <<>>
    /\ obj' = [obj EXCEPT ![Head(dropping)].is = "gone"]
    /\ dropping' = Tail(dropping)
    /\ UNCHANGED <<top, calls, unwinding, crossed>>

-----------------------------------------------------------------------------
Init ==
    /\ obj = [o \in Object |-> [is |-> "free", refers |-> Outside]]
    /\ top = NoRef /\ calls = <<>> /\ dropping = <<>> /\ unwinding = FALSE /\ crossed = FALSE

Next ==
    \/ \E o \in Fresh, small \in BOOLEAN :
        FromValue(o, small) \/ \E t \in Enclosing : FromValueNonStatic(o, t, small)
    \/ \E t \in Enclosing \cup Given : FromRef(t) \/ \E o \in Fresh : FromGuard(o, t)
    \/ Ready /\ \E t \in Reach(top.target) : Map(t)
    \/ MapRef \/ ClosureReturns
    \/ Drop \/ IntoOwned
    \/ Panic \/ Unwind \/ Catch
    \/ DropNext

Spec == Init /\ [][Next]_vars

-----------------------------------------------------------------------------
(* Properties. *)

Targets == {calls[i].target : i \in DOMAIN calls}
           \cup {obj[o].refers : o \in Live}

\* Nothing points to what has been dropped: neither a StateRef, nor what a closure was given,
\* nor an object that is still to be dropped, a guard included.  And nothing but a StateRef
\* itself points to a value that moves with it.
NoDangling ==
    /\ Targets \subseteq Live \cup {Outside}
    /\ top # NoRef => /\ top.target \in Live \cup {Outside}
                      /\ top.kind \in {"embedded", "static"} => top.target \notin Targets

\* What will be dropped together: what is being dropped (0), what each map_ref has pinned,
\* and what the running code's StateRef owns (after the last map_ref).
Seg(i) == CASE i = 0 -> dropping
            [] i \in DOMAIN calls -> calls[i].handle
            [] OTHER -> IF top = NoRef THEN <<>> ELSE Owned(top)

\* The places that will drop an object.
Places(o) == UNION {{i} \X {k \in DOMAIN Seg(i) : Seg(i)[k] = o} : i \in 0 .. Len(calls) + 1}

\* Every object is dropped exactly once: while it lives, exactly one StateRef, map_ref or
\* drop under way will drop it, afterwards none.  So no value and no borrow of a RefCell is
\* left behind in the arena, panics included.
OwnedOnce == \A o \in Object : Cardinality(Places(o)) = IF o \in Live THEN 1 ELSE 0

\* Everything is dropped once; and as long as no closure over a static StateRef has borrowed
\* from the closures around it, a StateRef and what it is made from point to nothing that
\* was dropped.
RefsStayValid == OwnedOnce /\ (~crossed => NoDangling)
=============================================================================
