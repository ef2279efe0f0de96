------------------------------ MODULE ChangeFeed ------------------------------
(***************************************************************************)
(* The storage of a change feed (building_blocks/change_feed.rs and the    *)
(* Changes and RefCountOps of utils.rs): the current model, the changes    *)
(* that some reader has not read yet, and the reference counts that say    *)
(* when a change may be released.                                          *)
(*                                                                         *)
(* A change is named by its age, a usize that wraps.  Moving, copying or   *)
(* dropping a reader only queues a change of a count, because the history  *)
(* may be borrowed; compact applies the queue and releases the changes at  *)
(* the front, and gives up silently while anybody borrows the history.     *)
(*                                                                         *)
(* Borrows of the history last for several steps: shared guards of several *)
(* readers overlap, and readers are cloned and dropped under a guard and   *)
(* under a loose edit.  An edit under a guard, or a guard under an edit,   *)
(* panics in RefCell and changes nothing, so those steps are not enabled.  *)
(*                                                                         *)
(* The collection is a parameter: what an edit may do to the model and     *)
(* which changes it records (Edits), what releasing a change does to the   *)
(* model (Release), how a change is shown to a reader (Resolve) and how a  *)
(* reader follows it (Replay).  VecModel and SlabModel supply them.        *)
(***************************************************************************)
EXTENDS Integers, FiniteSets, SequencesExt

CONSTANTS
    Reader,           \* ChangeFeedCursorReaders
    NoCursor,         \* the cursor of a reader that has not read
    Gone,             \* the cursor of a reader that does not exist
    NoView,           \* the copy of a reader that has not read
    Nobody,           \* the reader of a borrow that is nobody's
    Models,           \* the initial models
    Edits(_),         \* Edits(m): what one call on the edited m may give
    Release(_, _),    \* ChangeFeedModel::release_change
    Resolve(_, _),    \* Resolve(m, c): the public form of the recorded change c
    Initial(_),       \* Initial(m): the public changes of a first read
    Empty(_),         \* Empty(m): the empty collection of m's kind
    View(_),          \* View(m): the collection m stands for
    Replay(_, _),     \* Replay(v, d): v after the public change d
    Stored(_),        \* Stored(m): the slab keys in use
    Live(_),          \* Live(m): those of them that are part of the collection
    Names(_),         \* Names(c): the keys a change refers to
    Frees(_),         \* Frees(c): the keys its release gives back
    AgeMod,           \* 2^w: ages are unsigned integers of w bits
    MaxHistory,       \* bound: changes retained at a time
    MaxQueued,        \* bound: count changes queued for one age
    MaxGuards         \* bound: shared borrows alive at a time, no two alike

Age == 0 .. AgeMod - 1

ASSUME FeedAssumption ==
    /\ MaxHistory \in Nat /\ MaxQueued \in Nat /\ MaxGuards \in Nat
    /\ AgeMod \in Nat /\ MaxHistory < AgeMod
    /\ NoCursor \notin Age /\ Gone \notin Age /\ NoCursor # Gone
    /\ Nobody \notin Reader /\ IsFiniteSet(Reader)

VARIABLES
    history,  \* History: [base, items, endRefs, cur]; an item is [data, refs]
    ops,      \* RefCountOps: [inc, incAt, dec], the last two per age
    cursor,   \* what each reader has read up to
    guards,   \* shared borrows of the history: [kind, by]
    editing,  \* the exclusive borrow is alive
    mirror    \* the copy each reader keeps by replaying the deltas it reads

vars == <<history, ops, cursor, guards, editing, mirror>>

-----------------------------------------------------------------------------
(* Ages and counts: Changes and RefCountOps of utils.rs. *)

\* usize::wrapping_add and wrapping_sub of two ages.
WrapAdd(a, b) == IF a + b < AgeMod THEN a + b ELSE a + b - AgeMod
WrapSub(a, b) == IF b <= a THEN a - b ELSE a - b + AgeMod

\* Changes::end_age, age_to_index: the age of an index and the index of an age.
AgeAt(h, i) == WrapAdd(h.base, i)
EndAge(h) == AgeAt(h, Len(h.items))
IndexOf(h, age) == WrapSub(age, h.base)

NoOps == [inc |-> 0, incAt |-> [a \in Age |-> 0], dec |-> [a \in Age |-> 0]]

\* Changes::increment_ref_count_at and decrement_ref_count: the count of each age goes up by
\* by[age].  The items and the end have counts of their own (ref_count_mut).
Recounted(h, by) ==
    LET Counted(i) == [h.items[i] EXCEPT !.refs = @ + by[AgeAt(h, i - 1)]]
    IN  [h EXCEPT !.items = [i \in DOMAIN @ |-> Counted(i)], !.endRefs = @ + by[EndAge(h)]]

\* Mutant: a reader that is already in the history is counted at its end.
AppliedAtEnd(h, q) ==
    Recounted([h EXCEPT !.endRefs = @ + q.inc + FoldFunction(+, 0, q.incAt)],
              [a \in Age |-> -q.dec[a]])

\* RefCountOps::apply.
Applied(h, q) == Recounted([h EXCEPT !.endRefs = @ + q.inc],
                           [a \in Age |-> q.incAt[a] - q.dec[a]])

\* The changes at the front that nobody refers to.
Leading(h) == CHOOSE k \in 0 .. Len(h.items) :
                  /\ \A i \in 1 .. k : h.items[i].refs = 0
                  /\ k < Len(h.items) => h.items[k + 1].refs # 0

\* Mutant: every unreferenced change is dropped, at the front or not.
CleanedAll(h) ==
    [h EXCEPT !.items = SelectSeq(@, LAMBDA c : c.refs # 0),
              !.base = WrapAdd(@, Len(SelectSeq(h.items, LAMBDA c : c.refs = 0)))]

\* release_change for the first k changes, one after the other.
ReleasedUpTo(h, k) ==
    LET released[i \in 0 .. k] == IF i = 0 THEN h.cur
                                  ELSE Release(released[i - 1], h.items[i].data)
    IN  released[k]

\* Changes::clean.
Cleaned(h) ==
    LET k == Leading(h) IN
    [h EXCEPT !.base = WrapAdd(@, k),
              !.items = SubSeq(@, k + 1, Len(@)),
              !.cur = ReleasedUpTo(h, k)]

\* Changes::push: the readers at the end are now before the new change.
Pushed(h, change) ==
    [h EXCEPT !.items = Append(@, [data |-> change, refs |-> h.endRefs]), !.endRefs = 0]

PushedAll(h, changes) ==
    LET pushed[i \in 0 .. Len(changes)] == IF i = 0 THEN h ELSE Pushed(pushed[i - 1], changes[i])
    IN  pushed[Len(changes)]

-----------------------------------------------------------------------------
(* Borrows, and compact. *)

\* ChangeFeedStorage::compact when `free` says that nobody holds the history.  A feed
\* is [h, q].
Compacted(feed, free) ==
    IF free THEN [h |-> Cleaned(Applied(feed.h, feed.q)), q |-> NoOps] ELSE feed

Feed == [h |-> history, q |-> ops]
Becomes(feed) == history' = feed.h /\ ops' = feed.q

Alive(r) == cursor[r] # Gone
\* The guards of a reader's read and peek borrow the reader, exclusively and shared.
Lent(r) == \E g \in guards : g.by = r
LentOut(r) == [kind |-> "read", by |-> r] \in guards

\* A shared borrow of the history.
Borrow(kind, r) == /\ ~editing
                   /\ [kind |-> kind, by |-> r] \notin guards
                   /\ Cardinality(guards) < MaxGuards
                   /\ guards' = guards \cup {[kind |-> kind, by |-> r]}

\* Count changes of an age that compact has not taken in yet.
Inc(q, c) == IF c \in Age THEN [q EXCEPT !.incAt[c] = @ + 1] ELSE q
Dec(q, c) == IF c \in Age THEN [q EXCEPT !.dec[c] = @ + 1] ELSE q
Room(c) == c \in Age => ops.incAt[c] < MaxQueued /\ ops.dec[c] < MaxQueued

\* retain_cursor and release_cursor of a reader that has read, with their compact.
Free == guards = {} /\ ~editing
Retained(feed, c) ==
    IF c \in Age THEN Compacted([feed EXCEPT !.q = Inc(@, c)], Free) ELSE feed
Released(feed, c) ==
    IF c \in Age THEN Compacted([feed EXCEPT !.q = Dec(@, c)], Free) ELSE feed

\* advance_cursor to the end: its compact gives up, as the reader's guard is alive.
Advanced(feed, old) ==
    LET q == [feed.q EXCEPT !.inc = @ + 1] IN [feed EXCEPT !.q = Dec(q, old)]

\* ChangeFeedRef::delta, in its public form.
Delta(h, c) == IF c \in Age
               THEN LET i == IndexOf(h, c) IN
                    [j \in 1 .. Len(h.items) - i |-> Resolve(h.cur, h.items[i + j].data)]
               ELSE Initial(h.cur)

\* A copy v after the changes ds.
Followed(v, ds) == FoldLeft(Replay, v, ds)

-----------------------------------------------------------------------------
(* Readers. *)

\* ChangeFeedStorage::reader.
NewReader(r) == /\ ~Alive(r)
                /\ cursor' = [cursor EXCEPT ![r] = NoCursor]
                /\ UNCHANGED <<history, ops, guards, editing, mirror>>

\* ChangeFeedCursorReader::read: borrow_since, then advance_cursor.  The reader follows the
\* delta.
Read(r) ==
    LET f == Compacted(Feed, guards = {})
        c == cursor[r]
    IN  /\ Alive(r) /\ ~Lent(r) /\ Room(c) /\ ops.inc < MaxQueued
        /\ Borrow("read", r)
        /\ cursor' = [cursor EXCEPT ![r] = EndAge(f.h)]
        /\ Becomes(Advanced(f, c))
        /\ mirror' = [mirror EXCEPT ![r] =
                         Followed(IF c \in Age THEN @ ELSE Empty(f.h.cur), Delta(f.h, c))]
        /\ UNCHANGED editing

\* ChangeFeedCursorReader::peek.
Peek(r) ==
    /\ Alive(r) /\ ~LentOut(r)
    /\ Borrow("peek", r)
    /\ Becomes(Compacted(Feed, guards = {}))
    /\ UNCHANGED <<cursor, editing, mirror>>

\* borrow_current returns a ChangeFeedRef, current_ref a plain Ref whose drop does not
\* compact; try_borrow_current compacts only when it is dropped.
BorrowCurrent(kind) ==
    /\ kind \in {"current", "plain"}
    /\ Borrow(kind, Nobody)
    /\ Becomes(Compacted(Feed, guards = {}))
    /\ UNCHANGED <<cursor, editing, mirror>>

TryBorrowCurrent ==
    /\ Borrow("current", Nobody)
    /\ UNCHANGED <<history, ops, cursor, editing, mirror>>

\* Mutant: the end of a borrow does not compact.
DropGuardOnly(g) ==
    /\ g \in guards
    /\ guards' = guards \ {g}
    /\ UNCHANGED <<history, ops, cursor, editing, mirror>>

\* ChangeFeedRef::drop, or the drop of a plain Ref.
DropGuard(g) ==
    /\ g \in guards
    /\ guards' = guards \ {g}
    /\ Becomes(IF g.kind = "plain" THEN Feed ELSE Compacted(Feed, guards = {g}))
    /\ UNCHANGED <<cursor, editing, mirror>>

\* Clone, with retain_cursor.
CloneReader(r, q) ==
    /\ Alive(r) /\ ~Alive(q) /\ ~LentOut(r) /\ Room(cursor[r])
    /\ cursor' = [cursor EXCEPT ![q] = cursor[r]]
    /\ mirror' = [mirror EXCEPT ![q] = mirror[r]]
    /\ Becomes(Retained(Feed, cursor[r]))
    /\ UNCHANGED <<guards, editing>>

\* ChangeFeedCursorReader::drop, with release_cursor.
DropReader(r) ==
    /\ Alive(r) /\ ~Lent(r) /\ Room(cursor[r])
    /\ cursor' = [cursor EXCEPT ![r] = Gone]
    /\ mirror' = [mirror EXCEPT ![r] = NoView]
    /\ Becomes(Released(Feed, cursor[r]))
    /\ UNCHANGED <<guards, editing>>

-----------------------------------------------------------------------------
(* Edits. *)

\* begin_edit.
BeginEdit ==
    /\ guards = {} /\ ~editing
    /\ editing' = TRUE
    /\ Becomes(Compacted(Feed, TRUE))
    /\ UNCHANGED <<cursor, guards, mirror>>

\* One call on the edited collection, and the changes it records.
Record ==
    /\ editing
    /\ \E e \in Edits(history.cur) :
        /\ Len(e.changes) \in 0 .. MaxHistory - Len(history.items)
        /\ history' = PushedAll([history EXCEPT !.cur = e.model], e.changes)
    /\ UNCHANGED <<ops, cursor, guards, editing, mirror>>

\* ChangeFeedRefMut::drop; whom it tells is FeedNodes' concern.
EndEdit ==
    /\ editing
    /\ editing' = FALSE
    /\ Becomes(Compacted(Feed, TRUE))
    /\ UNCHANGED <<cursor, guards, mirror>>

-----------------------------------------------------------------------------
Init ==
    /\ history \in {[base |-> 0, items |-> <<>>, endRefs |-> 0, cur |-> m] : m \in Models}
    /\ ops = NoOps
    /\ cursor = [r \in Reader |-> Gone]
    /\ guards = {}
    /\ editing = FALSE
    /\ mirror = [r \in Reader |-> NoView]

Next ==
    \/ \E r \in Reader : NewReader(r) \/ Read(r) \/ Peek(r) \/ DropReader(r)
    \/ \E r, q \in Reader : CloneReader(r, q)
    \/ \E kind \in {"current", "plain"} : BorrowCurrent(kind)
    \/ TryBorrowCurrent
    \/ \E g \in guards : DropGuard(g)
    \/ BeginEdit \/ Record \/ EndEdit

Spec == Init /\ [][Next]_vars

-----------------------------------------------------------------------------
(* Properties. *)

\* Ages are in range and counts are natural numbers.
TypeOK ==
    /\ history.base \in Age /\ history.endRefs \in Nat
    /\ \A i \in DOMAIN history.items : history.items[i].refs \in Nat
    /\ ops.inc \in Nat /\ ops.incAt \in [Age -> Nat] /\ ops.dec \in [Age -> Nat]
    /\ cursor \in [Reader -> Age \cup {NoCursor, Gone}]
    /\ guards \subseteq [kind : {"read", "peek", "current", "plain"},
                         by : Reader \cup {Nobody}]
    /\ editing \in BOOLEAN

\* Every reader is counted exactly once at the age it has read up to, once the queue is
\* taken in, and no age outside the history has a reader or a queued count.  So compact
\* never fails: no age is out of range (the assert of age_to_index), no count goes below
\* zero (decrement_ref_count), and no change that a reader has not read is released.
ReadersAreCounted ==
  /\ TypeOK
  /\ \A a \in Age :
        LET i == IndexOf(history, a)
            readers == {r \in Reader : cursor[r] = a}
        IN  IF i <= Len(history.items)
            THEN Cardinality(readers) =
                    ops.incAt[a] - ops.dec[a] +
                    (IF i = Len(history.items) THEN history.endRefs + ops.inc
                                               ELSE history.items[i + 1].refs)
            ELSE readers = {} /\ ops.incAt[a] = 0 /\ ops.dec[a] = 0

\* The slab holds exactly the items of the collection and those that retained changes
\* will give back, and a retained change names no other: a delta can always be shown,
\* keys are not reused too early, and no value outlives the last change that needs it.
SlabHoldsWhatIsNamed ==
    LET changes == {history.items[i].data : i \in DOMAIN history.items}
    IN  /\ Stored(history.cur) =
               Live(history.cur) \cup UNION {Frees(c) : c \in changes}
        /\ \A c \in changes : Names(c) \subseteq Stored(history.cur)

\* When the last borrow that compacts ends, an edit or a guard, no count stays queued and
\* the oldest change left is one that some reader has yet to read: what compact put off
\* while the history was borrowed is made up for, and nothing is kept for nobody.
Ends == \/ editing /\ ~editing'
        \/ \E g \in guards \ guards' : g.kind # "plain"
CompactionCatchesUp ==
    [][(Ends /\ guards' = {}) =>
           /\ ops' = NoOps
           /\ history'.items # <<>> => history'.items[1].refs > 0]_vars

\* Replaying deltas gives a reader what a copy of the whole collection would.
Snapshots == INSTANCE SnapshotFeed WITH value <- View(history.cur), seen <- mirror
ImplementsSnapshots == Snapshots!Spec
=============================================================================
