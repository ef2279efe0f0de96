---------------------------- MODULE AsyncProofs ----------------------------
(***************************************************************************)
(* What the runs check of AsyncNodes, for every set of sources: an         *)
(* outdated future is known to be so (OutdatedIsKnown), a wake is not lost *)
(* (WakesAreKept) and a dependant that does not wait to run has seen the   *)
(* last change (DependantIsCurrent).                                       *)
(*                                                                         *)
(* The three need each other's ground.  DepsInv and PollInv are about the  *)
(* node and its sources: which entries can be unresolved, and that what    *)
(* the future has read is bound.  Safe says who will make the node poll,   *)
(* UserInv who will ask it.                                                *)
(***************************************************************************)
EXTENDS AsyncNodes, TLAPS

UserType == [dirty : Dirty, queued : BOOLEAN, bound : Entry, behind : BOOLEAN]
NodeType == [dirty : Dirty, woken : BOOLEAN, deps : [Source -> Entry],
             polled : [Source -> Entry], pollWaker : BOOLEAN,
             awaits : {"never", "start", "event", "source", "none"}, happened : BOOLEAN,
             used : SUBSET Source, outdated : SUBSET Source, moved : SUBSET Source,
             unsure : BOOLEAN, discard : BOOLEAN, user : UserType]
OutcomeType == [changed : BOOLEAN, reads : SUBSET Source, extends : BOOLEAN,
                polls : SUBSET Source, next : {"none", "event", "source"}, reports : BOOLEAN]

\* An entry says "maybe" only of Memo while that is unsure, and then no entry of Memo is
\* clean.  What has been read is bound; what of it has changed has a dirty entry, and a clean
\* node has none.
DepsInv(n) ==
    /\ \A s \in Source \ {Memo} : n.deps[s] # "MaybeDirty"
    /\ n.deps[Memo] = "MaybeDirty" => n.unsure
    /\ n.unsure => n.deps[Memo] # "Clean"
    /\ \A s \in n.used : n.deps[s] # "Unbound"
    /\ \A s \in n.outdated : s \in n.used /\ n.deps[s] = "Dirty"
    /\ n.dirty = "Clean" => \A s \in Source : n.deps[s] \in {"Clean", "Unbound"}

\* As long as poll_waker has a waker, nothing that the poll_fn read was notified.
PollInv(n) ==
    /\ n.unsure => n.polled[Memo] # "Clean"
    /\ n.pollWaker => n.moved = {} /\ \A s \in Source : n.polled[s] \in {"Clean", "Unbound"}

\* A future or a stream on its own has no dependencies and waits for events only.
PlainNode(n) ==
    ~Binds => n.dirty = "Clean" /\ n.outdated = {} /\ n.awaits \notin {"never", "source"}

NodeInv(n) == n \in NodeType /\ DepsInv(n) /\ PollInv(n) /\ PlainNode(n)

\* The next update polls, and does more than to find that there is no future.
Polls(n) == n.dirty # "Clean" \/ n.woken
Due(n) == n.dirty # "Clean" \/ (n.woken /\ ~NoFuture(n))

\* A future that can go on will be polled, or something has the waker that makes it.
Safe(n) ==
    /\ n.awaits = "event" /\ n.happened => Polls(n)
    /\ n.awaits = "source" => n.pollWaker \/ Polls(n)

\* A dependant that was told is queued; one that is behind knows it; and a node that has to
\* poll has told its dependant.  The wake flag of a future or a stream is all it can be
\* unresolved for.
UserInv(n, q) ==
    /\ kind # "effect" /\ n.user.dirty # "Clean" => q
    /\ n.user.bound \in {"MaybeDirty", "Dirty"} => n.user.dirty # "Clean"
    /\ n.user.behind => n.user.bound = "Dirty"
    /\ Due(n) => \/ kind = "effect" /\ q
                 \/ kind # "effect" /\ n.user.bound = "Unbound"
                 \/ q /\ n.user.dirty # "Clean" /\ n.user.bound # "Clean"
    /\ ~Binds /\ n.user.bound = "MaybeDirty" => Due(n)

\* Only a signal is discarded; an effect has no dependant.
KindInv ==
    /\ kind \in {"signal", "effect", "future", "stream"} /\ filter \in BOOLEAN
    /\ request \in BOOLEAN /\ panicked \in {"no", "asked"}
    /\ kind # "signal" => ~node.discard
    /\ kind = "effect" => node.user.bound = "Unbound" /\ node.user.dirty = "Clean"

AsyncInv ==
    /\ KindInv
    /\ NodeInv(node)
    /\ request \/ Safe(node)
    /\ panicked = "no" => UserInv(node, node.user.queued)

\* FutureScanNode and StreamScanNode resolve their dependants whenever they are asked.
PlainInv == ~Binds => panicked = "no"

-----------------------------------------------------------------------------
(* The update of a node. *)

\* Memo's answer settles its two entries and leaves the rest of the node as it was.
LEMMA MemoResolvedInv ==
    ASSUME NEW n \in NodeType, NEW changed \in BOOLEAN, DepsInv(n), PollInv(n)
    PROVE  LET m == MemoResolved(n, changed)
           IN  /\ m \in NodeType /\ DepsInv(m) /\ PollInv(m) /\ ~m.unsure
               /\ m.deps[Memo] # "MaybeDirty"
               /\ \A s \in Source \ {Memo} : m.deps[s] = n.deps[s]
               /\ m.dirty = n.dirty /\ m.woken = n.woken /\ m.awaits = n.awaits
               /\ m.happened = n.happened /\ m.user = n.user /\ m.discard = n.discard
               /\ m.pollWaker = n.pollWaker /\ m.used = n.used
<1> DEFINE Settled1(e) == IF e = "MaybeDirty" THEN FromIsDirty(changed) ELSE e
           new == IF changed THEN {Memo} ELSE {}
           m == [n EXCEPT !.unsure = FALSE,
                          !.deps = [n.deps EXCEPT ![Memo] = Settled1(@)],
                          !.polled = [n.polled EXCEPT ![Memo] = Settled1(@)],
                          !.outdated = @ \cup (n.used \cap new),
                          !.moved = @ \cup (Bound(n.polled) \cap new)]
<1> USE SourceAssumption
<1>1. CASE ~n.unsure
    BY <1>1 DEF MemoResolved, DepsInv
<1>2. CASE n.unsure
  <2>1. MemoResolved(n, changed) = m
      BY <1>2 DEF MemoResolved, NodeType
  <2>2. \A e \in Entry : /\ Settled1(e) \in Entry \ {"MaybeDirty"}
                         /\ e # "MaybeDirty" => Settled1(e) = e
                         /\ changed /\ e \notin {"Clean", "Unbound"} => Settled1(e) = "Dirty"
      BY DEF FromIsDirty, Entry, Dirty
  <2> HIDE DEF Settled1
  <2>3. /\ m.deps \in [Source -> Entry] /\ m.polled \in [Source -> Entry]
        /\ m.outdated \in SUBSET Source /\ m.moved \in SUBSET Source
        /\ m.deps = [n.deps EXCEPT ![Memo] = Settled1(@)]
        /\ m.polled = [n.polled EXCEPT ![Memo] = Settled1(@)]
        /\ m.outdated = n.outdated \cup (n.used \cap new)
        /\ m.moved = n.moved \cup (Bound(n.polled) \cap new)
        /\ m.unsure = FALSE /\ m.dirty = n.dirty /\ m.woken = n.woken /\ m.awaits = n.awaits
        /\ m.happened = n.happened /\ m.user = n.user /\ m.discard = n.discard
        /\ m.pollWaker = n.pollWaker /\ m.used = n.used
      BY <2>2 DEF NodeType, Bound
  <2>4. m \in NodeType
      BY <2>3 DEF NodeType
  <2> HIDE DEF m
  <2>5. n.deps \in [Source -> Entry] /\ n.polled \in [Source -> Entry]
      BY DEF NodeType
  <2>6. m.deps[Memo] # "MaybeDirty" /\ \A s \in Source \ {Memo} : m.deps[s] = n.deps[s]
      BY <2>2, <2>3, <2>5
  <2>7. DepsInv(m)
    <3>1. n.deps[Memo] # "Clean" /\ n.deps[Memo] \in Entry /\ m.deps[Memo] = Settled1(n.deps[Memo])
        BY <1>2, <2>3, <2>5 DEF DepsInv
    <3>2. \A s \in m.used : m.deps[s] # "Unbound"
        BY <2>2, <2>3, <2>6, <3>1 DEF DepsInv, NodeType, FromIsDirty, Settled1
    <3>3. \A s \in m.outdated : s \in m.used /\ m.deps[s] = "Dirty"
        BY <2>2, <2>3, <2>6, <3>1 DEF DepsInv, NodeType
    <3>4. m.dirty = "Clean" => \A s \in Source : m.deps[s] \in {"Clean", "Unbound"}
        BY <2>2, <2>3, <2>6, <3>1 DEF DepsInv
    <3> QED
        BY <2>3, <2>6, <3>2, <3>3, <3>4 DEF DepsInv
  <2>8. PollInv(m)
      BY <1>2, <2>2, <2>3, <2>5 DEF PollInv, Bound
  <2> QED
      BY <2>1, <2>3, <2>4, <2>6, <2>7, <2>8
<1> QED BY <1>1, <1>2 DEF NodeType

\* A check that finds no change leaves a node whose entries are all clean.
LEMMA CheckedInv ==
    ASSUME NEW n \in NodeType, NEW o \in OutcomeType, DepsInv(n), PollInv(n)
    PROVE  LET c == Checked(n, o)
           IN  /\ c \in NodeType /\ PollInv(c) /\ DepsInv(c) /\ c.dirty \in {"Clean", "Dirty"}
               /\ c.woken = n.woken /\ c.awaits = n.awaits /\ c.happened = n.happened
               /\ c.user = n.user /\ c.discard = n.discard
               /\ n.dirty = "Clean" => c = n
<1> DEFINE r == MemoResolved(n, o.changed)
           m == IF Asks(n) THEN r ELSE n
           d == IF n.dirty = "MaybeDirty" THEN FromIsDirty(\E s \in Source : m.deps[s] = "Dirty")
                ELSE n.dirty
           c == [m EXCEPT !.dirty = d]
<1>1. o.changed \in BOOLEAN
    BY DEF OutcomeType
<1>2. /\ r \in NodeType /\ DepsInv(r) /\ PollInv(r) /\ ~r.unsure
      /\ r.deps[Memo] # "MaybeDirty"
      /\ \A s \in Source \ {Memo} : r.deps[s] = n.deps[s]
      /\ r.dirty = n.dirty /\ r.woken = n.woken /\ r.awaits = n.awaits
      /\ r.happened = n.happened /\ r.user = n.user /\ r.discard = n.discard
    BY <1>1, MemoResolvedInv
<1> HIDE DEF r
<1>3. /\ m \in NodeType /\ PollInv(m) /\ DepsInv(m) /\ m.dirty = n.dirty /\ m.woken = n.woken
      /\ m.awaits = n.awaits /\ m.happened = n.happened /\ m.user = n.user
      /\ m.discard = n.discard
      /\ n.dirty = "MaybeDirty" => m.deps[Memo] # "MaybeDirty"
      /\ n.dirty = "Clean" => m = n
    BY <1>2, SourceAssumption DEF Asks
<1> HIDE DEF m
<1>4. d \in Dirty /\ (d = "MaybeDirty" => FALSE)
      /\ (d = "Clean" => \A s \in Source : m.deps[s] \in {"Clean", "Unbound"})
      /\ (n.dirty = "Clean" => d = "Clean")
  <2>1. CASE n.dirty = "MaybeDirty"
    <3>1. \A s \in Source : m.deps[s] \in {"Clean", "Unbound", "Dirty"}
        BY <1>3, <2>1 DEF DepsInv, NodeType, Entry, Dirty
    <3> QED
        BY <2>1, <3>1 DEF FromIsDirty, Dirty
  <2>2. CASE n.dirty # "MaybeDirty"
      BY <1>3, <2>2 DEF NodeType, Dirty, DepsInv
  <2> QED BY <2>1, <2>2
<1> HIDE DEF d
<1>5. /\ c \in NodeType /\ c.dirty = d /\ c.deps = m.deps /\ c.polled = m.polled
      /\ c.unsure = m.unsure /\ c.used = m.used /\ c.outdated = m.outdated
      /\ c.moved = m.moved /\ c.pollWaker = m.pollWaker
      /\ c.woken = m.woken /\ c.awaits = m.awaits /\ c.happened = m.happened
      /\ c.user = m.user /\ c.discard = m.discard
    BY <1>3, <1>4 DEF NodeType
<1>6. DepsInv(c) /\ PollInv(c)
    BY <1>3, <1>4, <1>5 DEF DepsInv, PollInv
<1>7. n.dirty = "Clean" => c = n
    BY <1>3, <1>4 DEF NodeType
<1>8. Checked(n, o) = c
    BY <1>3 DEF Checked, c, m, r, d, Asks
<1> QED
    BY <1>3, <1>4, <1>5, <1>6, <1>7, <1>8 DEF Dirty

\* A poll of a node that is clean by then.
LEMMA PolledInv ==
    ASSUME NEW n \in NodeType, NEW o \in OutcomeType, DepsInv(n), PollInv(n), n.dirty = "Clean"
    PROVE  LET m == Polled(Settled(n, o), o)
           IN  /\ m \in NodeType /\ PollInv(m) /\ DepsInv(m) /\ m.dirty = "Clean"
               /\ ~m.woken /\ ~m.happened /\ m.awaits = o.next
               /\ m.awaits = "source" => m.pollWaker
               /\ m.user = n.user /\ m.discard = n.discard
<1> DEFINE r == MemoResolved(n, o.changed)
           s == Settled(n, o)
<1>1. /\ o.changed \in BOOLEAN /\ o.reads \subseteq Source /\ o.polls \subseteq Source
      /\ o.extends \in BOOLEAN /\ o.next \in {"none", "event", "source"}
    BY DEF OutcomeType
<1>2. /\ r \in NodeType /\ DepsInv(r) /\ PollInv(r) /\ ~r.unsure
      /\ r.dirty = n.dirty /\ r.user = n.user /\ r.discard = n.discard
    BY <1>1, MemoResolvedInv
<1> HIDE DEF r
<1>5. /\ s \in NodeType /\ PollInv(s) /\ DepsInv(s) /\ s.dirty = "Clean"
      /\ Memo \in o.reads \cup o.polls => ~s.unsure
      /\ s.user = n.user /\ s.discard = n.discard
  <2>1. CASE Memo \in o.reads \cup o.polls
    <3>1. s = r
        BY <2>1 DEF Settled, s, r
    <3> QED BY <1>2, <3>1
  <2>2. CASE Memo \notin o.reads \cup o.polls
      BY <2>2 DEF Settled
  <2> QED BY <2>1, <2>2
<1> HIDE DEF s
<1>6. /\ Set(s.deps, o.reads, "Clean") \in [Source -> Entry]
      /\ Set(NotBound, o.polls, "Clean") \in [Source -> Entry]
      /\ NotBound \in [Source -> Entry]
    BY <1>5 DEF Set, NotBound, Entry, Dirty, NodeType
<1>7. Polled(s, o) \in NodeType
  <2> DEFINE p == IF o.next = "source" THEN Set(NotBound, o.polls, "Clean")
                  ELSE IF o.extends THEN NotBound ELSE s.polled
             w == IF o.next = "source" THEN TRUE ELSE s.pollWaker /\ ~o.extends
             v == IF o.next = "source" \/ o.extends THEN {} ELSE s.moved
  <2>1. p \in [Source -> Entry] /\ w \in BOOLEAN /\ v \in SUBSET Source
        /\ s.used \cup o.reads \in SUBSET Source
      BY <1>1, <1>5, <1>6 DEF NodeType
  <2>2. Polled(s, o) = [s EXCEPT !.woken = FALSE, !.happened = FALSE, !.awaits = o.next,
                                 !.used = s.used \cup o.reads,
                                 !.deps = Set(s.deps, o.reads, "Clean"),
                                 !.polled = p, !.pollWaker = w, !.moved = v]
      BY <1>5 DEF Polled, NodeType
  <2>3. PICK g \in NodeType : g = s
      BY <1>5
  <2>4. PICK d \in [Source -> Entry], u \in SUBSET Source :
            d = Set(s.deps, o.reads, "Clean") /\ u = s.used \cup o.reads
      BY <1>6, <2>1
  <2>5. PICK q \in [Source -> Entry], a \in BOOLEAN, m \in SUBSET Source : q = p /\ a = w /\ m = v
    <3> HIDE DEF p, w, v
    <3> QED
        BY <2>1
  <2>6. PICK e \in {"none", "event", "source"} : e = o.next
      BY <1>1
  <2> HIDE DEF p, w, v
  <2>7. Polled(s, o) = [g EXCEPT !.woken = FALSE, !.happened = FALSE, !.awaits = e, !.used = u,
                                 !.deps = d, !.polled = q, !.pollWaker = a, !.moved = m]
      BY <2>2, <2>3, <2>4, <2>5, <2>6
  <2>8. PICK h \in NodeType : h = [g EXCEPT !.woken = FALSE, !.happened = FALSE, !.awaits = e, !.used = u]
      BY DEF NodeType
  <2>9. Polled(s, o) = [h EXCEPT !.deps = d, !.polled = q, !.pollWaker = a, !.moved = m]
      BY <2>7, <2>8
  <2> QED
      BY <2>9 DEF NodeType
<1>8. DepsInv(Polled(s, o))
    BY <1>1, <1>5, SourceAssumption DEF Polled, NodeType, DepsInv, Set
<1>9. PollInv(Polled(s, o))
    BY <1>1, <1>5, SourceAssumption DEF Polled, NodeType, PollInv, Set, NotBound
<1>10. /\ Polled(s, o).dirty = "Clean" /\ ~Polled(s, o).woken /\ ~Polled(s, o).happened
       /\ Polled(s, o).awaits = o.next
       /\ Polled(s, o).awaits = "source" => Polled(s, o).pollWaker
       /\ Polled(s, o).user = s.user /\ Polled(s, o).discard = s.discard
    BY <1>1, <1>5 DEF Polled, NodeType
<1> QED
    BY <1>5, <1>7, <1>8, <1>9, <1>10 DEF s

\* A future that starts anew has no dependencies and nothing to be outdated.
LEMMA StartedInv ==
    ASSUME NEW n \in NodeType, DepsInv(n), PollInv(n)
    PROVE  LET m == Started(n)
           IN  /\ m \in NodeType /\ PollInv(m) /\ DepsInv(m) /\ m.dirty = "Clean"
               /\ m.awaits = "start" /\ m.user = n.user /\ m.discard = n.discard
BY SourceAssumption DEF Started, NodeType, PollInv, DepsInv, NotBound, Entry, Dirty

\* What every update keeps and what it leaves: a node that no longer has to poll, whose
\* dependant's entry may have been resolved.
Brings(n, m) ==
    /\ NodeInv(m) /\ ~Due(m)
    /\ Safe(n) => Safe(m)
    /\ kind # "signal" => m.discard = n.discard
    /\ m.user \in {n.user, Resolve(n.user, TRUE), Resolve(n.user, FALSE)}
    /\ m.user # n.user => Due(n)
    /\ ~Binds /\ Due(n) => m.user # n.user \/ n.user.bound # "MaybeDirty"

\* The outcomes that FutureScanNode and StreamScanNode can have do not wait for sources.
OutcomeFor(o) == o \in OutcomeType /\ (~Binds => o.next # "source")

\* ScanAsyncNode and EffectAsyncNode up to the resolving of dependants.
LEMMA BindsUpdatedInv ==
    ASSUME NEW n, NEW o, NodeInv(n), OutcomeFor(o), Binds
    PROVE  LET c == Checked(n, o)
               s == IF c.dirty = "Dirty" THEN Started(c) ELSE c
               p == Polled(Settled(s, o), o)
           IN  /\ NodeInv(s) /\ NodeInv(p) /\ ~Due(p) /\ Safe(p)
               /\ NoFuture(s) => ~Due(s) /\ Safe(s)
               /\ s.user = n.user /\ p.user = n.user
               /\ s.discard = n.discard /\ p.discard = n.discard
               /\ Polls(n) /\ ~NoFuture(s) => Due(n)
<1> DEFINE c == Checked(n, o)
           s == IF c.dirty = "Dirty" THEN Started(c) ELSE c
           p == Polled(Settled(s, o), o)
<1>1. n \in NodeType /\ DepsInv(n) /\ PollInv(n) /\ o \in OutcomeType
    BY DEF NodeInv, OutcomeFor
<1>2. /\ c \in NodeType /\ PollInv(c) /\ DepsInv(c) /\ c.dirty \in {"Clean", "Dirty"}
      /\ c.woken = n.woken /\ c.awaits = n.awaits /\ c.happened = n.happened
      /\ c.user = n.user /\ c.discard = n.discard
      /\ n.dirty = "Clean" => c = n
    BY <1>1, CheckedInv
<1> HIDE DEF c
<1>3. /\ s \in NodeType /\ PollInv(s) /\ DepsInv(s) /\ s.dirty = "Clean"
      /\ s.user = n.user /\ s.discard = n.discard
      /\ n.dirty = "Clean" => s = n
      /\ NoFuture(s) => s.awaits = n.awaits
  <2>1. CASE c.dirty = "Dirty"
    <3>1. s = Started(c)
        BY <2>1 DEF s
    <3> HIDE DEF s
    <3>2. /\ s \in NodeType /\ PollInv(s) /\ DepsInv(s) /\ s.dirty = "Clean"
          /\ s.awaits = "start" /\ s.user = c.user /\ s.discard = c.discard
        BY <1>2, <3>1, StartedInv
    <3> QED BY <1>2, <2>1, <3>2 DEF NoFuture
  <2>2. CASE c.dirty # "Dirty"
      BY <1>2, <2>2 DEF s
  <2> QED BY <2>1, <2>2
<1> HIDE DEF s
<1>4. /\ p \in NodeType /\ PollInv(p) /\ DepsInv(p) /\ p.dirty = "Clean"
      /\ ~p.woken /\ ~p.happened
      /\ p.awaits = "source" => p.pollWaker
      /\ p.user = s.user /\ p.discard = s.discard
    BY <1>1, <1>3, PolledInv
<1> HIDE DEF p
<1>5. NodeInv(s) /\ NodeInv(p) /\ ~Due(p) /\ Safe(p)
    BY <1>3, <1>4 DEF NodeInv, PlainNode, Due, Safe
<1>6. NoFuture(s) => ~Due(s) /\ Safe(s)
    BY <1>3 DEF NoFuture, Due, Safe
<1>7. Polls(n) /\ ~NoFuture(s) => Due(n)
    BY <1>3 DEF Polls, Due
<1> QED
    BY <1>3, <1>4, <1>5, <1>6, <1>7 DEF c, s, p

\* Of the three kinds of node that have dependants.
LEMMA UpdatedInv ==
    ASSUME NEW n, NEW o, NodeInv(n), OutcomeFor(o), kind \in {"signal", "future", "stream"}
    PROVE  Brings(n, Updated(n, o))
<1>1. n \in NodeType
    BY DEF NodeInv
<1>2. CASE kind = "signal"
  <2> DEFINE d == [n EXCEPT !.discard = n.discard \/ n.user.bound = "Unbound"]
             c == Checked(d, o)
             s == IF c.dirty = "Dirty" THEN Started(c) ELSE c
             p == Polled(Settled(s, o), o)
             answered == c.dirty = "Dirty" \/ o.next = "none"
  <2>1. Binds
      BY <1>2 DEF Binds
  <2>2. NodeInv(d) /\ d.user = n.user /\ Polls(d) = Polls(n) /\ (Due(d) <=> Due(n))
      BY <1>1, <2>1 DEF NodeInv, NodeType, DepsInv, PollInv, PlainNode, Polls, Due, NoFuture
  <2> HIDE DEF d
  <2>3. /\ NodeInv(s) /\ NodeInv(p) /\ ~Due(p) /\ Safe(p)
        /\ NoFuture(s) => ~Due(s) /\ Safe(s)
        /\ s.user = n.user /\ p.user = n.user
        /\ Polls(n) /\ ~NoFuture(s) => Due(n)
      BY <2>1, <2>2, BindsUpdatedInv
  <2> DEFINE u == [p EXCEPT !.user = IF answered THEN Resolve(p.user, o.reports) ELSE p.user]
  <2>4. Updated(n, o) = IF ~Polls(n) THEN n ELSE IF NoFuture(s) THEN s ELSE u
      BY <1>1, <1>2 DEF Updated, SignalUpdated, Polls, NodeType, Dirty, d, c, s, p, u, answered
  <2> HIDE DEF c, s, p, answered
  <2>5. u.user \in {n.user, Resolve(n.user, TRUE), Resolve(n.user, FALSE)}
      BY <2>3 DEF NodeInv, NodeType, OutcomeFor, OutcomeType
  <2>6. Resolve(n.user, TRUE) \in UserType /\ Resolve(n.user, FALSE) \in UserType
      BY <1>1 DEF NodeType, UserType, Resolve, FromIsDirty, Entry, Dirty
  <2>7. NodeInv(u) /\ ~Due(u) /\ Safe(u)
    <3>1. u.user \in UserType
        BY <1>1, <2>5, <2>6 DEF NodeType
    <3>2. p \in NodeType
        BY <2>3 DEF NodeInv
    <3>3. u = [p EXCEPT !.user = u.user]
        BY <3>2 DEF NodeType
    <3> HIDE DEF u
    <3> DEFINE x == u.user
    <3> HIDE DEF x
    <3>4. u = [p EXCEPT !.user = x]
        BY <3>3 DEF x
    <3> QED
        BY <2>3, <3>1, <3>2, <3>4
        DEF x, NodeInv, NodeType, DepsInv, PollInv, PlainNode, Due, NoFuture, Safe, Polls
  <2> HIDE DEF u
  <2>8. ~Polls(n) => ~Due(n)
      BY DEF Polls, Due
  <2> QED
      BY <1>2, <2>1, <2>3, <2>4, <2>5, <2>7, <2>8 DEF Brings
<1>3. CASE kind \in {"future", "stream"}
  <2>1. ~Binds /\ n.dirty = "Clean"
      BY <1>3 DEF Binds, NodeInv, PlainNode
  <2>2. CASE ~n.woken \/ NoFuture(n)
    <3>1. Updated(n, o) = n
        BY <1>3, <2>2 DEF Updated, FutureUpdated, StreamUpdated
    <3> QED BY <2>1, <2>2, <3>1 DEF Brings, Due
  <2>3. CASE ~(~n.woken \/ NoFuture(n))
    <3> DEFINE r == IF kind = "future" THEN o.next = "none" /\ (filter => o.reports) ELSE o.reports
    <3>1. r \in {TRUE, FALSE}
        BY DEF OutcomeFor, OutcomeType
    <3>2. PICK b \in {TRUE, FALSE} :
              Updated(n, o) = [n EXCEPT !.woken = FALSE, !.happened = FALSE, !.awaits = o.next,
                                        !.user = Resolve(n.user, b)]
      <4>1. Updated(n, o) = [n EXCEPT !.woken = FALSE, !.happened = FALSE, !.awaits = o.next,
                                      !.user = Resolve(n.user, r)]
          BY <1>1, <1>3, <2>3 DEF Updated, FutureUpdated, StreamUpdated, NodeType
      <4> HIDE DEF r
      <4> QED BY <3>1, <4>1
    <3> DEFINE u == Resolve(n.user, b)
               m == [n EXCEPT !.woken = FALSE, !.happened = FALSE, !.awaits = o.next, !.user = u]
    <3>3. u \in UserType /\ (u = n.user => n.user.bound # "MaybeDirty")
      <4>1. PICK w \in UserType : w = n.user
          BY <1>1 DEF NodeType
      <4>2. u = Resolve(w, b)
          BY <4>1
      <4> HIDE DEF u
      <4> QED
          BY <3>2, <4>1, <4>2 DEF UserType, Resolve, FromIsDirty, Entry, Dirty
    <3>4. u \in {n.user, Resolve(n.user, TRUE), Resolve(n.user, FALSE)}
        BY <3>2
    <3>5. Updated(n, o) = m
        BY <3>2
    <3> HIDE DEF u
    <3>6. o.next \in {"none", "event"}
        BY <2>1 DEF OutcomeFor, OutcomeType
    <3>7. NodeInv(m) /\ ~Due(m) /\ Safe(m) /\ m.discard = n.discard /\ m.user = u
        BY <1>1, <2>1, <3>3, <3>6
        DEF NodeInv, NodeType, DepsInv, PollInv, PlainNode, Due, Safe
    <3> HIDE DEF m
    <3>8. Due(n)
        BY <2>3 DEF Due
    <3> QED
        BY <3>3, <3>4, <3>5, <3>7, <3>8 DEF Brings
  <2> QED BY <2>2, <2>3
<1> QED BY <1>2, <1>3

-----------------------------------------------------------------------------
(* Notifications. *)

\* What a dependant of kind u is, whatever the node is about to do.
UserRest(u, q) ==
    /\ kind # "effect" /\ u.dirty # "Clean" => q
    /\ u.bound \in {"MaybeDirty", "Dirty"} => u.dirty # "Clean"
    /\ u.behind => u.bound = "Dirty"
    /\ kind = "effect" => u.bound = "Unbound" /\ u.dirty = "Clean"

\* A dependant that is told is unclean and queued, if it is bound at all.
LEMMA TellInv ==
    ASSUME NEW u \in UserType, NEW l \in DirtyLevel, UserRest(u, u.queued)
    PROVE  LET t == Tell(u, l)
           IN  /\ t \in UserType /\ UserRest(t, t.queued)
               /\ u.bound = "Unbound" => t = u
               /\ u.bound # "Unbound" => /\ t.bound \in {"MaybeDirty", "Dirty"}
                                         /\ t.dirty # "Clean" /\ t.queued
                                         /\ kind # "effect"
<1>1. CASE u.bound = "Unbound"
    BY <1>1 DEF Tell
<1>2. CASE u.bound # "Unbound"
  <2> DEFINE b == ApplyNotify(u.bound, l)
             d == IF NeedsNotify(u.bound) THEN ApplyNotify(u.dirty, l) ELSE u.dirty
             q == u.queued \/ (NeedsNotify(u.bound) /\ NeedsNotify(u.dirty))
             t == [dirty |-> d, queued |-> q, bound |-> b, behind |-> u.behind]
  <2>1. kind # "effect" /\ u.bound \in Dirty /\ u.dirty \in Dirty /\ u.queued \in BOOLEAN
        /\ u.behind \in BOOLEAN
      BY <1>2 DEF UserRest, UserType, Entry
  <2>2. b \in {"MaybeDirty", "Dirty"} /\ d \in {"MaybeDirty", "Dirty"} /\ q = TRUE
        /\ (u.bound = "Dirty" => b = "Dirty")
      BY <2>1 DEF UserRest, ApplyNotify, NeedsNotify, Dirty, DirtyLevel
  <2>3. Tell(u, l) = t
      BY <1>2 DEF Tell, UserType
  <2> HIDE DEF b, d, q
  <2>4. /\ t \in UserType /\ UserRest(t, t.queued)
        /\ t.bound \in {"MaybeDirty", "Dirty"} /\ t.dirty # "Clean" /\ t.queued
      BY <2>1, <2>2 DEF UserRest, UserType, Dirty, Entry
  <2> HIDE DEF t
  <2> QED
      BY <1>2, <2>1, <2>3, <2>4
<1> QED BY <1>1, <1>2

\* A node that may have to poll from now on tells its dependant, or is its own.
LEMMA TellOnInv ==
    ASSUME NEW n \in NodeType, UserRest(n.user, n.user.queued), Binds
    PROVE  LET m == TellOn(n, TRUE)
           IN  /\ m = [n EXCEPT !.user = m.user] /\ m.user \in UserType
               /\ UserInv(m, m.user.queued) /\ UserRest(m.user, m.user.queued)
<1> DEFINE u == IF kind = "effect" THEN [n.user EXCEPT !.queued = TRUE]
                ELSE Tell(n.user, "MaybeDirty")
           m == [n EXCEPT !.user = u]
<1>1. TellOn(n, TRUE) = m
    BY DEF TellOn, NodeType
<1>2. n.user \in UserType
    BY DEF NodeType
<1>3. u \in UserType /\ UserRest(u, u.queued)
      /\ (kind = "effect" => u.queued)
      /\ (kind # "effect" /\ u.bound # "Unbound" =>
              u.queued /\ u.dirty # "Clean" /\ u.bound # "Clean")
  <2>1. CASE kind = "effect"
      BY <1>2, <2>1 DEF UserType, UserRest
  <2>2. CASE kind # "effect"
    <3>1. "MaybeDirty" \in DirtyLevel
        BY DEF DirtyLevel
    <3> DEFINE t == Tell(n.user, "MaybeDirty")
    <3>2. /\ t \in UserType /\ UserRest(t, t.queued)
          /\ n.user.bound = "Unbound" => t = n.user
          /\ n.user.bound # "Unbound" => /\ t.bound \in {"MaybeDirty", "Dirty"}
                                         /\ t.dirty # "Clean" /\ t.queued
        BY <1>2, <3>1, TellInv
    <3>3. u = t
        BY <2>2
    <3> HIDE DEF t, u
    <3> QED BY <2>2, <3>2, <3>3
  <2> QED BY <2>1, <2>2
<1> HIDE DEF u
<1>4. m.user = u
    BY DEF NodeType
<1> HIDE DEF m
<1> QED
    BY <1>1, <1>3, <1>4 DEF UserInv, UserRest, m

\* A notification of a source: the entries say so, and who has to know does.
LEMMA NotifiedInv ==
    ASSUME NEW n, NEW s \in Source, NEW l \in DirtyLevel, NodeInv(n), Binds,
           UserInv(n, n.user.queued), UserRest(n.user, n.user.queued)
    PROVE  LET m == Notified(n, s, l)
           IN  /\ m \in NodeType
               /\ m.deps = [n.deps EXCEPT ![s] = IF @ = "Unbound" THEN @ ELSE ApplyNotify(@, l)]
               /\ m.polled = [n.polled EXCEPT ![s] = IF @ = "Unbound" THEN @
                                                     ELSE ApplyNotify(@, l)]
               /\ m.dirty = "Clean" => n.dirty = "Clean" /\ n.deps[s] = "Unbound"
               /\ m.pollWaker => n.pollWaker /\ n.polled[s] # "Clean"
               /\ m.used = n.used /\ m.outdated = n.outdated /\ m.moved = n.moved
               /\ m.awaits = n.awaits /\ m.happened = n.happened /\ m.woken = n.woken
               /\ m.unsure = n.unsure /\ m.discard = n.discard
               /\ UserInv(m, m.user.queued) /\ UserRest(m.user, m.user.queued)
<1> DEFINE deps == [n.deps EXCEPT ![s] = ApplyNotify(@, l)]
           e == [n EXCEPT !.deps = deps, !.dirty = ApplyNotify(n.dirty, l)]
           d == DepNotified(n, s, l)
<1>1. n \in NodeType /\ (n.dirty = "Clean" => n.deps[s] \in {"Clean", "Unbound"})
    BY DEF NodeInv, DepsInv
<1>2. deps \in [Source -> Entry] /\ ApplyNotify(n.dirty, l) \in {"MaybeDirty", "Dirty"}
    BY <1>1 DEF NodeType, ApplyNotify, Entry, Dirty, DirtyLevel
<1>3. e \in NodeType /\ e.user = n.user /\ e.deps = deps /\ e.dirty # "Clean"
    BY <1>1, <1>2 DEF NodeType, Dirty
<1>4. d = [n EXCEPT !.deps = d.deps, !.dirty = d.dirty, !.user = d.user] /\ d \in NodeType
      /\ d.deps = [n.deps EXCEPT ![s] = IF @ = "Unbound" THEN @ ELSE ApplyNotify(@, l)]
      /\ (d.dirty = "Clean" => n.dirty = "Clean" /\ n.deps[s] = "Unbound")
      /\ UserInv(d, d.user.queued) /\ UserRest(d.user, d.user.queued)
  <2>1. CASE n.deps[s] = "Unbound"
    <3>1. d = n
        BY <2>1 DEF DepNotified
    <3> HIDE DEF d
    <3> QED BY <1>1, <2>1, <3>1 DEF NodeType
  <2>2. CASE n.deps[s] # "Unbound" /\ ~NeedsNotify(n.deps[s])
    <3>1. d = [n EXCEPT !.deps = deps]
        BY <1>1, <2>2 DEF DepNotified, NodeType
    <3>2. n.dirty # "Clean"
        BY <1>1, <2>2 DEF NeedsNotify
    <3> HIDE DEF d, deps
    <3>3. d = [n EXCEPT !.deps = d.deps, !.dirty = d.dirty, !.user = d.user] /\ d \in NodeType
          /\ d.user = n.user /\ d.dirty = n.dirty /\ d.woken = n.woken /\ d.awaits = n.awaits
          /\ d.deps = deps
        BY <1>1, <1>2, <3>1 DEF NodeType
    <3> QED
        BY <2>2, <3>2, <3>3 DEF UserInv, Due, NoFuture, deps
  <2>3. CASE n.deps[s] # "Unbound" /\ NeedsNotify(n.deps[s]) /\ ~NeedsNotify(n.dirty)
    <3>1. d = e
        BY <1>1, <2>3 DEF DepNotified, TellOn, NodeType
    <3>2. e.woken = n.woken /\ e.awaits = n.awaits
          /\ e = [n EXCEPT !.deps = e.deps, !.dirty = e.dirty, !.user = e.user]
        BY <1>1 DEF NodeType
    <3> HIDE DEF d, e
    <3>3. Due(n)
        BY <2>3 DEF NeedsNotify, Due
    <3>4. UserInv(e, e.user.queued)
        BY <1>3, <3>3 DEF UserInv
    <3> QED
        BY <1>3, <2>3, <3>1, <3>2, <3>4
  <2>4. CASE n.deps[s] # "Unbound" /\ NeedsNotify(n.deps[s]) /\ NeedsNotify(n.dirty)
    <3>1. d = TellOn(e, TRUE)
        BY <1>1, <2>4 DEF DepNotified, NodeType, TellOn
    <3>2. UserRest(e.user, e.user.queued)
        BY <1>3
    <3> HIDE DEF d, e
    <3>3. /\ d = [e EXCEPT !.user = d.user] /\ d.user \in UserType
          /\ UserInv(d, d.user.queued) /\ UserRest(d.user, d.user.queued)
        BY <1>3, <3>1, <3>2, TellOnInv
    <3>4. d \in NodeType /\ d.deps = deps /\ d.dirty = e.dirty
        BY <1>3, <3>3 DEF NodeType
    <3>5. d = [n EXCEPT !.deps = d.deps, !.dirty = d.dirty, !.user = d.user]
        BY <1>1, <3>3, <3>4 DEF NodeType, e
    <3> QED
        BY <1>3, <2>4, <3>3, <3>4, <3>5
  <2> QED BY <2>1, <2>2, <2>3, <2>4
<1> DEFINE m == PollNotified(d, s, l)
<1> HIDE DEF d
<1>5. /\ d.polled = n.polled /\ d.pollWaker = n.pollWaker /\ d.used = n.used
      /\ d.outdated = n.outdated /\ d.moved = n.moved
      /\ d.awaits = n.awaits /\ d.happened = n.happened /\ d.woken = n.woken
      /\ d.unsure = n.unsure /\ d.discard = n.discard
    BY <1>1, <1>4 DEF NodeType
<1>6. /\ m \in NodeType /\ m.deps = d.deps /\ m.dirty = d.dirty /\ m.user = d.user
      /\ m.polled = [n.polled EXCEPT ![s] = IF @ = "Unbound" THEN @ ELSE ApplyNotify(@, l)]
      /\ m.pollWaker => d.pollWaker /\ d.polled[s] # "Clean"
      /\ m.used = d.used /\ m.outdated = d.outdated /\ m.moved = d.moved
      /\ m.awaits = d.awaits /\ m.happened = d.happened /\ m.woken = d.woken
      /\ m.unsure = d.unsure /\ m.discard = d.discard
  <2>1. d \in NodeType
      BY <1>4
  <2>2. CASE d.polled[s] = "Unbound"
    <3>1. m = d
        BY <2>2 DEF PollNotified
    <3> HIDE DEF m
    <3> QED BY <1>5, <2>1, <2>2, <3>1 DEF NodeType
  <2>3. CASE d.polled[s] # "Unbound"
    <3> DEFINE p == [d.polled EXCEPT ![s] = ApplyNotify(@, l)]
               w == d.pollWaker /\ ~NeedsNotify(d.polled[s])
    <3>1. m = [d EXCEPT !.polled = p, !.pollWaker = w]
        BY <2>1, <2>3 DEF PollNotified, NodeType
    <3>2. p \in [Source -> Entry] /\ w \in BOOLEAN /\ (w => d.pollWaker /\ d.polled[s] # "Clean")
        BY <2>1 DEF NodeType, ApplyNotify, NeedsNotify, Entry, Dirty, DirtyLevel
    <3>3. p = [n.polled EXCEPT ![s] = IF @ = "Unbound" THEN @ ELSE ApplyNotify(@, l)]
        BY <1>5, <2>1, <2>3 DEF NodeType
    <3> HIDE DEF m, p, w
    <3> QED BY <2>1, <3>1, <3>2, <3>3 DEF NodeType
  <2> QED BY <2>2, <2>3
<1> HIDE DEF m
<1>7. UserInv(m, m.user.queued)
    BY <1>4, <1>6 DEF UserInv, Due, NoFuture
<1>8. Notified(n, s, l) = m
    BY DEF Notified, d, m
<1> QED
    BY <1>4, <1>5, <1>6, <1>7, <1>8

-----------------------------------------------------------------------------
(* The actions. *)

\* A node starts without an answer, its dependant queued or not asking.
LEMMA InitAsyncInv == Init => AsyncInv
<1> SUFFICES ASSUME Init PROVE AsyncInv
    OBVIOUS
<1>1. node \in NodeType
    BY DEF Init, NodeType, UserType, NotBound, Entry, Dirty
<1>2. KindInv
    BY DEF Init, KindInv
<1>3. NodeInv(node)
    BY <1>1, SourceAssumption
    DEF Init, NodeInv, DepsInv, PollInv, PlainNode, NotBound, Binds
<1>4. Safe(node) /\ UserInv(node, node.user.queued)
    BY DEF Init, Safe, UserInv, Due, Binds, NoFuture
<1> QED
    BY <1>2, <1>3, <1>4 DEF AsyncInv

\* What the lemmas about notifications need.
LEMMA UserFacts ==
    ASSUME AsyncInv, panicked = "no"
    PROVE  node \in NodeType /\ node.user \in UserType /\ UserInv(node, node.user.queued)
           /\ UserRest(node.user, node.user.queued)
<1>1. node \in NodeType /\ UserInv(node, node.user.queued) /\ KindInv
    BY DEF AsyncInv, NodeInv
<1> QED
    BY <1>1 DEF UserInv, UserRest, KindInv, NodeType

\* A state has changed: the node becomes dirty, as does what polled it, and both are told.
LEMMA SourceChangesInv ==
    ASSUME AsyncInv, NEW s \in Source, SourceChanges(s)
    PROVE  AsyncInv'
<1> DEFINE n == Notified(node, s, "Dirty")
           m == [n EXCEPT !.outdated = n.outdated \cup (n.used \cap {s}),
                          !.moved = n.moved \cup (Bound(n.polled) \cap {s})]
<1>1. /\ panicked = "no" /\ Binds /\ s # Memo /\ NodeInv(node)
      /\ UserInv(node, node.user.queued) /\ UserRest(node.user, node.user.queued)
      /\ UNCHANGED <<kind, filter, panicked>>
    BY UserFacts DEF SourceChanges, AsyncInv
<1>2. /\ n \in NodeType
      /\ n.deps = [node.deps EXCEPT ![s] = IF @ = "Unbound" THEN @ ELSE ApplyNotify(@, "Dirty")]
      /\ n.polled = [node.polled EXCEPT ![s] = IF @ = "Unbound" THEN @
                                               ELSE ApplyNotify(@, "Dirty")]
      /\ n.dirty = "Clean" => node.dirty = "Clean" /\ node.deps[s] = "Unbound"
      /\ n.pollWaker => node.pollWaker /\ node.polled[s] # "Clean"
      /\ n.used = node.used /\ n.outdated = node.outdated /\ n.moved = node.moved
      /\ n.awaits = node.awaits /\ n.happened = node.happened /\ n.woken = node.woken
      /\ n.unsure = node.unsure /\ n.discard = node.discard
      /\ UserInv(n, n.user.queued) /\ UserRest(n.user, n.user.queued)
  <2>1. "Dirty" \in DirtyLevel
      BY DEF DirtyLevel
  <2> QED BY <1>1, <2>1, NotifiedInv
<1>3. node' = m /\ request' = (request \/ n.pollWaker # node.pollWaker)
    BY <1>2 DEF SourceChanges, NodeType
<1> HIDE DEF n
<1>4. /\ m \in NodeType /\ m.deps = n.deps /\ m.polled = n.polled /\ m.dirty = n.dirty
      /\ m.outdated = node.outdated \cup (node.used \cap {s})
      /\ m.moved = node.moved \cup (Bound(n.polled) \cap {s})
      /\ m.used = n.used /\ m.pollWaker = n.pollWaker /\ m.user = n.user
      /\ m.awaits = n.awaits /\ m.happened = n.happened /\ m.woken = n.woken
      /\ m.unsure = n.unsure /\ m.discard = n.discard
    BY <1>2 DEF NodeType
<1> HIDE DEF m
<1>5. DepsInv(node) /\ PollInv(node) /\ node \in NodeType
    BY <1>1 DEF NodeInv
<1>6. node.deps \in [Source -> Entry] /\ node.polled \in [Source -> Entry]
      /\ node.used \subseteq Source
    BY <1>5 DEF NodeType
<1>7. DepsInv(m)
    BY <1>1, <1>2, <1>4, <1>5, <1>6, SourceAssumption DEF DepsInv, ApplyNotify, Entry, Dirty
<1>8. PollInv(m)
  <2>1. m.unsure => m.polled[Memo] # "Clean"
      BY <1>1, <1>2, <1>4, <1>5, <1>6, SourceAssumption DEF PollInv
  <2>2. ASSUME m.pollWaker
        PROVE  m.moved = {} /\ \A z \in Source : m.polled[z] \in {"Clean", "Unbound"}
    <3>1. node.polled[s] = "Unbound"
        BY <1>2, <1>4, <1>5, <2>2 DEF PollInv
    <3>2. n.polled[s] = "Unbound"
        BY <1>2, <1>6, <3>1
    <3> QED
        BY <1>2, <1>4, <1>5, <1>6, <2>2, <3>1, <3>2 DEF PollInv, Bound
  <2> QED BY <2>1, <2>2 DEF PollInv
<1>9. NodeInv(m)
    BY <1>1, <1>4, <1>7, <1>8 DEF NodeInv, PlainNode
<1>10. request' \/ Safe(m)
    BY <1>2, <1>3, <1>4, <1>5 DEF AsyncInv, Safe, Polls, NodeType
<1>11. UserInv(m, m.user.queued)
    BY <1>2, <1>4 DEF UserInv, Due, NoFuture
<1>12. KindInv'
    BY <1>1, <1>2, <1>3, <1>4, <1>5 DEF AsyncInv, KindInv, UserRest, NodeType
<1>13. Binds' = Binds /\ kind' = kind
    BY <1>1 DEF Binds
<1> QED
    BY <1>1, <1>3, <1>9, <1>10, <1>11, <1>12, <1>13
    DEF AsyncInv, NodeInv, PlainNode, UserInv, Binds, DepsInv, PollInv, Safe, Due, Polls, NoFuture

\* Memo may have changed: whoever read it is unsure of it, and is told.
LEMMA MemoNotifiedInv ==
    ASSUME AsyncInv, MemoNotified
    PROVE  AsyncInv'
<1> DEFINE n == Notified(node, Memo, "MaybeDirty")
           m == [n EXCEPT !.unsure = TRUE]
<1>1. /\ panicked = "no" /\ Binds /\ NodeInv(node)
      /\ UserInv(node, node.user.queued) /\ UserRest(node.user, node.user.queued)
      /\ UNCHANGED <<kind, filter, panicked>>
    BY UserFacts DEF MemoNotified, AsyncInv
<1>2. /\ n \in NodeType
      /\ n.deps = [node.deps EXCEPT ![Memo] = IF @ = "Unbound" THEN @
                                              ELSE ApplyNotify(@, "MaybeDirty")]
      /\ n.polled = [node.polled EXCEPT ![Memo] = IF @ = "Unbound" THEN @
                                                  ELSE ApplyNotify(@, "MaybeDirty")]
      /\ n.dirty = "Clean" => node.dirty = "Clean" /\ node.deps[Memo] = "Unbound"
      /\ n.pollWaker => node.pollWaker /\ node.polled[Memo] # "Clean"
      /\ n.used = node.used /\ n.outdated = node.outdated /\ n.moved = node.moved
      /\ n.awaits = node.awaits /\ n.happened = node.happened /\ n.woken = node.woken
      /\ n.unsure = node.unsure /\ n.discard = node.discard
      /\ UserInv(n, n.user.queued) /\ UserRest(n.user, n.user.queued)
  <2>1. "MaybeDirty" \in DirtyLevel
      BY DEF DirtyLevel
  <2> QED BY <1>1, <2>1, SourceAssumption, NotifiedInv
<1>3. node' = m /\ request' = (request \/ n.pollWaker # node.pollWaker)
    BY DEF MemoNotified
<1> HIDE DEF n
<1>4. /\ m \in NodeType /\ m.deps = n.deps /\ m.polled = n.polled /\ m.dirty = n.dirty
      /\ m.outdated = node.outdated /\ m.moved = node.moved
      /\ m.used = n.used /\ m.pollWaker = n.pollWaker /\ m.user = n.user
      /\ m.awaits = n.awaits /\ m.happened = n.happened /\ m.woken = n.woken
      /\ m.unsure = TRUE /\ m.discard = n.discard
    BY <1>2 DEF NodeType
<1> HIDE DEF m
<1>5. DepsInv(node) /\ PollInv(node) /\ node \in NodeType
    BY <1>1 DEF NodeInv
<1>6. node.deps \in [Source -> Entry] /\ node.polled \in [Source -> Entry]
      /\ node.used \subseteq Source
    BY <1>5 DEF NodeType
<1>7. DepsInv(m)
    BY <1>2, <1>4, <1>5, <1>6, SourceAssumption DEF DepsInv, ApplyNotify, Entry, Dirty
<1>8. PollInv(m)
    BY <1>2, <1>4, <1>5, <1>6, SourceAssumption DEF PollInv, ApplyNotify, Entry, Dirty
<1>9. NodeInv(m)
    BY <1>1, <1>4, <1>7, <1>8 DEF NodeInv, PlainNode
<1>10. request' \/ Safe(m)
    BY <1>2, <1>3, <1>4, <1>5 DEF AsyncInv, Safe, Polls, NodeType
<1>11. UserInv(m, m.user.queued)
    BY <1>2, <1>4 DEF UserInv, Due, NoFuture
<1>12. KindInv'
    BY <1>1, <1>2, <1>3, <1>4, <1>5 DEF AsyncInv, KindInv, UserRest, NodeType
<1> QED
    BY <1>1, <1>3, <1>9, <1>10, <1>11, <1>12
    DEF AsyncInv, NodeInv, PlainNode, UserInv, Binds, DepsInv, PollInv, Safe, Due, Polls, NoFuture

\* Somebody else reads Memo, and the node hears whether it changed.
LEMMA MemoReadInv ==
    ASSUME AsyncInv, NEW changed \in BOOLEAN, MemoRead(changed)
    PROVE  AsyncInv'
<1> DEFINE m == MemoResolved(node, changed)
<1>1. /\ panicked = "no" /\ Binds /\ NodeInv(node) /\ UserInv(node, node.user.queued)
      /\ node' = m /\ UNCHANGED <<kind, filter, request, panicked>>
    BY UserFacts DEF MemoRead, AsyncInv
<1>2. /\ m \in NodeType /\ DepsInv(m) /\ PollInv(m)
      /\ m.dirty = node.dirty /\ m.woken = node.woken /\ m.awaits = node.awaits
      /\ m.happened = node.happened /\ m.user = node.user /\ m.discard = node.discard
      /\ m.pollWaker = node.pollWaker
    BY <1>1, MemoResolvedInv DEF NodeInv
<1> HIDE DEF m
<1>3. NodeInv(m)
    BY <1>1, <1>2 DEF NodeInv, PlainNode
<1>4. Safe(node) => Safe(m)
    BY <1>2 DEF Safe, Polls
<1>5. UserInv(m, m.user.queued)
    BY <1>1, <1>2 DEF UserInv, Due, NoFuture
<1>6. KindInv'
    BY <1>1, <1>2 DEF AsyncInv, KindInv
<1> QED
    BY <1>1, <1>3, <1>4, <1>5, <1>6
    DEF AsyncInv, NodeInv, PlainNode, UserInv, Binds, DepsInv, PollInv, Safe, Due, Polls, NoFuture

\* The awaited event happens and calls the waker.
LEMMA WakeInv ==
    ASSUME AsyncInv, NEW event \in BOOLEAN, Wake(event)
    PROVE  AsyncInv'
<1> DEFINE m == [node EXCEPT !.happened = node.happened \/ event]
<1>1. /\ panicked = "no" /\ NodeInv(node) /\ UserInv(node, node.user.queued)
      /\ node \in NodeType /\ request' = TRUE /\ UNCHANGED <<kind, filter, panicked>>
    BY UserFacts DEF Wake, AsyncInv
<1>2. node' = m
    BY <1>1 DEF Wake, NodeType
<1>3. /\ m \in NodeType /\ m.deps = node.deps /\ m.polled = node.polled /\ m.used = node.used
      /\ m.outdated = node.outdated /\ m.moved = node.moved /\ m.pollWaker = node.pollWaker
      /\ m.dirty = node.dirty /\ m.woken = node.woken /\ m.awaits = node.awaits
      /\ m.user = node.user /\ m.discard = node.discard /\ m.unsure = node.unsure
    BY <1>1 DEF NodeType
<1> HIDE DEF m
<1>4. NodeInv(m)
    BY <1>1, <1>3 DEF NodeInv, PlainNode, DepsInv, PollInv
<1>5. UserInv(m, m.user.queued)
    BY <1>1, <1>3 DEF UserInv, Due, NoFuture
<1>6. KindInv'
    BY <1>1, <1>2, <1>3 DEF AsyncInv, KindInv
<1> QED
    BY <1>1, <1>2, <1>4, <1>5, <1>6
    DEF AsyncInv, NodeInv, PlainNode, UserInv, Binds, DepsInv, PollInv, Due, NoFuture

\* The wake flag is set, and the dependant told when it was not set before.
LEMMA TakeRequestInv ==
    ASSUME AsyncInv, TakeRequest
    PROVE  AsyncInv'
<1>1. /\ panicked = "no" /\ NodeInv(node) /\ UserInv(node, node.user.queued)
      /\ node \in NodeType /\ node.user \in UserType /\ KindInv
      /\ UserRest(node.user, node.user.queued)
      /\ request' = FALSE /\ UNCHANGED <<kind, filter, panicked>>
    BY UserFacts DEF TakeRequest, AsyncInv
<1>2. SUFFICES /\ NodeInv(node') /\ Safe(node') /\ UserInv(node', node'.user.queued)
               /\ node'.discard = node.discard /\ UserRest(node'.user, node'.user.queued)
  <2>1. KindInv'
      BY <1>1, <1>2 DEF KindInv, UserRest
  <2> QED
      BY <1>1, <1>2, <2>1
      DEF AsyncInv, NodeInv, PlainNode, UserInv, Binds, DepsInv, PollInv, Safe, Due, Polls, NoFuture
<1> DEFINE w == [node EXCEPT !.woken = TRUE]
<1>3. w \in NodeType /\ w.user = node.user
    BY <1>1 DEF NodeType
<1>4. \A u \in UserType :
          LET m == [w EXCEPT !.user = u]
          IN  /\ m \in NodeType /\ m.deps = node.deps /\ m.polled = node.polled
              /\ m.used = node.used /\ m.outdated = node.outdated /\ m.moved = node.moved
              /\ m.pollWaker = node.pollWaker /\ m.dirty = node.dirty /\ m.woken
              /\ m.awaits = node.awaits /\ m.unsure = node.unsure /\ m.discard = node.discard
              /\ m.user = u
    BY <1>1 DEF NodeType
<1>5. \A u \in UserType : LET m == [w EXCEPT !.user = u]
                          IN  NodeInv(m) /\ Safe(m) /\ m.discard = node.discard /\ m.user = u
  <2> SUFFICES ASSUME NEW u \in UserType
               PROVE  LET m == [w EXCEPT !.user = u]
                      IN  NodeInv(m) /\ Safe(m) /\ m.discard = node.discard /\ m.user = u
      OBVIOUS
  <2> DEFINE m == [w EXCEPT !.user = u]
  <2>1. /\ m \in NodeType /\ m.deps = node.deps /\ m.polled = node.polled
        /\ m.used = node.used /\ m.outdated = node.outdated /\ m.moved = node.moved
        /\ m.pollWaker = node.pollWaker /\ m.dirty = node.dirty /\ m.woken
        /\ m.awaits = node.awaits /\ m.unsure = node.unsure /\ m.discard = node.discard
        /\ m.user = u
      BY <1>4
  <2> HIDE DEF m
  <2> QED
      BY <1>1, <2>1 DEF NodeInv, DepsInv, PollInv, PlainNode, Safe, Polls, m
<1>6. CASE Binds /\ ~node.woken
  <2> DEFINE m == TellOn(w, TRUE)
  <2>1. node' = m
      BY <1>6 DEF TakeRequest, Binds
  <2> HIDE DEF w
  <2>2. /\ m = [w EXCEPT !.user = m.user] /\ m.user \in UserType
        /\ UserInv(m, m.user.queued) /\ UserRest(m.user, m.user.queued)
      BY <1>1, <1>3, <1>6, TellOnInv
  <2> HIDE DEF m
  <2>3. NodeInv(m) /\ Safe(m) /\ m.discard = node.discard
      BY <1>5, <2>2
  <2> QED BY <2>1, <2>2, <2>3
<1>7. CASE Binds /\ node.woken
  <2>1. node' = w /\ w = node
    <3>1. node' = TellOn(w, FALSE)
        BY <1>1, <1>7 DEF TakeRequest, Binds
    <3> QED BY <1>1, <1>7, <3>1 DEF TellOn, NodeType
  <2>2. Safe(node)
      BY <1>7 DEF Safe, Polls
  <2> HIDE DEF w
  <2> QED BY <1>1, <2>1, <2>2
<1>8. CASE ~Binds
  <2>1. kind \in {"future", "stream"}
      BY <1>1, <1>8 DEF KindInv, Binds
  <2>2. CASE node.woken \/ NoFuture(node)
    <3>1. node' = node
        BY <1>8, <2>1, <2>2 DEF TakeRequest, FutureNotified, StreamNotified, Binds
    <3>2. Safe(node)
        BY <2>2 DEF Safe, Polls, NoFuture
    <3> QED BY <1>1, <3>1, <3>2
  <2>3. CASE ~(node.woken \/ NoFuture(node))
    <3>1. PICK l \in DirtyLevel : node' = [w EXCEPT !.user = Tell(node.user, l)]
      <4> DEFINE l == IF kind = "future" THEN MaybeIf("Dirty", filter) ELSE "MaybeDirty"
      <4>1. l \in DirtyLevel
          BY DEF MaybeIf, DirtyLevel
      <4>2. node' = [w EXCEPT !.user = Tell(node.user, l)]
          BY <1>1, <1>8, <2>1, <2>3
          DEF TakeRequest, FutureNotified, StreamNotified, Binds, NodeType
      <4> HIDE DEF l
      <4> QED BY <4>1, <4>2
    <3> DEFINE t == Tell(node.user, l)
               m == [w EXCEPT !.user = t]
    <3>2. /\ t \in UserType /\ UserRest(t, t.queued)
          /\ node.user.bound = "Unbound" => t = node.user
          /\ node.user.bound # "Unbound" => /\ t.bound \in {"MaybeDirty", "Dirty"}
                                            /\ t.dirty # "Clean" /\ t.queued
        BY <1>1, TellInv
    <3>3. node' = m
        BY <3>1
    <3> HIDE DEF t, w
    <3>4. NodeInv(m) /\ Safe(m) /\ m.discard = node.discard /\ m.user = t
        BY <1>5, <3>2
    <3>5. m.woken /\ m.awaits = node.awaits
        BY <1>4, <3>2
    <3> HIDE DEF m
    <3>6. UserInv(m, m.user.queued)
        BY <2>1, <2>3, <3>2, <3>4, <3>5 DEF UserInv, UserRest, Due, NoFuture
    <3> QED BY <3>2, <3>3, <3>4, <3>6
  <2> QED BY <2>2, <2>3
<1> QED BY <1>6, <1>7, <1>8

\* The outcomes of an update are of the type, and fit the kind of node.
LEMMA OutcomesFit ==
    ASSUME NEW o \in Outcomes
    PROVE  OutcomeFor(o)
BY DEF Outcomes, OutcomeFor, OutcomeType, Outcome, PlainOutcome, NoPoll, Reads, Binds

\* The entry of a dependant that is attended is not clean when an update resolves it.
LEMMA ResolvedUser ==
    ASSUME NEW n, NEW m, NodeInv(n), Brings(n, m), UserInv(n, n.user.queued), kind # "effect"
    PROVE  /\ UserInv(m, m.user.queued)
           /\ m.user.dirty = n.user.dirty /\ m.user.queued = n.user.queued
           /\ ~Binds => m.user.bound # "MaybeDirty"
<1>1. n.user \in UserType
    BY DEF NodeInv, NodeType
<1>2. \A b \in BOOLEAN : LET r == Resolve(n.user, b)
                         IN  /\ r.dirty = n.user.dirty /\ r.queued = n.user.queued
                             /\ r.bound # "MaybeDirty"
                             /\ n.user.bound # "MaybeDirty" => r.bound = n.user.bound
                             /\ r.behind => n.user.behind \/ (b /\ n.user.bound # "Unbound")
                             /\ b /\ n.user.bound = "MaybeDirty" => r.bound = "Dirty"
                             /\ n.user.bound = "MaybeDirty" => r.bound \in {"Clean", "Dirty"}
    BY <1>1 DEF Resolve, UserType, FromIsDirty, Entry, Dirty
<1>3. n.user.bound \in {"Clean", "MaybeDirty", "Dirty", "Unbound"}
    BY <1>1 DEF UserType, Entry, Dirty
<1>4. CASE m.user = n.user
    BY <1>4 DEF Brings, UserInv
<1>5. CASE m.user # n.user
  <2>1. PICK b \in BOOLEAN : m.user = Resolve(n.user, b)
      BY <1>5 DEF Brings
  <2>2. ~Due(m) /\ Due(n)
      BY <1>5 DEF Brings
  <2>3. n.user.bound = "Unbound" \/ n.user.bound # "Clean"
      BY <2>2 DEF UserInv
  <2> QED
      BY <1>2, <1>3, <2>1, <2>2, <2>3 DEF UserInv
<1> QED BY <1>4, <1>5

\* The node is read by nobody who binds it.
LEMMA WatchInv ==
    ASSUME AsyncInv, NEW o \in Outcomes, Watch(o)
    PROVE  AsyncInv'
<1>1. /\ panicked = "no" /\ NodeInv(node) /\ UserInv(node, node.user.queued) /\ KindInv
      /\ kind # "effect" /\ node' = Updated(node, o)
      /\ UNCHANGED <<kind, filter, request, panicked>>
    BY UserFacts DEF Watch, AsyncInv
<1>2. Brings(node, node')
    BY <1>1, OutcomesFit, UpdatedInv DEF KindInv
<1>3. UserInv(node', node'.user.queued)
    BY <1>1, <1>2, ResolvedUser
<1>4. KindInv'
    BY <1>1, <1>2 DEF KindInv, Brings
<1> QED
    BY <1>1, <1>2, <1>3, <1>4
    DEF AsyncInv, Brings, NodeInv, PlainNode, UserInv, Binds, DepsInv, PollInv, Safe, Due, Polls,
        NoFuture

\* The reaction of an asynchronous effect.
LEMMA CallEffectInv ==
    ASSUME AsyncInv, NEW o \in Outcomes, CallEffect(o)
    PROVE  AsyncInv'
<1> DEFINE c == Checked(node, o)
           s == IF c.dirty = "Dirty" THEN Started(c) ELSE c
           p == Polled(Settled(s, o), o)
           e == EffectCalled(node, o)
           m == [e EXCEPT !.user = [node.user EXCEPT !.queued = FALSE]]
<1>1. /\ panicked = "no" /\ NodeInv(node) /\ UserInv(node, node.user.queued) /\ KindInv
      /\ kind = "effect" /\ Binds /\ node \in NodeType /\ node.user \in UserType
      /\ UNCHANGED <<kind, filter, request, panicked>>
    BY UserFacts DEF CallEffect, AsyncInv, Binds
<1>2. /\ NodeInv(s) /\ NodeInv(p) /\ ~Due(p) /\ Safe(p)
      /\ NoFuture(s) => ~Due(s) /\ Safe(s)
      /\ s.user = node.user /\ p.user = node.user
      /\ s.discard = node.discard /\ p.discard = node.discard
    BY <1>1, OutcomesFit, BindsUpdatedInv
<1>3. e = IF ~Polls(node) THEN node ELSE IF NoFuture(s) THEN s ELSE p
    BY <1>1 DEF EffectCalled, Polls, NodeType, Dirty
<1> HIDE DEF s, p, e
<1>4. /\ NodeInv(e) /\ ~Due(e) /\ e.user = node.user /\ e.discard = node.discard
      /\ Safe(node) => Safe(e)
    BY <1>1, <1>2, <1>3 DEF Due, Polls
<1>5. node' = m
    BY <1>1, <1>4 DEF CallEffect, e, NodeInv, NodeType
<1>6. /\ m \in NodeType /\ m.deps = e.deps /\ m.polled = e.polled
      /\ m.used = e.used /\ m.outdated = e.outdated /\ m.moved = e.moved
      /\ m.pollWaker = e.pollWaker /\ m.dirty = e.dirty /\ m.woken = e.woken
      /\ m.awaits = e.awaits /\ m.unsure = e.unsure /\ m.discard = e.discard
      /\ m.happened = e.happened
      /\ m.user = [node.user EXCEPT !.queued = FALSE]
    BY <1>1, <1>4 DEF NodeInv, NodeType, UserType
<1> HIDE DEF m
<1>7. NodeInv(m) /\ ~Due(m) /\ (Safe(node) => Safe(m))
    BY <1>4, <1>6 DEF NodeInv, DepsInv, PollInv, PlainNode, Safe, Polls, Due, NoFuture
<1>8. /\ m.user.bound = node.user.bound /\ m.user.dirty = node.user.dirty
      /\ m.user.behind = node.user.behind
    BY <1>1, <1>6 DEF UserType
<1>9. UserInv(m, m.user.queued)
    BY <1>1, <1>7, <1>8 DEF UserInv
<1>10. KindInv'
    BY <1>1, <1>4, <1>5, <1>6, <1>8 DEF KindInv
<1> QED
    BY <1>1, <1>5, <1>7, <1>9, <1>10
    DEF AsyncInv, NodeInv, PlainNode, UserInv, Binds, DepsInv, PollInv, Safe, Due, Polls, NoFuture

\* Another dependant, or another place for its discard, is no matter of the node.
SameNode(n, m) ==
    /\ m.deps = n.deps /\ m.polled = n.polled /\ m.used = n.used /\ m.outdated = n.outdated
    /\ m.moved = n.moved /\ m.pollWaker = n.pollWaker /\ m.dirty = n.dirty
    /\ m.woken = n.woken /\ m.awaits = n.awaits /\ m.unsure = n.unsure
    /\ m.happened = n.happened

\* What the node's dependant does leaves the node itself alone.
LEMMA UserOnly ==
    ASSUME NEW n, NodeInv(n), NEW m \in NodeType, SameNode(n, m)
    PROVE  NodeInv(m) /\ (Safe(m) <=> Safe(n)) /\ (Due(m) <=> Due(n))
BY DEF SameNode, NodeInv, DepsInv, PollInv, PlainNode, Safe, Polls, Due, NoFuture

\* A dependant that reads the node has a clean entry, and the node nothing more to do.
LEMMA ReadByUserInv ==
    ASSUME NEW n, NEW o, NodeInv(n), OutcomeFor(o), kind \in {"signal", "future", "stream"}
    PROVE  LET m == ReadByUser(n, o)
           IN  /\ NodeInv(m) /\ ~Due(m) /\ (Safe(n) => Safe(m))
               /\ kind # "signal" => m.discard = n.discard
               /\ m.user \in UserType /\ m.user.bound = "Clean" /\ ~m.user.behind
<1> DEFINE v == [n.user EXCEPT !.bound = "Clean"]
           b == IF kind = "signal" THEN [n EXCEPT !.user = v, !.discard = n.discard] ELSE n
           x == Updated(b, o)
           u == [x.user EXCEPT !.bound = "Clean", !.behind = FALSE]
           m == [x EXCEPT !.user = u, !.discard = x.discard]
<1>1. n \in NodeType /\ n.user \in UserType /\ n.discard \in BOOLEAN
    BY DEF NodeInv, NodeType
<1>2. v \in UserType
    BY <1>1 DEF UserType, Entry, Dirty
<1>3. NodeInv(b) /\ (Safe(b) <=> Safe(n)) /\ b.discard = n.discard
  <2>1. CASE kind = "signal"
    <3> DEFINE w == [n EXCEPT !.user = v, !.discard = n.discard]
    <3>1. b = w
        BY <2>1
    <3> HIDE DEF v, b
    <3>2. w \in NodeType /\ SameNode(n, w) /\ w.discard = n.discard
        BY <1>1, <1>2 DEF NodeType, SameNode
    <3> HIDE DEF w
    <3>3. NodeInv(w) /\ (Safe(w) <=> Safe(n))
        BY <3>2, UserOnly
    <3> QED BY <3>1, <3>2, <3>3
  <2>2. CASE kind # "signal"
      BY <2>2
  <2> QED BY <2>1, <2>2
<1> HIDE DEF b
<1>4. Brings(b, x)
    BY <1>3, UpdatedInv
<1> HIDE DEF x
<1>5. x \in NodeType /\ x.user \in UserType /\ x.discard \in BOOLEAN
    BY <1>4 DEF Brings, NodeInv, NodeType
<1>6. u \in UserType /\ u.bound = "Clean" /\ ~u.behind
    BY <1>5 DEF UserType, Entry, Dirty
<1> HIDE DEF u
<1>7. NodeInv(m) /\ (Safe(m) <=> Safe(x)) /\ (Due(m) <=> Due(x)) /\ m.user = u /\ m.discard = x.discard
  <2>1. m \in NodeType /\ SameNode(x, m) /\ m.user = u /\ m.discard = x.discard
      BY <1>5, <1>6 DEF NodeType, SameNode
  <2> HIDE DEF m
  <2> QED
      BY <1>4, <2>1, UserOnly DEF Brings
<1>8. ReadByUser(n, o) = m
  <2>1. b = IF kind = "signal" THEN [n EXCEPT !.user.bound = "Clean"] ELSE n
      BY <1>1 DEF b, NodeType
  <2>2. ReadByUser(n, o) = [[x EXCEPT !.user.bound = "Clean"] EXCEPT !.user.behind = FALSE]
      BY <2>1 DEF ReadByUser, ReadSignal, ReadPlain, x
  <2>3. x.user \in UserType
      BY <1>5
  <2> QED
      BY <1>5, <2>2, <2>3 DEF u, NodeType, UserType
<1> HIDE DEF m
<1> QED
    BY <1>3, <1>4, <1>6, <1>7, <1>8 DEF Brings

\* The dependant lets go of the node.
LEMMA UnboundByUserInv ==
    ASSUME NEW n, NodeInv(n)
    PROVE  LET m == UnboundByUser(n)
           IN  /\ NodeInv(m) /\ (Safe(m) <=> Safe(n))
               /\ kind # "signal" => m.discard = n.discard
               /\ m.user \in UserType /\ m.user.bound = "Unbound" /\ ~m.user.behind
<1> DEFINE u == [n.user EXCEPT !.bound = "Unbound", !.behind = FALSE]
           d == n.discard \/ (kind = "signal" /\ n.user.bound # "Unbound")
           m == [n EXCEPT !.user = u, !.discard = d]
<1>1. n \in NodeType /\ n.user \in UserType /\ n.discard \in BOOLEAN
    BY DEF NodeInv, NodeType
<1>2. u \in UserType /\ u.bound = "Unbound" /\ ~u.behind /\ d \in BOOLEAN
      /\ (kind # "signal" => d = n.discard)
    BY <1>1 DEF UserType, Entry, Dirty
<1>3. UnboundByUser(n) = m
    BY <1>1 DEF UnboundByUser, NodeType, UserType
<1> HIDE DEF u, d
<1>4. NodeInv(m) /\ (Safe(m) <=> Safe(n)) /\ m.user = u /\ m.discard = d
  <2>1. m \in NodeType /\ SameNode(n, m) /\ m.user = u /\ m.discard = d
      BY <1>1, <1>2 DEF NodeType, SameNode
  <2> HIDE DEF m
  <2> QED
      BY <2>1, UserOnly
<1> HIDE DEF m
<1> QED BY <1>2, <1>3, <1>4

\* The dependant's reaction: after it the entry is clean or gone.
LEMMA RunUserInv ==
    ASSUME AsyncInv, NEW o \in Outcomes, NEW reads \in BOOLEAN, RunUser(o, reads)
    PROVE  AsyncInv' /\ (~Binds => panicked' = "no")
<1> DEFINE k == CheckedByUser(node, o)
           n == k.node
           due == k.answer
           m == IF due # "Dirty" THEN n ELSE IF reads THEN ReadByUser(n, o) ELSE UnboundByUser(n)
           u == [m.user EXCEPT !.dirty = "Clean", !.queued = FALSE]
           z == [m EXCEPT !.user = u, !.discard = m.discard]
<1>1. /\ panicked = "no" /\ NodeInv(node) /\ UserInv(node, node.user.queued) /\ KindInv
      /\ kind # "effect" /\ kind \in {"signal", "future", "stream"} /\ OutcomeFor(o)
      /\ node.user \in UserType
      /\ node' = AfterRun(o, reads).after /\ panicked' = AfterRun(o, reads).panicked
      /\ UNCHANGED <<kind, filter, request>>
    BY UserFacts, OutcomesFit DEF RunUser, AsyncInv, KindInv
<1>2. /\ NodeInv(n) /\ UserInv(n, n.user.queued) /\ (Safe(node) => Safe(n))
      /\ kind # "signal" => n.discard = node.discard
      /\ due \in {"Clean", "MaybeDirty", "Dirty", "Unbound"}
      /\ due # "Dirty" => due = n.user.bound /\ ~Due(n)
      /\ due = "MaybeDirty" => Binds
  <2>1. CASE node.user.dirty # "MaybeDirty"
    <3>1. n = node /\ due = "Dirty"
        BY <2>1 DEF CheckedByUser
    <3> HIDE DEF n, due
    <3> QED BY <1>1, <3>1
  <2>2. CASE node.user.dirty = "MaybeDirty"
    <3> DEFINE x == Updated(node, o)
    <3>1. n = x /\ due = x.user.bound
        BY <2>2 DEF CheckedByUser
    <3> HIDE DEF n, due
    <3>2. Brings(node, x)
        BY <1>1, UpdatedInv
    <3> HIDE DEF x
    <3>3. UserInv(x, x.user.queued) /\ (~Binds => x.user.bound # "MaybeDirty")
        BY <1>1, <3>2, ResolvedUser
    <3>4. x.user.bound \in {"Clean", "MaybeDirty", "Dirty", "Unbound"}
        BY <3>2 DEF Brings, NodeInv, NodeType, UserType, Entry, Dirty
    <3> QED BY <3>1, <3>2, <3>3, <3>4 DEF Brings
  <2> QED BY <2>1, <2>2
<1> HIDE DEF n, due
<1>3. /\ NodeInv(m) /\ (Safe(node) => Safe(m)) /\ m.user \in UserType /\ m.discard \in BOOLEAN
      /\ kind # "signal" => m.discard = node.discard
      /\ due # "MaybeDirty" => /\ m.user.bound \in {"Clean", "Unbound"} /\ ~m.user.behind
                               /\ Due(m) => m.user.bound = "Unbound"
  <2>1. CASE due # "Dirty"
    <3>1. m = n
        BY <2>1
    <3> HIDE DEF m
    <3> QED
        BY <1>2, <2>1, <3>1 DEF UserInv, NodeInv, NodeType, UserType
  <2>2. CASE due = "Dirty" /\ reads
    <3> DEFINE x == ReadByUser(n, o)
    <3>1. m = x
        BY <2>2
    <3>2. /\ NodeInv(x) /\ ~Due(x) /\ (Safe(n) => Safe(x))
          /\ kind # "signal" => x.discard = n.discard
          /\ x.user \in UserType /\ x.user.bound = "Clean" /\ ~x.user.behind
        BY <1>1, <1>2, ReadByUserInv
    <3> HIDE DEF m, x
    <3> QED
        BY <1>2, <3>1, <3>2 DEF NodeInv, NodeType
  <2>3. CASE due = "Dirty" /\ ~reads
    <3> DEFINE x == UnboundByUser(n)
    <3>1. m = x
        BY <2>3
    <3>2. /\ NodeInv(x) /\ (Safe(x) <=> Safe(n))
          /\ kind # "signal" => x.discard = n.discard
          /\ x.user \in UserType /\ x.user.bound = "Unbound" /\ ~x.user.behind
        BY <1>2, UnboundByUserInv
    <3> HIDE DEF m, x
    <3> QED
        BY <1>2, <3>1, <3>2 DEF NodeInv, NodeType
  <2> QED BY <2>1, <2>2, <2>3
<1>4. /\ AfterRun(o, reads).after = z
      /\ AfterRun(o, reads).panicked = IF due = "MaybeDirty" THEN "asked" ELSE "no"
  <2>1. m = IF due # "Dirty" THEN n ELSE IF reads THEN ReadByUser(n, o) ELSE UnboundByUser(n)
      BY DEF m
  <2> HIDE DEF m
  <2>2. /\ AfterRun(o, reads).after = [m EXCEPT !.user.dirty = "Clean", !.user.queued = FALSE]
        /\ AfterRun(o, reads).panicked = IF due = "MaybeDirty" THEN "asked" ELSE "no"
      BY <2>1 DEF AfterRun, n, due
  <2>3. [m EXCEPT !.user.dirty = "Clean", !.user.queued = FALSE] = z
      BY <1>3 DEF NodeInv, NodeType, UserType
  <2> QED BY <2>2, <2>3
<1> HIDE DEF m
<1>5. /\ u \in UserType /\ u.bound = m.user.bound /\ u.behind = m.user.behind
      /\ u.dirty = "Clean"
    BY <1>3 DEF UserType, Dirty
<1> HIDE DEF u
<1>6. NodeInv(z) /\ (Safe(z) <=> Safe(m)) /\ (Due(z) <=> Due(m)) /\ z.user = u /\ z.discard = m.discard
  <2>1. z \in NodeType /\ SameNode(m, z) /\ z.user = u /\ z.discard = m.discard
      BY <1>3, <1>5 DEF NodeInv, NodeType, SameNode
  <2> HIDE DEF z
  <2> QED
      BY <1>3, <2>1, UserOnly
<1> HIDE DEF z
<1>7. due # "MaybeDirty" => UserInv(z, z.user.queued)
    BY <1>1, <1>3, <1>5, <1>6 DEF UserInv
<1>8. KindInv'
    BY <1>1, <1>3, <1>4, <1>6 DEF KindInv
<1>9. AsyncInv'
  <2>1. node' = z /\ (panicked' = "no" => due # "MaybeDirty")
      BY <1>1, <1>4
  <2>2. NodeInv(node') /\ (Safe(node) => Safe(node'))
      BY <1>3, <1>6, <2>1
  <2>3. panicked' = "no" => UserInv(node', node'.user.queued)
      BY <1>7, <2>1
  <2> QED
      BY <1>1, <1>8, <2>2, <2>3
      DEF AsyncInv, NodeInv, PlainNode, UserInv, Binds, DepsInv, PollInv, Safe, Due, Polls,
          NoFuture
<1> QED
    BY <1>1, <1>2, <1>4, <1>9

\* The runtime discards a node that nobody binds any more.
LEMMA DiscardInv ==
    ASSUME AsyncInv, Discard
    PROVE  AsyncInv'
<1>1. /\ panicked = "no" /\ NodeInv(node) /\ UserInv(node, node.user.queued) /\ KindInv
      /\ node \in NodeType /\ node.user \in UserType /\ kind = "signal" /\ Binds
      /\ UNCHANGED <<kind, filter, request, panicked>>
    BY UserFacts DEF Discard, AsyncInv, KindInv, Binds
<1>2. SUFFICES /\ NodeInv(node') /\ (Safe(node) => Safe(node'))
               /\ UserInv(node', node'.user.queued)
  <2>1. KindInv'
      BY <1>1 DEF KindInv
  <2> QED
      BY <1>1, <1>2, <2>1
      DEF AsyncInv, NodeInv, PlainNode, UserInv, Binds, DepsInv, PollInv, Safe, Due, Polls, NoFuture
<1>3. CASE node.user.bound # "Unbound"
  <2> DEFINE m == [node EXCEPT !.user = node.user, !.discard = FALSE]
  <2>1. node' = m
      BY <1>1, <1>3 DEF Discard, NodeType
  <2>2. m \in NodeType /\ SameNode(node, m) /\ m.user = node.user
      BY <1>1 DEF NodeType, SameNode
  <2> HIDE DEF m
  <2>3. NodeInv(m) /\ (Safe(m) <=> Safe(node)) /\ (Due(m) <=> Due(node))
      BY <1>1, <2>2, UserOnly
  <2> QED
      BY <1>1, <2>1, <2>2, <2>3 DEF UserInv
<1>4. CASE node.user.bound = "Unbound"
  <2> DEFINE a == IF NoFuture(node) THEN node.awaits ELSE "none"
             m == [node EXCEPT !.discard = FALSE, !.dirty = "Dirty", !.deps = NotBound,
                               !.awaits = a, !.happened = FALSE, !.used = {}, !.outdated = {}]
  <2>1. node' = m
      BY <1>1, <1>4 DEF Discard, NodeType
  <2>2. a \in {"never", "none"} /\ NotBound \in [Source -> Entry]
      BY DEF NoFuture, NotBound, Entry, Dirty
  <2> HIDE DEF a
  <2>3. /\ m \in NodeType /\ m.deps = NotBound /\ m.polled = node.polled
        /\ m.used = {} /\ m.outdated = {} /\ m.moved = node.moved
        /\ m.pollWaker = node.pollWaker /\ m.dirty = "Dirty"
        /\ m.awaits = a /\ m.unsure = node.unsure /\ m.user = node.user
      BY <1>1, <2>2 DEF NodeType, Dirty
  <2> HIDE DEF m
  <2>4. NodeInv(m) /\ Safe(m)
      BY <1>1, <2>2, <2>3, SourceAssumption
      DEF NodeInv, DepsInv, PollInv, PlainNode, Safe, Polls, NotBound
  <2>5. UserInv(m, m.user.queued)
      BY <1>1, <1>4, <2>3 DEF UserInv
  <2> QED BY <2>1, <2>4, <2>5
<1> QED BY <1>3, <1>4

-----------------------------------------------------------------------------
(* Theorems. *)

\* Every step keeps the invariant.
LEMMA NextAsyncInv == AsyncInv /\ PlainInv /\ [Next]_vars => AsyncInv' /\ PlainInv'
<1> SUFFICES ASSUME AsyncInv, PlainInv, [Next]_vars PROVE AsyncInv' /\ PlainInv'
    OBVIOUS
<1>1. ASSUME NEW s \in Source, SourceChanges(s) PROVE AsyncInv' /\ PlainInv'
    BY <1>1, SourceChangesInv DEF SourceChanges, PlainInv, Binds
<1>2. CASE MemoNotified
    BY <1>2, MemoNotifiedInv DEF MemoNotified, PlainInv, Binds
<1>3. ASSUME NEW changed \in BOOLEAN, MemoRead(changed) PROVE AsyncInv' /\ PlainInv'
    BY <1>3, MemoReadInv DEF MemoRead, PlainInv, Binds
<1>4. ASSUME NEW event \in BOOLEAN, Wake(event) PROVE AsyncInv' /\ PlainInv'
    BY <1>4, WakeInv DEF Wake, PlainInv, Binds
<1>5. CASE TakeRequest
    BY <1>5, TakeRequestInv DEF TakeRequest, PlainInv, Binds
<1>6. ASSUME NEW o \in Outcomes, Watch(o) PROVE AsyncInv' /\ PlainInv'
    BY <1>6, WatchInv DEF Watch, PlainInv, Binds
<1>7. ASSUME NEW o \in Outcomes, CallEffect(o) PROVE AsyncInv' /\ PlainInv'
    BY <1>7, CallEffectInv DEF CallEffect, PlainInv, Binds
<1>8. ASSUME NEW o \in Outcomes, NEW reads \in BOOLEAN, RunUser(o, reads)
      PROVE  AsyncInv' /\ PlainInv'
  <2>1. AsyncInv' /\ (~Binds => panicked' = "no")
      BY <1>8, RunUserInv
  <2>2. Binds' = Binds
      BY <1>8 DEF RunUser, Binds
  <2> QED BY <2>1, <2>2 DEF PlainInv
<1>9. CASE Discard
    BY <1>9, DiscardInv DEF Discard, PlainInv, Binds
<1>10. CASE UNCHANGED vars
    BY <1>10
    DEF vars, AsyncInv, KindInv, NodeInv, PlainNode, PlainInv, UserInv, Binds, DepsInv, PollInv,
        Safe, Due, Polls, NoFuture
<1> QED
    BY <1>1, <1>2, <1>3, <1>4, <1>5, <1>6, <1>7, <1>8, <1>9, <1>10 DEF Next

\* The inductive invariant of a node that polls, for any sources, futures and environment.
THEOREM SpecAsyncInv == Spec => [](AsyncInv /\ PlainInv)
<1>1. Init => AsyncInv /\ PlainInv
    BY InitAsyncInv DEF Init, PlainInv
<1> QED
    BY <1>1, NextAsyncInv, PTL DEF Spec

\* What the theorems below use of the inductive invariant.
LEMMA AsyncFacts ==
    ASSUME AsyncInv
    PROVE  /\ node \in NodeType /\ DepsInv(node) /\ PollInv(node) /\ (request \/ Safe(node))
           /\ panicked = "no" /\ Due(node) => Attended
BY DEF AsyncInv, NodeInv, UserInv, Attended

\* A future that has read something that changed since will start anew, and is asked to:
\* its node is dirty, and its dependant queued (or it has none).
THEOREM SpecOutdatedIsKnown == Spec => []OutdatedIsKnown
<1>1. ASSUME AsyncInv PROVE OutdatedIsKnown
  <2>1. ASSUME node.outdated # {} PROVE node.dirty # "Clean"
    <3>1. PICK s \in node.outdated : TRUE
        BY <2>1
    <3>2. s \in Source /\ node.deps[s] = "Dirty"
        BY <1>1, <3>1, AsyncFacts DEF NodeType, DepsInv
    <3> QED
        BY <1>1, <3>2, AsyncFacts DEF DepsInv
  <2> QED
      BY <1>1, <2>1, AsyncFacts DEF OutdatedIsKnown, Due
<1> QED
    BY <1>1, SpecAsyncInv, PTL

\* What a future waits for is not lost, whoever calls which waker when, and whatever the
\* sources of a pending poll_fn do.
THEOREM SpecWakesAreKept == Spec => []WakesAreKept
<1>1. ASSUME AsyncInv PROVE WakesAreKept
  <2>1. node.awaits = "source" /\ node.moved # {} => ~node.pollWaker
      BY <1>1, AsyncFacts DEF PollInv
  <2>2. node.awaits \in {"event", "source"} /\ Polls(node) => Due(node)
      BY DEF Polls, Due, NoFuture
  <2> QED
      BY <1>1, <2>1, <2>2, AsyncFacts DEF WakesAreKept, Safe, Polls
<1> QED
    BY <1>1, SpecAsyncInv, PTL

\* A dependant that is not queued has seen the last change that the scan reported.
THEOREM SpecDependantIsCurrent == Spec => []DependantIsCurrent
<1>1. ASSUME AsyncInv PROVE DependantIsCurrent
  <2>1. panicked = "no" => UserInv(node, node.user.queued) /\ KindInv
      BY <1>1 DEF AsyncInv
  <2> QED
      BY <2>1 DEF DependantIsCurrent, UserInv, KindInv
<1> QED
    BY <1>1, SpecAsyncInv, PTL

\* FutureScanNode and StreamScanNode answer every dependant that asks: the assertion of
\* SinkBindings::is_dirty, which ScanAsyncNode runs into, holds for them.
THEOREM SpecPlainNodesAnswer == Spec => [](kind \in {"future", "stream"} => AskedOnceResolved)
<1>1. ASSUME PlainInv PROVE kind \in {"future", "stream"} => AskedOnceResolved
    BY <1>1 DEF PlainInv, Binds, AskedOnceResolved
<1> QED
    BY <1>1, SpecAsyncInv, PTL
=============================================================================
