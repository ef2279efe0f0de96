-------------------------- MODULE ChangeFeedProofs --------------------------
(***************************************************************************)
(* The reference counts of a change feed, for any collection, any readers  *)
(* and ages of any width: every reader is counted once at the age it has   *)
(* read up to (ReadersAreCounted), so that compact never fails and never   *)
(* releases a change that somebody has yet to read; and what it put off    *)
(* while the history was borrowed is made up for by the last borrow        *)
(* (CompactionCatchesUp).  The slab holds what the collection and the      *)
(* retained changes need and nothing else (SlabHoldsWhatIsNamed), for      *)
(* every collection that keeps to a contract, and StateVec and the slab    *)
(* map do.                                                                 *)
(*                                                                         *)
(* FeedInv says of a history, a queue and cursors what ReadersAreCounted   *)
(* says of the variables, so that it can be followed through the calls of  *)
(* one action; SlabInv does the same for the slab.                         *)
(***************************************************************************)
EXTENDS ChangeFeed, VecModel, SlabModel, CommonLemmas

Counts == [inc : Nat, incAt : [Age -> Nat], dec : [Age -> Nat]]
Cursors == [Reader -> Age \cup {NoCursor, Gone}]
Histories(D, M) ==
    [base : Age, items : Seq([data : D, refs : Nat]), endRefs : Nat, cur : M]
DataOf(h) == {h.items[i].data : i \in DOMAIN h.items}

\* A history and an item are made of their parts.
OfParts(h) ==
    h = [base |-> h.base, items |-> h.items, endRefs |-> h.endRefs, cur |-> h.cur]
OfDataAndRefs(x) == x = [data |-> x.data, refs |-> x.refs]
IsList(s, n) == s = [i \in 1 .. n |-> s[i]]

\* The readers at an age, the count of the age with index i, and what is queued for an age.
At(cur, a) == {r \in Reader : cur[r] = a}
Held(h, i) == IF i = Len(h.items) THEN h.endRefs ELSE h.items[i + 1].refs
Queued(h, q, a) ==
    q.incAt[a] - q.dec[a] + IF IndexOf(h, a) = Len(h.items) THEN q.inc ELSE 0

CountedAt(h, q, cur, a) ==
    IF IndexOf(h, a) <= Len(h.items)
    THEN Cardinality(At(cur, a)) = Held(h, IndexOf(h, a)) + Queued(h, q, a)
    ELSE At(cur, a) = {} /\ q.incAt[a] = 0 /\ q.dec[a] = 0

FeedInv(h, q, cur) ==
    /\ h \in Histories(DataOf(h), {h.cur}) /\ Len(h.items) <= MaxHistory
    /\ q \in Counts /\ cur \in Cursors
    /\ \A a \in Age : CountedAt(h, q, cur, a)

\* An edit pushes changes before the end, where no reader may be queued.
StorageInv ==
    /\ FeedInv(history, ops, cursor)
    /\ guards \subseteq [kind : {"read", "peek", "current", "plain"}, by : Reader \cup {Nobody}]
    /\ editing \in BOOLEAN
    /\ editing => guards = {} /\ ops.inc = 0

-----------------------------------------------------------------------------
(* Ages. *)

\* The indices of the ages from a base, which wrap.
LEMMA AgeIndices ==
    ASSUME NEW b \in Age
    PROVE  /\ \A a \in Age : WrapSub(a, b) \in 0 .. AgeMod - 1 /\ WrapAdd(b, WrapSub(a, b)) = a
           /\ \A i \in 0 .. AgeMod - 1 : WrapAdd(b, i) \in Age /\ WrapSub(WrapAdd(b, i), b) = i
BY FeedAssumption DEF Age, WrapAdd, WrapSub

\* The indices from a base that is k ages later.
LEMMA AgeRebased ==
    ASSUME NEW b \in Age, NEW k \in 0 .. AgeMod - 1, NEW a \in Age
    PROVE  WrapSub(a, WrapAdd(b, k)) = IF k <= WrapSub(a, b) THEN WrapSub(a, b) - k
                                       ELSE WrapSub(a, b) - k + AgeMod
BY FeedAssumption DEF Age, WrapAdd, WrapSub

\* The history covers its ages once each.
LEMMA HistoryAges ==
    ASSUME NEW D, NEW M, NEW h \in Histories(D, M), Len(h.items) <= MaxHistory
    PROVE  /\ \A a \in Age : IndexOf(h, a) \in 0 .. AgeMod - 1 /\ AgeAt(h, IndexOf(h, a)) = a
           /\ \A i \in 0 .. Len(h.items) : AgeAt(h, i) \in Age /\ IndexOf(h, AgeAt(h, i)) = i
<1>1. /\ Len(h.items) \in Nat /\ h.base \in Age /\ h.items \in Seq([data : D, refs : Nat])
      /\ DOMAIN h.items = 1 .. Len(h.items)
    BY DEF Histories
<1>2. Len(h.items) < AgeMod /\ AgeMod \in Nat
    BY <1>1, FeedAssumption
<1>3. /\ \A a \in Age : IndexOf(h, a) \in 0 .. AgeMod - 1 /\ AgeAt(h, IndexOf(h, a)) = a
      /\ \A i \in 0 .. AgeMod - 1 : AgeAt(h, i) \in Age /\ IndexOf(h, AgeAt(h, i)) = i
    BY <1>1, AgeIndices DEF IndexOf, AgeAt
<1>4. \A i \in 0 .. Len(h.items) : i \in 0 .. AgeMod - 1
    BY <1>1, <1>2
<1> QED
    BY <1>1, <1>2, <1>3, <1>4

\* The end of the history is the age after the last of its items.
LEMMA HistoryEnd ==
    ASSUME NEW D, NEW M, NEW h \in Histories(D, M), Len(h.items) <= MaxHistory
    PROVE  /\ EndAge(h) \in Age /\ IndexOf(h, EndAge(h)) = Len(h.items)
           /\ \A a \in Age : IndexOf(h, a) = Len(h.items) => a = EndAge(h)
<1>1. Len(h.items) \in 0 .. Len(h.items)
    BY DEF Histories
<1> QED
    BY <1>1, HistoryAges DEF EndAge

\* The parts of a history and of its items.
LEMMA HistoryParts ==
    ASSUME NEW D, NEW M, NEW h \in Histories(D, M)
    PROVE  /\ h.items \in Seq([data : D, refs : Nat]) /\ h.base \in Age /\ h.endRefs \in Nat
           /\ h.cur \in M /\ Len(h.items) \in Nat /\ DOMAIN h.items = 1 .. Len(h.items)
           /\ OfParts(h)
           /\ \A i \in 1 .. Len(h.items) :
                 h.items[i].data \in D /\ h.items[i].refs \in Nat /\ OfDataAndRefs(h.items[i])
<1> DEFINE T == [data : D, refs : Nat]
<1>1. /\ h.items \in Seq(T) /\ h.base \in Age /\ h.endRefs \in Nat /\ h.cur \in M
      /\ OfParts(h)
    BY DEF Histories, OfParts
<1>2. \A x \in T : x.data \in D /\ x.refs \in Nat /\ OfDataAndRefs(x)
    BY DEF OfDataAndRefs
<1> HIDE DEF T
<1>3. /\ Len(h.items) \in Nat /\ DOMAIN h.items = 1 .. Len(h.items)
      /\ \A i \in 1 .. Len(h.items) : h.items[i] \in T
    BY <1>1
<1> QED
    BY <1>1, <1>2, <1>3 DEF T

\* Only the data that is there matters.
LEMMA OwnData ==
    ASSUME NEW D, NEW M, NEW h \in Histories(D, M)
    PROVE  h \in Histories(DataOf(h), {h.cur})
<1> DEFINE T == [data : DataOf(h), refs : Nat]
<1>1. /\ h.items \in Seq([data : D, refs : Nat]) /\ h.base \in Age /\ h.endRefs \in Nat
      /\ OfParts(h) /\ Len(h.items) \in Nat /\ DOMAIN h.items = 1 .. Len(h.items)
    BY HistoryParts
<1>2. ASSUME NEW i \in 1 .. Len(h.items)
      PROVE  h.items[i] \in T
  <2>1. h.items[i].data \in DataOf(h)
      BY <1>1 DEF DataOf
  <2>2. h.items[i].refs \in Nat /\ OfDataAndRefs(h.items[i])
      BY HistoryParts
  <2> QED
      BY <2>1, <2>2 DEF OfDataAndRefs
<1>3. h.items \in Seq(T)
  <2> HIDE DEF T
  <2> QED
      BY <1>1, <1>2
<1> QED
    BY <1>1, <1>3 DEF Histories, OfParts

\* More data may be there.
LEMMA MoreData ==
    ASSUME NEW D, NEW E, D \subseteq E, NEW M, NEW h \in Histories(D, M)
    PROVE  h \in Histories(E, M)
<1> DEFINE S == [data : D, refs : Nat]
           T == [data : E, refs : Nat]
<1>1. /\ h.items \in Seq(S) /\ h.base \in Age /\ h.endRefs \in Nat /\ h.cur \in M
      /\ OfParts(h)
    BY HistoryParts
<1>2. S \subseteq T
    OBVIOUS
<1>3. h.items \in Seq(T)
  <2> HIDE DEF S, T
  <2> QED
      BY <1>1, <1>2
<1> QED
    BY <1>1, <1>3 DEF Histories, OfParts

-----------------------------------------------------------------------------
(* Readers. *)

\* One reader goes from an age to another.
LEMMA ReaderMoves ==
    ASSUME NEW cur \in Cursors, NEW r \in Reader, NEW d \in Age \cup {NoCursor, Gone}
    PROVE  LET new == [cur EXCEPT ![r] = d]
           IN  /\ new \in Cursors
               /\ \A a \in Age : /\ Cardinality(At(cur, a)) \in Nat
                                 /\ Cardinality(At(new, a)) = Cardinality(At(cur, a))
                                       + (IF d = a THEN 1 ELSE 0)
                                       - (IF cur[r] = a THEN 1 ELSE 0)
                                 /\ d # a /\ At(cur, a) = {} => At(new, a) = {}
<1> DEFINE new == [cur EXCEPT ![r] = d]
<1>1. new \in Cursors /\ \A p \in Reader : new[p] = IF p = r THEN d ELSE cur[p]
    BY DEF Cursors
<1> HIDE DEF new
<1>2. ASSUME NEW a \in Age
      PROVE  /\ Cardinality(At(cur, a)) \in Nat
             /\ Cardinality(At(new, a)) = Cardinality(At(cur, a))
                   + (IF d = a THEN 1 ELSE 0) - (IF cur[r] = a THEN 1 ELSE 0)
             /\ d # a /\ At(cur, a) = {} => At(new, a) = {}
  <2>1. At(cur, a) \in SUBSET Reader /\ At(new, a) \in SUBSET Reader
      BY DEF At
  <2> DEFINE S == At(cur, a)
             T == At(new, a)
  <2>2. IsFiniteSet(S) /\ IsFiniteSet(T)
      BY <2>1, FS_Subset, FeedAssumption
  <2>3. /\ d # a => T = S \ {r}
        /\ d = a => T = S \cup {r}
        /\ r \in S <=> cur[r] = a
      BY <1>1 DEF At
  <2> HIDE DEF S, T
  <2>4. Cardinality(S) \in Nat
      BY <2>2, FS_CardinalityType
  <2>5. Cardinality(T) = Cardinality(S) + (IF d = a THEN 1 ELSE 0) - (IF cur[r] = a THEN 1 ELSE 0)
    <3>1. CASE d = a
        BY <2>2, <2>3, <2>4, <3>1, FS_AddElement
    <3>2. CASE d # a
        BY <2>2, <2>3, <2>4, <3>2, FS_RemoveElement
    <3> QED
        BY <3>1, <3>2
  <2>6. d # a /\ S = {} => T = {}
      BY <2>3
  <2> QED
      BY <2>4, <2>5, <2>6 DEF S, T
<1> QED
    BY <1>1, <1>2 DEF new

\* A reader is at an age of the history.
LEMMA ReadersAreInside ==
    ASSUME NEW h, NEW q, NEW cur, FeedInv(h, q, cur), NEW r \in Reader, cur[r] \in Age
    PROVE  IndexOf(h, cur[r]) <= Len(h.items)
BY DEF FeedInv, CountedAt, At

\* The cursor of r becomes d, and what is queued says so.
LEMMA ReaderMovesInv ==
    ASSUME NEW h, NEW q, NEW cur, FeedInv(h, q, cur), NEW r \in Reader,
           NEW d \in Age \cup {NoCursor, Gone}, NEW p \in Counts,
           \A a \in Age :
               IF IndexOf(h, a) <= Len(h.items)
               THEN Queued(h, p, a) = Queued(h, q, a) + (IF d = a THEN 1 ELSE 0)
                                                      - (IF cur[r] = a THEN 1 ELSE 0)
               ELSE d # a /\ p.incAt[a] = q.incAt[a] /\ p.dec[a] = q.dec[a]
    PROVE  FeedInv(h, p, [cur EXCEPT ![r] = d])
<1> DEFINE new == [cur EXCEPT ![r] = d]
<1>1. /\ h \in Histories(DataOf(h), {h.cur}) /\ Len(h.items) <= MaxHistory
      /\ cur \in Cursors /\ q \in Counts /\ \A a \in Age : CountedAt(h, q, cur, a)
    BY DEF FeedInv
<1>2. /\ new \in Cursors
      /\ \A a \in Age : /\ Cardinality(At(cur, a)) \in Nat
                        /\ Cardinality(At(new, a)) = Cardinality(At(cur, a))
                              + (IF d = a THEN 1 ELSE 0) - (IF cur[r] = a THEN 1 ELSE 0)
                        /\ d # a /\ At(cur, a) = {} => At(new, a) = {}
    BY <1>1, ReaderMoves
<1> HIDE DEF new
<1>3. ASSUME NEW a \in Age
      PROVE  CountedAt(h, p, new, a)
  <2>1. CountedAt(h, q, cur, a)
      BY <1>1
  <2>2. Queued(h, q, a) \in Int
      BY <1>1 DEF Queued, Counts
  <2>3. CASE IndexOf(h, a) <= Len(h.items)
    <3>1. Cardinality(At(cur, a)) = Held(h, IndexOf(h, a)) + Queued(h, q, a)
        BY <2>1, <2>3 DEF CountedAt
    <3>2. Held(h, IndexOf(h, a)) \in Int
      <4>1. IndexOf(h, a) \in 0 .. AgeMod - 1 /\ AgeMod \in Nat
          BY <1>1, HistoryAges, FeedAssumption
      <4>2. /\ h.endRefs \in Nat /\ Len(h.items) \in Nat
            /\ \A i \in 1 .. Len(h.items) : h.items[i].refs \in Nat
          BY <1>1, HistoryParts
      <4> QED
          BY <2>3, <4>1, <4>2 DEF Held
    <3>3. Queued(h, p, a) = Queued(h, q, a) + (IF d = a THEN 1 ELSE 0)
                                            - (IF cur[r] = a THEN 1 ELSE 0)
        BY <2>3
    <3>4. Cardinality(At(new, a)) = Held(h, IndexOf(h, a)) + Queued(h, p, a)
        BY <1>2, <2>2, <3>1, <3>2, <3>3
    <3> QED
        BY <2>3, <3>4 DEF CountedAt
  <2>4. CASE ~(IndexOf(h, a) <= Len(h.items))
      BY <1>2, <2>1, <2>4 DEF CountedAt
  <2> QED
      BY <2>3, <2>4
<1> QED
    BY <1>1, <1>2, <1>3 DEF FeedInv, new

-----------------------------------------------------------------------------
(* compact. *)

\* Adding to the counts of a history changes nothing else of it.
LEMMA RecountedIs ==
    ASSUME NEW D, NEW M, NEW h \in Histories(D, M), NEW by
    PROVE  LET new == Recounted(h, by)
           IN  /\ Len(new.items) = Len(h.items) /\ new.base = h.base /\ new.cur = h.cur
               /\ IsList(new.items, Len(h.items))
               /\ new.endRefs = h.endRefs + by[EndAge(h)]
               /\ OfParts(new)
               /\ \A i \in 1 .. Len(h.items) :
                     /\ OfDataAndRefs(new.items[i]) /\ new.items[i].data = h.items[i].data
                     /\ new.items[i].refs = h.items[i].refs + by[AgeAt(h, i - 1)]
<1> DEFINE items == [i \in DOMAIN h.items |->
                        [h.items[i] EXCEPT !.refs = @ + by[AgeAt(h, i - 1)]]]
<1>1. Len(h.items) \in Nat /\ DOMAIN h.items = 1 .. Len(h.items) /\ OfParts(h)
    BY HistoryParts
<1>2. Recounted(h, by) = [base |-> h.base, items |-> items,
                          endRefs |-> h.endRefs + by[EndAge(h)], cur |-> h.cur]
  <2>1. Recounted(h, by) = [h EXCEPT !.items = items, !.endRefs = h.endRefs + by[EndAge(h)]]
      BY <1>1 DEF Recounted, OfParts
  <2> HIDE DEF items
  <2> QED
      BY <1>1, <2>1 DEF OfParts
<1>3. Len(items) = Len(h.items) /\ IsList(items, Len(h.items))
    BY <1>1 DEF IsList
<1>4. ASSUME NEW i \in 1 .. Len(h.items)
      PROVE  /\ OfDataAndRefs(items[i]) /\ items[i].data = h.items[i].data
             /\ items[i].refs = h.items[i].refs + by[AgeAt(h, i - 1)]
  <2>1. OfDataAndRefs(h.items[i])
      BY HistoryParts
  <2> QED
      BY <1>1, <2>1 DEF OfDataAndRefs
<1> HIDE DEF items
<1> QED
    BY <1>2, <1>3, <1>4 DEF OfParts

\* Taking in the queue leaves every reader counted where it is.
LEMMA AppliedInv ==
    ASSUME NEW h, NEW q, NEW cur, FeedInv(h, q, cur)
    PROVE  FeedInv(Applied(h, q), NoOps, cur)
<1> DEFINE D == DataOf(h)
           M == {h.cur}
           by == [a \in Age |-> q.incAt[a] - q.dec[a]]
<1>1. /\ h \in Histories(D, M) /\ Len(h.items) <= MaxHistory
      /\ q \in Counts /\ cur \in Cursors /\ \A a \in Age : CountedAt(h, q, cur, a)
    BY DEF FeedInv
<1> HIDE DEF D, M
<1>2. /\ Len(h.items) \in Nat /\ DOMAIN h.items = 1 .. Len(h.items) /\ OfParts(h)
      /\ h.base \in Age /\ h.endRefs \in Nat /\ h.cur \in M
      /\ h.items \in Seq([data : D, refs : Nat])
      /\ \A i \in 1 .. Len(h.items) : h.items[i].data \in D /\ h.items[i].refs \in Nat
    BY <1>1, HistoryParts
<1>0. /\ \A a \in Age : IndexOf(h, a) \in 0 .. AgeMod - 1 /\ AgeAt(h, IndexOf(h, a)) = a
      /\ \A i \in 0 .. Len(h.items) : AgeAt(h, i) \in Age /\ IndexOf(h, AgeAt(h, i)) = i
    BY <1>1, HistoryAges
<1>3. PICK h1 : h1 = [h EXCEPT !.endRefs = @ + q.inc]
    OBVIOUS
<1>4. /\ h1 \in Histories(D, M) /\ h1.items = h.items /\ h1.base = h.base /\ h1.cur = h.cur
      /\ h1.endRefs = h.endRefs + q.inc
  <2>1. h1 = [base |-> h.base, items |-> h.items, endRefs |-> h.endRefs + q.inc, cur |-> h.cur]
      BY <1>2, <1>3 DEF OfParts
  <2>2. h.endRefs + q.inc \in Nat
      BY <1>1, <1>2 DEF Counts
  <2> QED
      BY <1>2, <2>1, <2>2 DEF Histories
<1>5. PICK n : n = Recounted(h1, by)
    OBVIOUS
<1>6. n = Applied(h, q)
    BY <1>3, <1>5 DEF Applied
<1>7. /\ \A i : AgeAt(h1, i) = AgeAt(h, i)
      /\ EndAge(h1) = EndAge(h)
    BY <1>4 DEF AgeAt, EndAge
<1>8. /\ Len(n.items) = Len(h.items) /\ n.base = h.base /\ n.cur = h.cur
      /\ IsList(n.items, Len(h.items))
      /\ n.endRefs = h1.endRefs + by[EndAge(h)]
      /\ OfParts(n)
      /\ \A i \in 1 .. Len(h.items) :
            /\ OfDataAndRefs(n.items[i]) /\ n.items[i].data = h.items[i].data
            /\ n.items[i].refs = h.items[i].refs + by[AgeAt(h, i - 1)]
    BY <1>4, <1>5, <1>7, RecountedIs
<1>9. \A a : IndexOf(n, a) = IndexOf(h, a)
    BY <1>8 DEF IndexOf
<1>10. \A a \in Age : by[a] = q.incAt[a] - q.dec[a] /\ q.incAt[a] \in Nat /\ q.dec[a] \in Nat
                      /\ q.inc \in Nat
    BY <1>1 DEF Counts
<1> HIDE DEF by
<1>11. ASSUME NEW i \in 0 .. Len(h.items)
       PROVE  /\ Held(n, i) = Cardinality(At(cur, AgeAt(h, i)))
              /\ Held(n, i) \in Nat
  <2>1. PICK a \in Age : a = AgeAt(h, i) /\ IndexOf(h, a) = i
      BY <1>0
  <2>2. Cardinality(At(cur, a)) = Held(h, i) + Queued(h, q, a)
      BY <1>1, <1>2, <2>1 DEF CountedAt
  <2>3. Cardinality(At(cur, a)) \in Nat
    <3>1. At(cur, a) \in SUBSET Reader
        BY DEF At
    <3> QED
        BY <3>1, FS_Subset, FS_CardinalityType, FeedAssumption
  <2>4. Held(n, i) = Held(h, i) + Queued(h, q, a)
    <3>1. CASE i = Len(h.items)
      <4>1. Held(n, i) = h.endRefs + q.inc + by[a] /\ Held(h, i) = h.endRefs
          BY <1>4, <1>8, <2>1, <3>1 DEF Held, EndAge
      <4> QED
          BY <1>2, <1>10, <2>1, <3>1, <4>1 DEF Queued
    <3>2. CASE i # Len(h.items)
      <4>1. i + 1 \in 1 .. Len(h.items) /\ (i + 1) - 1 = i
          BY <1>2, <3>2
      <4>2. n.items[i + 1].refs = h.items[i + 1].refs + by[a]
        <5>1. PICK j \in 1 .. Len(h.items) : j = i + 1 /\ j - 1 = i
            BY <4>1
        <5>2. n.items[j].refs = h.items[j].refs + by[AgeAt(h, j - 1)]
            BY <1>8
        <5> QED
            BY <2>1, <5>1, <5>2
      <4>3. Held(n, i) = Held(h, i) + by[a]
          BY <1>8, <3>2, <4>2 DEF Held
      <4> QED
          BY <1>10, <2>1, <3>2, <4>3 DEF Queued
    <3> QED
        BY <3>1, <3>2
  <2> QED
      BY <2>1, <2>2, <2>3, <2>4
<1>12. n \in Histories(D, M)
  <2>1. ASSUME NEW i \in 1 .. Len(h.items)
        PROVE  n.items[i] \in [data : D, refs : Nat]
    <3>1. i - 1 \in 0 .. Len(h.items) /\ i - 1 # Len(h.items) /\ (i - 1) + 1 = i
        BY <1>2
    <3>2. Held(n, i - 1) = n.items[i].refs
        BY <1>8, <3>1 DEF Held
    <3>3. n.items[i].refs \in Nat
        BY <1>11, <3>1, <3>2
    <3>4. n.items[i] = [data |-> h.items[i].data, refs |-> n.items[i].refs]
        BY <1>8 DEF OfDataAndRefs
    <3> QED
        BY <1>2, <3>3, <3>4
  <2>2. n.items \in Seq([data : D, refs : Nat])
    <3> DEFINE T == [data : D, refs : Nat]
    <3>1. \A i \in 1 .. Len(h.items) : n.items[i] \in T
        BY <2>1
    <3> HIDE DEF T
    <3>2. [i \in 1 .. Len(h.items) |-> n.items[i]] \in Seq(T)
        BY <1>2, <3>1
    <3> QED
        BY <1>8, <3>2 DEF T, IsList
  <2>3. n.endRefs \in Nat
    <3>1. Len(h.items) \in 0 .. Len(h.items) /\ Held(n, Len(h.items)) = n.endRefs
        BY <1>2, <1>8 DEF Held
    <3> QED
        BY <1>11, <3>1
  <2> QED
      BY <1>2, <1>8, <2>2, <2>3 DEF Histories, OfParts
<1>13. ASSUME NEW a \in Age
       PROVE  CountedAt(n, NoOps, cur, a)
  <2>1. Queued(n, NoOps, a) = 0
      BY DEF Queued, NoOps
  <2>2. IndexOf(h, a) \in 0 .. AgeMod - 1 /\ AgeAt(h, IndexOf(h, a)) = a /\ AgeMod \in Nat
      BY <1>0, FeedAssumption
  <2>3. CASE IndexOf(h, a) <= Len(h.items)
    <3>1. IndexOf(h, a) \in 0 .. Len(h.items)
        BY <1>2, <2>2, <2>3
    <3>2. Held(n, IndexOf(h, a)) = Cardinality(At(cur, a)) /\ Held(n, IndexOf(h, a)) \in Nat
        BY <1>11, <2>2, <3>1
    <3> QED
        BY <1>8, <1>9, <2>1, <2>3, <3>2 DEF CountedAt
  <2>4. CASE ~(IndexOf(h, a) <= Len(h.items))
      BY <1>1, <1>8, <1>9, <2>4 DEF CountedAt, NoOps
  <2> QED
      BY <2>3, <2>4
<1>14. n \in Histories(DataOf(n), {n.cur})
    BY <1>12, OwnData
<1>15. NoOps \in Counts
    BY DEF NoOps, Counts
<1> QED
    BY <1>1, <1>6, <1>8, <1>13, <1>14, <1>15 DEF FeedInv

\* There is a first item that somebody refers to, or none.
LEMMA LeadingIs ==
    ASSUME NEW D, NEW M, NEW h \in Histories(D, M)
    PROVE  /\ Leading(h) \in 0 .. Len(h.items)
           /\ \A i \in 1 .. Leading(h) : h.items[i].refs = 0
           /\ Leading(h) < Len(h.items) => h.items[Leading(h) + 1].refs # 0
<1> DEFINE P(k) == /\ \A i \in 1 .. k : h.items[i].refs = 0
                   /\ k < Len(h.items) => h.items[k + 1].refs # 0
           T == {k \in 0 .. Len(h.items) : k < Len(h.items) => h.items[k + 1].refs # 0}
<1>1. Len(h.items) \in Nat
    BY HistoryParts
<1>2. T \in SUBSET Nat /\ Len(h.items) \in T
    BY <1>1
<1>3. PICK k \in T : \A j \in T : k <= j
    BY <1>2, LeastNat
<1>4. ASSUME NEW i \in 1 .. k
      PROVE  h.items[i].refs = 0
  <2>1. i - 1 \in 0 .. Len(h.items) /\ i - 1 < Len(h.items) /\ (i - 1) + 1 = i /\ ~(k <= i - 1)
      BY <1>1, <1>2
  <2>2. i - 1 \notin T
      BY <1>3, <2>1
  <2> QED
      BY <2>1, <2>2
<1>5. k \in 0 .. Len(h.items) /\ P(k)
    BY <1>4
<1>6. Leading(h) = CHOOSE j \in 0 .. Len(h.items) : P(j)
    BY DEF Leading
<1>7. Leading(h) \in 0 .. Len(h.items) /\ P(Leading(h))
  <2> HIDE DEF P
  <2> QED
      BY <1>5, <1>6
<1> QED
    BY <1>7

\* The oldest item left is one that somebody has yet to read.
OldestIsAwaited(h) == h.items # <<>> => h.items[1].refs > 0

\* The items of n are those of h from the k-th on.
TakesSuffix(n, h, k) == \A i \in 1 .. Len(n.items) : n.items[i] = h.items[k + i]

\* What clean leaves of a history.
LEMMA CleanedIs ==
    ASSUME NEW D, NEW M, NEW h \in Histories(D, M)
    PROVE  /\ Cleaned(h).base = WrapAdd(h.base, Leading(h)) /\ Cleaned(h).endRefs = h.endRefs
           /\ OfParts(Cleaned(h)) /\ Cleaned(h).items \in Seq([data : D, refs : Nat])
           /\ Leading(h) + Len(Cleaned(h).items) = Len(h.items)
           /\ TakesSuffix(Cleaned(h), h, Leading(h))
<1>1. PICK k, n : k = Leading(h) /\ n = Cleaned(h)
    OBVIOUS
<1>2. PICK cur : cur = ReleasedUpTo(h, k)
    OBVIOUS
<1>3. OfParts(h) /\ h.items \in Seq([data : D, refs : Nat]) /\ Len(h.items) \in Nat
    BY HistoryParts
<1>4. k \in 0 .. Len(h.items)
    BY <1>1, LeadingIs
<1>5. n = [base |-> WrapAdd(h.base, k), items |-> SubSeq(h.items, k + 1, Len(h.items)),
           endRefs |-> h.endRefs, cur |-> cur]
  <2>1. n = [h EXCEPT !.base = WrapAdd(h.base, k),
                      !.items = SubSeq(h.items, k + 1, Len(h.items)), !.cur = cur]
      BY <1>1, <1>2, <1>3 DEF Cleaned, OfParts
  <2> QED
      BY <1>3, <2>1 DEF OfParts
<1> DEFINE T == [data : D, refs : Nat]
<1>6. h.items \in Seq(T)
    BY <1>3
<1> HIDE DEF T
<1>7. PICK items : items = SubSeq(h.items, k + 1, Len(h.items))
    OBVIOUS
<1>8. /\ items \in Seq(T) /\ Len(items) = Len(h.items) - k
      /\ \A i \in 1 .. Len(h.items) - k : items[i] = h.items[k + i]
  <2>1. PICK s \in Seq(T) : s = h.items
      BY <1>6
  <2>2. Len(s) \in Nat /\ k \in 0 .. Len(s) /\ items = SubSeq(s, k + 1, Len(s))
      BY <1>3, <1>4, <1>7, <2>1
  <2>3. items \in Seq(T)
      BY <2>2
  <2>4. Len(items) = Len(s) - k
      BY <2>2
  <2>5. \A i \in 1 .. Len(s) - k : items[i] = s[k + i]
      BY <2>2
  <2> QED
      BY <2>1, <2>3, <2>4, <2>5
<1>9. k + Len(items) = Len(h.items)
    BY <1>3, <1>4, <1>8
<1> QED
    BY <1>1, <1>5, <1>7, <1>8, <1>9 DEF OfParts, T, TakesSuffix

\* clean takes away what nobody is before, and nothing else.
LEMMA CleanedInv ==
    ASSUME NEW h, NEW cur, FeedInv(h, NoOps, cur)
    PROVE  FeedInv(Cleaned(h), NoOps, cur) /\ OldestIsAwaited(Cleaned(h))
<1> DEFINE D == DataOf(h)
           M == {h.cur}
<1>1. /\ h \in Histories(D, M) /\ Len(h.items) <= MaxHistory
      /\ NoOps \in Counts /\ cur \in Cursors /\ \A a \in Age : CountedAt(h, NoOps, cur, a)
    BY DEF FeedInv
<1> HIDE DEF D, M
<1>2. PICK k : k = Leading(h)
    OBVIOUS
<1>3. PICK n : n = Cleaned(h)
    OBVIOUS
<1>4. /\ Len(h.items) \in Nat /\ h.base \in Age /\ h.endRefs \in Nat
      /\ \A i \in 1 .. Len(h.items) : h.items[i].refs \in Nat
    BY <1>1, HistoryParts
<1>5. /\ k \in 0 .. Len(h.items) /\ \A i \in 1 .. k : h.items[i].refs = 0
      /\ k < Len(h.items) => h.items[k + 1].refs # 0
    BY <1>1, <1>2, LeadingIs
<1>6. /\ n.base = WrapAdd(h.base, k) /\ n.endRefs = h.endRefs /\ OfParts(n)
      /\ n.items \in Seq([data : D, refs : Nat]) /\ Len(n.items) = Len(h.items) - k
      /\ \A i \in 1 .. Len(h.items) - k : n.items[i].refs = h.items[k + i].refs
  <2>1. /\ Cleaned(h).base = WrapAdd(h.base, Leading(h)) /\ Cleaned(h).endRefs = h.endRefs
        /\ OfParts(Cleaned(h)) /\ Cleaned(h).items \in Seq([data : D, refs : Nat])
        /\ Leading(h) + Len(Cleaned(h).items) = Len(h.items)
        /\ TakesSuffix(Cleaned(h), h, Leading(h))
      BY <1>1, CleanedIs
  <2>2. /\ n.base = WrapAdd(h.base, k) /\ n.endRefs = h.endRefs /\ OfParts(n)
        /\ n.items \in Seq([data : D, refs : Nat]) /\ k + Len(n.items) = Len(h.items)
        /\ TakesSuffix(n, h, k)
      BY <1>2, <1>3, <2>1
  <2> DEFINE T == [data : D, refs : Nat]
  <2>3. n.items \in Seq(T)
      BY <2>2
  <2> HIDE DEF T
  <2>4. Len(n.items) \in Nat
      BY <2>3
  <2>5. Len(n.items) = Len(h.items) - k
      BY <1>4, <1>5, <2>2, <2>4
  <2>6. \A i \in 1 .. Len(h.items) - k : n.items[i].refs = h.items[k + i].refs
      BY <2>2, <2>5 DEF TakesSuffix
  <2> QED
      BY <2>2, <2>5, <2>6
<1>7. k \in 0 .. AgeMod - 1 /\ Len(h.items) < AgeMod /\ AgeMod \in Nat
    BY <1>1, <1>4, <1>5, FeedAssumption
<1>8. n.base \in Age
    BY <1>4, <1>6, <1>7, AgeIndices
<1>9. n \in Histories(DataOf(n), {n.cur}) /\ Len(n.items) <= MaxHistory
  <2>1. n \in Histories(D, {n.cur})
      BY <1>4, <1>6, <1>8 DEF Histories, OfParts
  <2>2. Len(n.items) <= MaxHistory
      BY <1>1, <1>4, <1>5, <1>6, FeedAssumption
  <2> QED
      BY <2>1, <2>2, OwnData
<1>10. ASSUME NEW a \in Age
       PROVE  CountedAt(n, NoOps, cur, a)
  <2>1. PICK i : i = IndexOf(h, a)
      OBVIOUS
  <2>2. i \in 0 .. AgeMod - 1
      BY <1>1, <2>1, HistoryAges
  <2>3. IndexOf(n, a) = IF k <= i THEN i - k ELSE i - k + AgeMod
      BY <1>4, <1>6, <1>7, <2>1, AgeRebased DEF IndexOf
  <2>4. \A x : Queued(x, NoOps, a) = 0 /\ NoOps.incAt[a] = 0 /\ NoOps.dec[a] = 0
      BY DEF Queued, NoOps
  <2>5. CountedAt(h, NoOps, cur, a)
      BY <1>1
  <2>6. CASE k <= i /\ i <= Len(h.items)
    <3>1. Held(n, i - k) = Held(h, i)
      <4>1. CASE i = Len(h.items)
          BY <1>4, <1>5, <1>6, <4>1 DEF Held
      <4>2. CASE i # Len(h.items)
        <5>0. i - k + 1 \in 1 .. Len(h.items) - k /\ k + (i - k + 1) = i + 1
            BY <1>4, <1>5, <2>2, <2>6, <4>2
        <5>1. PICK j \in 1 .. Len(h.items) - k : j = i - k + 1 /\ k + j = i + 1
            BY <5>0
        <5>2. n.items[j].refs = h.items[k + j].refs
            BY <1>6
        <5>3. i - k # Len(n.items)
            BY <1>4, <1>5, <1>6, <2>2, <4>2
        <5> QED
            BY <4>2, <5>1, <5>2, <5>3 DEF Held
      <4> QED
          BY <4>1, <4>2
    <3>2. Cardinality(At(cur, a)) = Held(h, i) + 0
        BY <2>1, <2>4, <2>5, <2>6 DEF CountedAt
    <3>3. IndexOf(n, a) = i - k /\ i - k <= Len(n.items)
        BY <1>4, <1>5, <1>6, <2>2, <2>3, <2>6
    <3> QED
        BY <2>4, <3>1, <3>2, <3>3 DEF CountedAt
  <2>7. CASE ~(k <= i /\ i <= Len(h.items))
    <3>1. At(cur, a) = {}
      <4>1. CASE i <= Len(h.items)
        <5>1. i + 1 \in 1 .. k /\ i # Len(h.items)
            BY <1>4, <1>5, <2>2, <2>7, <4>1
        <5>2. Held(h, i) = 0
            BY <1>5, <5>1 DEF Held
        <5>3. Cardinality(At(cur, a)) = 0 + 0
            BY <2>1, <2>4, <2>5, <4>1, <5>2 DEF CountedAt
        <5>4. At(cur, a) \in SUBSET Reader
            BY DEF At
        <5> QED
            BY <5>3, <5>4, FS_Subset, FS_EmptySet, FeedAssumption
      <4>2. CASE ~(i <= Len(h.items))
          BY <2>1, <2>5, <4>2 DEF CountedAt
      <4> QED
          BY <4>1, <4>2
    <3>2. ~(IndexOf(n, a) <= Len(n.items))
        BY <1>4, <1>5, <1>6, <1>7, <2>2, <2>3, <2>7
    <3> QED
        BY <2>4, <3>1, <3>2 DEF CountedAt
  <2> QED
      BY <2>6, <2>7
<1>11. OldestIsAwaited(n)
  <2>1. CASE k < Len(h.items)
    <3>1. 1 \in 1 .. Len(h.items) - k /\ k + 1 \in 1 .. Len(h.items)
        BY <1>4, <1>5, <2>1
    <3>2. n.items[1].refs = h.items[k + 1].refs
        BY <1>6, <3>1
    <3> QED
        BY <1>4, <1>5, <2>1, <3>1, <3>2 DEF OldestIsAwaited
  <2>2. CASE ~(k < Len(h.items))
    <3>1. Len(n.items) = 0
        BY <1>4, <1>5, <1>6, <2>2
    <3>2. n.items = <<>>
      <4> DEFINE T == [data : D, refs : Nat]
      <4>1. n.items \in Seq(T)
          BY <1>6
      <4> HIDE DEF T
      <4> QED
          BY <3>1, <4>1
    <3> QED
        BY <3>2 DEF OldestIsAwaited
  <2> QED
      BY <2>1, <2>2
<1> QED
    BY <1>1, <1>3, <1>9, <1>10, <1>11 DEF FeedInv

\* compact, wherever it is called.
LEMMA CompactedInv ==
    ASSUME NEW h, NEW q, NEW cur, FeedInv(h, q, cur), NEW free \in BOOLEAN
    PROVE  LET c == Compacted([h |-> h, q |-> q], free)
           IN  /\ FeedInv(c.h, c.q, cur)
               /\ free => c.q = NoOps /\ OldestIsAwaited(c.h)
               /\ ~free => c.h = h /\ c.q = q
BY AppliedInv, CleanedInv DEF Compacted

-----------------------------------------------------------------------------
(* Recorded changes. *)

\* A change is added after the others.
LEMMA PushedIs ==
    ASSUME NEW D, NEW M, NEW h \in Histories(D, M), NEW c \in D
    PROVE  /\ Pushed(h, c) \in Histories(D, M)
           /\ Pushed(h, c).base = h.base /\ Pushed(h, c).endRefs = 0
           /\ Len(Pushed(h, c).items) = Len(h.items) + 1
           /\ \A i \in 0 .. Len(h.items) : Held(Pushed(h, c), i) = Held(h, i)
<1>1. /\ h.items \in Seq([data : D, refs : Nat]) /\ h.base \in Age /\ h.endRefs \in Nat
      /\ h.cur \in M /\ Len(h.items) \in Nat /\ OfParts(h)
    BY HistoryParts
<1>2. PICK x \in [data : D, refs : Nat] : x = [data |-> c, refs |-> h.endRefs]
    BY <1>1
<1> DEFINE T == [data : D, refs : Nat]
<1>3. PICK s \in Seq(T) : s = h.items
    BY <1>1
<1>4. x \in T /\ x.refs = h.endRefs
    BY <1>2
<1>5. PICK n : n = Pushed(h, c)
    OBVIOUS
<1>6. n = [base |-> h.base, items |-> Append(s, x), endRefs |-> 0, cur |-> h.cur]
    BY <1>1, <1>2, <1>3, <1>5 DEF Pushed, OfParts
<1> HIDE DEF T
<1>7. PICK items \in Seq(T) : items = Append(s, x)
  <2>1. Append(s, x) \in Seq(T)
      BY <1>3, <1>4
  <2> QED
      BY <2>1
<1>8. /\ Len(items) = Len(s) + 1 /\ items[Len(s) + 1] = x
      /\ \A i \in 1 .. Len(s) : items[i] = s[i]
    BY <1>3, <1>4, <1>7
<1>9. n \in Histories(D, M)
    BY <1>1, <1>6, <1>7 DEF Histories, T
<1>10. ASSUME NEW i \in 0 .. Len(h.items)
       PROVE  Held(n, i) = Held(h, i)
  <2>1. i # Len(n.items)
      BY <1>1, <1>3, <1>6, <1>7, <1>8
  <2>2. CASE i = Len(h.items)
      BY <1>3, <1>4, <1>6, <1>7, <1>8, <2>1, <2>2 DEF Held
  <2>3. CASE i # Len(h.items)
    <3>1. PICK j \in 1 .. Len(s) : j = i + 1
        BY <1>1, <1>3, <2>3
    <3>2. items[j] = s[j]
        BY <1>8
    <3> QED
        BY <1>3, <1>6, <1>7, <2>1, <2>3, <3>1, <3>2 DEF Held
  <2> QED
      BY <2>2, <2>3
<1>11. n.base = h.base /\ n.endRefs = 0 /\ Len(n.items) = Len(h.items) + 1
    BY <1>3, <1>6, <1>7, <1>8
<1> QED
    BY <1>5, <1>9, <1>10, <1>11

\* Nobody is at the new end.
LEMMA PushedInv ==
    ASSUME NEW h, NEW q, NEW cur, FeedInv(h, q, cur), q.inc = 0,
           Len(h.items) + 1 <= MaxHistory, NEW c
    PROVE  FeedInv(Pushed(h, c), q, cur) /\ Len(Pushed(h, c).items) = Len(h.items) + 1
<1> DEFINE D == DataOf(h) \cup {c}
           M == {h.cur}
<1>1. /\ h \in Histories(DataOf(h), M) /\ Len(h.items) <= MaxHistory
      /\ q \in Counts /\ cur \in Cursors /\ \A a \in Age : CountedAt(h, q, cur, a)
    BY DEF FeedInv
<1>2. h \in Histories(D, M) /\ c \in D
    BY <1>1, MoreData
<1> HIDE DEF D, M
<1>3. PICK n : n = Pushed(h, c)
    OBVIOUS
<1>4. /\ n \in Histories(D, M) /\ n.base = h.base /\ n.endRefs = 0
      /\ Len(n.items) = Len(h.items) + 1
      /\ \A i \in 0 .. Len(h.items) : Held(n, i) = Held(h, i)
    BY <1>2, <1>3, PushedIs
<1>5. n \in Histories(DataOf(n), {n.cur}) /\ Len(n.items) <= MaxHistory
    BY <1>4, OwnData
<1>6. Len(h.items) \in Nat /\ AgeMod \in Nat
    BY <1>1, HistoryParts, FeedAssumption
<1>7. ASSUME NEW a \in Age
      PROVE  CountedAt(n, q, cur, a)
  <2>1. IndexOf(n, a) = IndexOf(h, a) /\ IndexOf(h, a) \in 0 .. AgeMod - 1
      BY <1>1, <1>4, HistoryAges DEF IndexOf
  <2>2. CountedAt(h, q, cur, a) /\ q.incAt[a] \in Nat /\ q.dec[a] \in Nat
      BY <1>1 DEF Counts
  <2>3. Queued(n, q, a) = q.incAt[a] - q.dec[a] /\ Queued(h, q, a) = q.incAt[a] - q.dec[a]
      BY <2>2 DEF Queued
  <2>4. CASE IndexOf(h, a) <= Len(h.items)
    <3>1. IndexOf(h, a) \in 0 .. Len(h.items) /\ IndexOf(n, a) <= Len(n.items)
        BY <1>4, <1>6, <2>1, <2>4
    <3>2. Held(n, IndexOf(n, a)) = Held(h, IndexOf(h, a))
        BY <1>4, <2>1, <3>1
    <3> QED
        BY <2>2, <2>3, <2>4, <3>1, <3>2 DEF CountedAt
  <2>5. CASE ~(IndexOf(h, a) <= Len(h.items))
    <3>1. At(cur, a) = {} /\ q.incAt[a] = 0 /\ q.dec[a] = 0
        BY <2>2, <2>5 DEF CountedAt
    <3>2. CASE IndexOf(n, a) = Len(n.items)
      <4>1. Held(n, IndexOf(n, a)) = 0
          BY <1>4, <3>2 DEF Held
      <4>2. Cardinality(At(cur, a)) = 0
          BY <3>1, FS_EmptySet
      <4> QED
          BY <2>3, <3>1, <3>2, <4>1, <4>2 DEF CountedAt
    <3>3. CASE IndexOf(n, a) # Len(n.items)
      <4>1. ~(IndexOf(n, a) <= Len(n.items))
          BY <1>4, <1>6, <2>1, <2>5, <3>3
      <4> QED
          BY <3>1, <4>1 DEF CountedAt
    <3> QED
        BY <3>2, <3>3
  <2> QED
      BY <2>4, <2>5
<1> QED
    BY <1>1, <1>3, <1>4, <1>5, <1>7 DEF FeedInv

\* The model that an edit changes is not what is counted.
LEMMA EditedInv ==
    ASSUME NEW h, NEW q, NEW cur, FeedInv(h, q, cur), NEW m,
           NEW n, n = [h EXCEPT !.cur = m]
    PROVE  FeedInv(n, q, cur) /\ n.items = h.items
<1>1. /\ h \in Histories(DataOf(h), {h.cur}) /\ Len(h.items) <= MaxHistory
      /\ q \in Counts /\ cur \in Cursors /\ \A a \in Age : CountedAt(h, q, cur, a)
    BY DEF FeedInv
<1>2. /\ h.items \in Seq([data : DataOf(h), refs : Nat]) /\ h.base \in Age /\ h.endRefs \in Nat
      /\ OfParts(h)
    BY <1>1, HistoryParts
<1>3. n = [base |-> h.base, items |-> h.items, endRefs |-> h.endRefs, cur |-> m]
    BY <1>2 DEF OfParts
<1>4. n \in Histories(DataOf(h), {m})
    BY <1>2, <1>3 DEF Histories
<1>5. n \in Histories(DataOf(n), {n.cur})
    BY <1>4, OwnData
<1>6. n.items = h.items /\ n.base = h.base /\ n.endRefs = h.endRefs
    BY <1>3
<1>7. \A a \in Age : CountedAt(n, q, cur, a)
    BY <1>1, <1>6 DEF CountedAt, Held, Queued, IndexOf
<1> QED
    BY <1>1, <1>5, <1>6, <1>7 DEF FeedInv

\* f gives what the history h is after each of the changes.
PushesAre(h, changes, f) ==
    f = [i \in 0 .. Len(changes) |-> IF i = 0 THEN h ELSE Pushed(f[i - 1], changes[i])]

\* There is such a function, and PushedAll is its last value.
LEMMA PushesExist ==
    ASSUME NEW D, NEW M, NEW h \in Histories(D, M), NEW changes, Len(changes) \in Nat,
           \A i \in 1 .. Len(changes) : changes[i] \in D
    PROVE  \E f : PushesAre(h, changes, f) /\ PushedAll(h, changes) = f[Len(changes)]
<1> DEFINE n == Len(changes)
           X == Histories(D, M)
           F == [p \in X \X (1 .. n) |-> Pushed(p[1], changes[p[2]])]
           G == CHOOSE f : PushesAre(h, changes, f)
<1>1. F \in [X \X (1 .. n) -> X]
    BY PushedIs
<1>2. PICK f : Recursive(f, X, h, n, F)
  <2> HIDE DEF F, n, X
  <2>1. h \in X /\ n \in Nat
      BY DEF X, n
  <2> QED
      BY <1>1, <2>1, NatRecursion, Zenon
<1>3. /\ f \in [0 .. n -> X] /\ f[0] = h
      /\ \A i \in 1 .. n : f[i] = Pushed(f[i - 1], changes[i])
  <2>1. /\ f \in [0 .. n -> X] /\ f[0] = h
        /\ \A i \in 1 .. n : f[i] = F[<<f[i - 1], i>>]
      BY <1>2 DEF Recursive
  <2> HIDE DEF X
  <2>2. \A i \in 1 .. n : f[i - 1] \in X
      BY <2>1
  <2> QED
      BY <2>1, <2>2
<1>4. PushesAre(h, changes, f)
  <2> HIDE DEF X
  <2>1. \A i \in 0 .. n : f[i] = IF i = 0 THEN h ELSE Pushed(f[i - 1], changes[i])
    <3>1. \A i \in 0 .. n : i = 0 \/ i \in 1 .. n
        OBVIOUS
    <3>2. \A i \in 1 .. n : i # 0
        OBVIOUS
    <3> HIDE DEF n
    <3> QED
        BY <1>3, <3>1, <3>2
  <2>2. f = [i \in 0 .. n |-> f[i]]
      BY <1>3
  <2> QED
      BY <2>1, <2>2 DEF PushesAre
<1>5. PushesAre(h, changes, G)
    BY <1>4
<1>6. PushedAll(h, changes) = G[n]
    BY DEF PushedAll, PushesAre
<1> QED
    BY <1>5, <1>6

\* An edit leaves every reader before what it records.
LEMMA PushedAllInv ==
    ASSUME NEW h, NEW q, NEW cur, FeedInv(h, q, cur), q.inc = 0,
           NEW changes, Len(changes) \in 0 .. MaxHistory - Len(h.items)
    PROVE  FeedInv(PushedAll(h, changes), q, cur)
<1> DEFINE n == Len(changes)
           D == DataOf(h) \cup {changes[i] : i \in 1 .. n}
<1>1. h \in Histories(DataOf(h), {h.cur}) /\ Len(h.items) \in Nat /\ n \in Nat
  <2>1. h \in Histories(DataOf(h), {h.cur})
      BY DEF FeedInv
  <2>2. Len(h.items) \in Nat
      BY <2>1, HistoryParts
  <2> QED
      BY <2>1, <2>2, FeedAssumption
<1>2. h \in Histories(D, {h.cur}) /\ \A i \in 1 .. n : changes[i] \in D
  <2>1. DataOf(h) \subseteq D /\ \A i \in 1 .. n : changes[i] \in D
      OBVIOUS
  <2> HIDE DEF D
  <2> QED
      BY <1>1, <2>1, MoreData
<1> HIDE DEF D
<1>3. PICK f : PushesAre(h, changes, f) /\ PushedAll(h, changes) = f[n]
    BY <1>1, <1>2, PushesExist
<1>4. \A i \in 0 .. n : f[i] = IF i = 0 THEN h ELSE Pushed(f[i - 1], changes[i])
    BY <1>3 DEF PushesAre
<1> DEFINE T == {i \in Nat : i <= n => FeedInv(f[i], q, cur) /\ Len(f[i].items) = Len(h.items) + i}
<1>5. 0 \in T
    BY <1>1, <1>4
<1>6. ASSUME NEW i \in T
      PROVE  i + 1 \in T
  <2>1. i \in Nat /\ i + 1 \in Nat /\ (i + 1) - 1 = i /\ i + 1 # 0 /\ (i + 1 <= n => i <= n)
      BY <1>1
  <2>2. ASSUME i + 1 <= n
        PROVE  FeedInv(f[i + 1], q, cur) /\ Len(f[i + 1].items) = Len(h.items) + (i + 1)
    <3>1. PICK p, m, c : p = f[i] /\ m = f[i + 1] /\ c = changes[i + 1]
        OBVIOUS
    <3>2. FeedInv(p, q, cur) /\ Len(p.items) = Len(h.items) + i
        BY <2>1, <2>2, <3>1
    <3>3. m = Pushed(p, c)
        BY <1>1, <1>4, <2>1, <2>2, <3>1
    <3>4. Len(p.items) + 1 <= MaxHistory
        BY <1>1, <2>1, <2>2, <3>2, FeedAssumption
    <3>5. FeedInv(m, q, cur) /\ Len(m.items) = Len(p.items) + 1
        BY <3>2, <3>3, <3>4, PushedInv
    <3>6. Len(m.items) = Len(h.items) + (i + 1)
      <4>1. PICK k \in Nat : k = Len(h.items)
          BY <1>1
      <4>2. (k + i) + 1 = k + (i + 1)
          BY <2>1
      <4>3. Len(p.items) = k + i /\ Len(m.items) = Len(p.items) + 1
          BY <3>2, <3>5, <4>1
      <4> QED
          BY <4>1, <4>2, <4>3
    <3> QED
        BY <3>1, <3>5, <3>6
  <2> QED
      BY <2>1, <2>2
<1>7. T = Nat
  <2>1. T \in SUBSET Nat
      OBVIOUS
  <2> HIDE DEF T
  <2> QED
      BY <1>5, <1>6, <2>1, NatSetInduction
<1>8. n \in T
    BY <1>1, <1>7
<1> QED
    BY <1>1, <1>3, <1>8

-----------------------------------------------------------------------------
(* The actions. *)

\* All that happens to the history, except when an edit records changes.
OnlyCompacts ==
    \E q, cur : \E free \in BOOLEAN :
        FeedInv(history, q, cur) /\ history' = Compacted([h |-> history, q |-> q], free).h

LEMMA HistoryStays ==
    ASSUME FeedInv(history, ops, cursor), history' = history
    PROVE  OnlyCompacts
BY DEF OnlyCompacts, Compacted

\* p is the queue q with i more increments and d more decrements at age c.
Counted(p, q, c, i, d) ==
    /\ p \in Counts /\ p.inc = q.inc
    /\ \A a \in Age : /\ p.incAt[a] = q.incAt[a] + (IF a = c THEN i ELSE 0)
                      /\ p.dec[a] = q.dec[a] + (IF a = c THEN d ELSE 0)

\* A count change that is queued.
LEMMA QueueIs ==
    ASSUME NEW q \in Counts, NEW c \in Age
    PROVE  Counted(Inc(q, c), q, c, 1, 0) /\ Counted(Dec(q, c), q, c, 0, 1)
BY DEF Inc, Dec, Counts, Counted

\* What it does to the balance of an age.
LEMMA QueuedIs ==
    ASSUME NEW q \in Counts, NEW p \in Counts, NEW h, NEW a \in Age, NEW i \in Int, NEW j \in Int,
           NEW k \in Int, p.inc = q.inc + k, p.incAt[a] = q.incAt[a] + i, p.dec[a] = q.dec[a] + j
    PROVE  Queued(h, p, a) = Queued(h, q, a) + i - j
                             + (IF IndexOf(h, a) = Len(h.items) THEN k ELSE 0)
<1>1. PICK x \in Nat, y \in Nat, z \in Nat : x = q.incAt[a] /\ y = q.dec[a] /\ z = q.inc
    BY DEF Counts
<1>2. p.incAt[a] = x + i /\ p.dec[a] = y + j /\ p.inc = z + k
    BY <1>1
<1>3. CASE IndexOf(h, a) = Len(h.items)
  <2>1. Queued(h, q, a) = x - y + z /\ Queued(h, p, a) = (x + i) - (y + j) + (z + k)
      BY <1>1, <1>2, <1>3 DEF Queued
  <2> QED
      BY <1>3, <2>1
<1>4. CASE IndexOf(h, a) # Len(h.items)
  <2>1. Queued(h, q, a) = x - y + 0 /\ Queued(h, p, a) = (x + i) - (y + j) + 0
      BY <1>1, <1>2, <1>4 DEF Queued
  <2> QED
      BY <1>4, <2>1
<1> QED
    BY <1>3, <1>4

\* A reader starts without a cursor.
LEMMA NewReaderInv ==
    ASSUME StorageInv, NEW r \in Reader, NewReader(r)
    PROVE  StorageInv' /\ OnlyCompacts
<1>1. /\ FeedInv(history, ops, cursor) /\ cursor[r] = Gone
      /\ cursor' = [cursor EXCEPT ![r] = NoCursor]
      /\ UNCHANGED <<history, ops, guards, editing>>
    BY DEF StorageInv, NewReader, Alive
<1>2. ops \in Counts
    BY <1>1 DEF FeedInv
<1>3. \A a \in Age : NoCursor # a /\ cursor[r] # a
    BY <1>1, FeedAssumption
<1>4. \A a \in Age : Queued(history, ops, a) \in Int
    BY <1>2 DEF Queued, Counts
<1>5. \A a \in Age :
          IF IndexOf(history, a) <= Len(history.items)
          THEN Queued(history, ops, a) = Queued(history, ops, a)
                                         + (IF NoCursor = a THEN 1 ELSE 0)
                                         - (IF cursor[r] = a THEN 1 ELSE 0)
          ELSE /\ NoCursor # a /\ ops.incAt[a] = ops.incAt[a] /\ ops.dec[a] = ops.dec[a]
    BY <1>3, <1>4
<1>6. FeedInv(history, ops, [cursor EXCEPT ![r] = NoCursor])
    BY <1>1, <1>2, <1>5, ReaderMovesInv
<1> QED
    BY <1>1, <1>6, HistoryStays DEF StorageInv

\* The reader is counted at the end before the history is compacted again.
LEMMA ReadInv ==
    ASSUME StorageInv, NEW r \in Reader, Read(r)
    PROVE  StorageInv' /\ OnlyCompacts
<1>1. PICK f : f = Compacted(Feed, guards = {})
    OBVIOUS
<1>2. PICK c : c = cursor[r]
    OBVIOUS
<1>3. PICK q : q = [f.q EXCEPT !.inc = @ + 1]
    OBVIOUS
<1>4. /\ FeedInv(history, ops, cursor) /\ c # Gone /\ ~editing
      /\ guards' = guards \cup {[kind |-> "read", by |-> r]}
      /\ cursor' = [cursor EXCEPT ![r] = EndAge(f.h)]
      /\ history' = f.h /\ ops' = Dec(q, c) /\ editing' = editing
    BY <1>1, <1>2, <1>3 DEF StorageInv, Read, Borrow, Becomes, Advanced, Alive
<1>5. FeedInv(f.h, f.q, cursor)
    BY <1>1, <1>4, CompactedInv DEF Feed
<1>6. /\ f.h \in Histories(DataOf(f.h), {f.h.cur}) /\ Len(f.h.items) <= MaxHistory
      /\ f.q \in Counts /\ cursor \in Cursors
    BY <1>5 DEF FeedInv
<1>7. PICK d \in Age : /\ d = EndAge(f.h) /\ IndexOf(f.h, d) = Len(f.h.items)
                       /\ \A a \in Age : IndexOf(f.h, a) = Len(f.h.items) => a = d
    BY <1>6, HistoryEnd
<1>8. /\ q \in Counts /\ q.inc = f.q.inc + 1 /\ q.incAt = f.q.incAt /\ q.dec = f.q.dec
  <2>1. PICK g \in Counts : g = f.q
      BY <1>6
  <2>2. q = [g EXCEPT !.inc = g.inc + 1]
      BY <1>3, <2>1
  <2>3. q \in Counts /\ q.inc = g.inc + 1 /\ q.incAt = g.incAt /\ q.dec = g.dec
      BY <2>2 DEF Counts
  <2> QED
      BY <2>1, <2>3
<1>9. PICK p : p = Dec(q, c)
    OBVIOUS
<1>10. /\ p \in Counts /\ p.inc = f.q.inc + 1
       /\ \A a \in Age : /\ p.incAt[a] = f.q.incAt[a]
                         /\ p.dec[a] = f.q.dec[a] + (IF a = c THEN 1 ELSE 0)
  <2>1. CASE c \in Age
    <3>1. /\ p \in Counts /\ p.inc = q.inc
          /\ \A a \in Age : /\ p.incAt[a] = q.incAt[a]
                            /\ p.dec[a] = q.dec[a] + (IF a = c THEN 1 ELSE 0)
      <4>1. p = Dec(q, c) /\ q \in Counts
          BY <1>8, <1>9
      <4>2. Counted(p, q, c, 0, 1)
          BY <2>1, <4>1, QueueIs
      <4>3. \A a \in Age : q.incAt[a] \in Nat
          BY <1>8 DEF Counts
      <4> QED
          BY <4>2, <4>3 DEF Counted
    <3> QED
        BY <1>8, <3>1
  <2>2. CASE c \notin Age
    <3>1. p = q
        BY <1>9, <2>2 DEF Dec
    <3>2. \A a \in Age : q.dec[a] \in Nat /\ a # c
        BY <1>8, <2>2 DEF Counts
    <3> QED
        BY <1>8, <3>1, <3>2
  <2> QED
      BY <2>1, <2>2
<1>11. ASSUME NEW a \in Age
       PROVE  IF IndexOf(f.h, a) <= Len(f.h.items)
              THEN Queued(f.h, p, a) = Queued(f.h, f.q, a) + (IF d = a THEN 1 ELSE 0)
                                                           - (IF cursor[r] = a THEN 1 ELSE 0)
              ELSE d # a /\ p.incAt[a] = f.q.incAt[a] /\ p.dec[a] = f.q.dec[a]
  <2>1. Queued(f.h, p, a) = Queued(f.h, f.q, a) + 0 - (IF a = c THEN 1 ELSE 0)
                            + (IF IndexOf(f.h, a) = Len(f.h.items) THEN 1 ELSE 0)
    <3>1. PICK j \in Int : j = IF a = c THEN 1 ELSE 0
        OBVIOUS
    <3>2. p.incAt[a] = f.q.incAt[a] + 0 /\ p.dec[a] = f.q.dec[a] + j
        BY <1>6, <1>10, <3>1 DEF Counts
    <3> QED
        BY <1>6, <1>10, <3>1, <3>2, QueuedIs
  <2>2. IndexOf(f.h, a) = Len(f.h.items) <=> d = a
      BY <1>7
  <2>3. Queued(f.h, f.q, a) \in Int
      BY <1>6 DEF Queued, Counts
  <2>4. ASSUME ~(IndexOf(f.h, a) <= Len(f.h.items))
        PROVE  d # a /\ p.incAt[a] = f.q.incAt[a] /\ p.dec[a] = f.q.dec[a]
    <3>1. d # a
      <4>1. Len(f.h.items) \in Nat
          BY <1>6, HistoryParts
      <4> QED
          BY <1>7, <2>4, <4>1
    <3>2. a # c
        BY <1>2, <1>5, <2>4, ReadersAreInside
    <3>3. f.q.dec[a] \in Nat
        BY <1>6 DEF Counts
    <3> QED
        BY <1>10, <3>1, <3>2, <3>3
  <2> QED
      BY <1>2, <2>1, <2>2, <2>3, <2>4
<1>12. FeedInv(f.h, p, [cursor EXCEPT ![r] = d])
    BY <1>5, <1>10, <1>11, ReaderMovesInv
<1>13. FeedInv(history', ops', cursor')
    BY <1>4, <1>7, <1>9, <1>12
<1>14. OnlyCompacts
    BY <1>1, <1>4 DEF OnlyCompacts, Feed
<1> QED
    BY <1>4, <1>13, <1>14 DEF StorageInv

\* compact in the middle of an operation, in the terms of StorageInv.
LEMMA CompactedStorage ==
    ASSUME NEW q, NEW cur, FeedInv(history, q, cur), NEW free \in BOOLEAN,
           Becomes(Compacted([h |-> history, q |-> q], free))
    PROVE  /\ FeedInv(history', ops', cur)
           /\ free => ops' = NoOps /\ OldestIsAwaited(history')
           /\ ~free => history' = history /\ ops' = q
<1>1. PICK c : c = Compacted([h |-> history, q |-> q], free)
    OBVIOUS
<1>2. history' = c.h /\ ops' = c.q
    BY <1>1 DEF Becomes
<1>3. /\ FeedInv(c.h, c.q, cur) /\ (free => c.q = NoOps /\ OldestIsAwaited(c.h))
      /\ (~free => c.h = history /\ c.q = q)
    BY <1>1, CompactedInv
<1> QED
    BY <1>2, <1>3

\* The clone is counted where the original is, and the original stays.
LEMMA CloneReaderInv ==
    ASSUME StorageInv, NEW r \in Reader, NEW b \in Reader, CloneReader(r, b)
    PROVE  StorageInv' /\ OnlyCompacts
<1>1. PICK c \in Age \cup {NoCursor, Gone} : c = cursor[r]
    BY DEF StorageInv, FeedInv, Cursors
<1>2. /\ FeedInv(history, ops, cursor) /\ c # Gone /\ cursor[b] = Gone
      /\ cursor' = [cursor EXCEPT ![b] = c] /\ Becomes(Retained(Feed, c))
      /\ UNCHANGED <<guards, editing>>
    BY <1>1 DEF StorageInv, CloneReader, Alive
<1>3. ops \in Counts /\ history \in Histories(DataOf(history), {history.cur})
    BY <1>2 DEF FeedInv
<1>4. PICK p : p = IF c \in Age THEN Inc(ops, c) ELSE ops
    OBVIOUS
<1>5. /\ p \in Counts /\ p.inc = ops.inc
      /\ \A a \in Age : /\ p.incAt[a] = ops.incAt[a] + (IF a = c THEN 1 ELSE 0)
                        /\ p.dec[a] = ops.dec[a]
  <2>1. CASE c \in Age
    <3>1. p = Inc(ops, c)
        BY <1>4, <2>1
    <3>2. Counted(p, ops, c, 1, 0)
        BY <1>3, <2>1, <3>1, QueueIs
    <3>3. \A a \in Age : ops.dec[a] \in Nat
        BY <1>3 DEF Counts
    <3> QED
        BY <3>2, <3>3 DEF Counted
  <2>2. CASE c \notin Age
    <3>1. \A a \in Age : ops.incAt[a] \in Nat /\ a # c
        BY <1>3, <2>2 DEF Counts
    <3> QED
        BY <1>3, <1>4, <2>2, <3>1
  <2> QED
      BY <2>1, <2>2
<1>6. ASSUME NEW a \in Age
      PROVE  IF IndexOf(history, a) <= Len(history.items)
             THEN Queued(history, p, a) = Queued(history, ops, a) + (IF c = a THEN 1 ELSE 0)
                                                          - (IF cursor[b] = a THEN 1 ELSE 0)
             ELSE c # a /\ p.incAt[a] = ops.incAt[a] /\ p.dec[a] = ops.dec[a]
  <2>1. Queued(history, p, a) = Queued(history, ops, a) + (IF c = a THEN 1 ELSE 0) - 0
                                + (IF IndexOf(history, a) = Len(history.items) THEN 0 ELSE 0)
    <3>1. PICK i \in Int : i = IF c = a THEN 1 ELSE 0
        OBVIOUS
    <3>2. /\ p.incAt[a] = ops.incAt[a] + i /\ p.dec[a] = ops.dec[a] + 0
          /\ p.inc = ops.inc + 0
        BY <1>3, <1>5, <3>1 DEF Counts
    <3> QED
        BY <1>3, <1>5, <3>1, <3>2, QueuedIs
  <2>2. cursor[b] # a /\ Queued(history, ops, a) \in Int
      BY <1>2, <1>3, FeedAssumption DEF Queued, Counts
  <2>3. ASSUME ~(IndexOf(history, a) <= Len(history.items))
        PROVE  c # a /\ p.incAt[a] = ops.incAt[a] /\ p.dec[a] = ops.dec[a]
    <3>1. c # a
        BY <1>1, <1>2, <2>3, ReadersAreInside
    <3>2. ops.incAt[a] \in Nat
        BY <1>3 DEF Counts
    <3> QED
        BY <1>5, <3>1, <3>2
  <2> QED
      BY <2>1, <2>2, <2>3
<1>7. FeedInv(history, p, cursor')
    BY <1>2, <1>5, <1>6, ReaderMovesInv
<1>8. FeedInv(history', ops', cursor') /\ (editing => ops'.inc = p.inc) /\ OnlyCompacts
  <2>1. CASE c \in Age
    <3>1. PICK free \in BOOLEAN : free = Free
        BY DEF Free
    <3>2. Becomes(Compacted([h |-> history, q |-> p], free))
        BY <1>2, <1>4, <2>1, <3>1 DEF Retained, Feed
    <3>3. free => ~editing
        BY <3>1 DEF Free
    <3>4. OnlyCompacts
        BY <1>7, <3>2 DEF OnlyCompacts, Becomes
    <3> QED
        BY <1>7, <3>2, <3>3, <3>4, CompactedStorage
  <2>2. CASE c \notin Age
      BY <1>2, <1>4, <1>7, <2>2, HistoryStays DEF Retained, Feed, Becomes
  <2> QED
      BY <2>1, <2>2
<1> QED
    BY <1>2, <1>5, <1>8 DEF StorageInv

\* A reader that is dropped is no longer counted.
LEMMA DropReaderInv ==
    ASSUME StorageInv, NEW r \in Reader, DropReader(r)
    PROVE  StorageInv' /\ OnlyCompacts
<1>1. PICK c \in Age \cup {NoCursor, Gone} : c = cursor[r]
    BY DEF StorageInv, FeedInv, Cursors
<1>2. /\ FeedInv(history, ops, cursor)
      /\ cursor' = [cursor EXCEPT ![r] = Gone] /\ Becomes(Released(Feed, c))
      /\ UNCHANGED <<guards, editing>>
    BY <1>1 DEF StorageInv, DropReader
<1>3. ops \in Counts
    BY <1>2 DEF FeedInv
<1>4. PICK p : p = IF c \in Age THEN Dec(ops, c) ELSE ops
    OBVIOUS
<1>5. /\ p \in Counts /\ p.inc = ops.inc
      /\ \A a \in Age : /\ p.incAt[a] = ops.incAt[a]
                        /\ p.dec[a] = ops.dec[a] + (IF a = c THEN 1 ELSE 0)
  <2>1. CASE c \in Age
    <3>1. p = Dec(ops, c)
        BY <1>4, <2>1
    <3>2. Counted(p, ops, c, 0, 1)
        BY <1>3, <2>1, <3>1, QueueIs
    <3>3. \A a \in Age : ops.incAt[a] \in Nat
        BY <1>3 DEF Counts
    <3> QED
        BY <3>2, <3>3 DEF Counted
  <2>2. CASE c \notin Age
    <3>1. \A a \in Age : ops.dec[a] \in Nat /\ a # c
        BY <1>3, <2>2 DEF Counts
    <3> QED
        BY <1>3, <1>4, <2>2, <3>1
  <2> QED
      BY <2>1, <2>2
<1>6. ASSUME NEW a \in Age
      PROVE  IF IndexOf(history, a) <= Len(history.items)
             THEN Queued(history, p, a) = Queued(history, ops, a) + (IF Gone = a THEN 1 ELSE 0)
                                                          - (IF cursor[r] = a THEN 1 ELSE 0)
             ELSE Gone # a /\ p.incAt[a] = ops.incAt[a] /\ p.dec[a] = ops.dec[a]
  <2>1. Queued(history, p, a) = Queued(history, ops, a) + 0 - (IF c = a THEN 1 ELSE 0)
                                + (IF IndexOf(history, a) = Len(history.items) THEN 0 ELSE 0)
    <3>1. PICK j \in Int : j = IF c = a THEN 1 ELSE 0
        OBVIOUS
    <3>2. /\ p.incAt[a] = ops.incAt[a] + 0 /\ p.dec[a] = ops.dec[a] + j
          /\ p.inc = ops.inc + 0
        BY <1>3, <1>5, <3>1 DEF Counts
    <3> QED
        BY <1>3, <1>5, <3>1, <3>2, QueuedIs
  <2>2. Gone # a /\ Queued(history, ops, a) \in Int
      BY <1>3, FeedAssumption DEF Queued, Counts
  <2>3. ASSUME ~(IndexOf(history, a) <= Len(history.items))
        PROVE  p.incAt[a] = ops.incAt[a] /\ p.dec[a] = ops.dec[a]
    <3>1. c # a
        BY <1>1, <1>2, <2>3, ReadersAreInside
    <3>2. ops.dec[a] \in Nat
        BY <1>3 DEF Counts
    <3> QED
        BY <1>5, <3>1, <3>2
  <2> QED
      BY <1>1, <2>1, <2>2, <2>3
<1>7. FeedInv(history, p, cursor')
    BY <1>2, <1>5, <1>6, ReaderMovesInv
<1>8. FeedInv(history', ops', cursor') /\ (editing => ops'.inc = p.inc) /\ OnlyCompacts
  <2>1. CASE c \in Age
    <3>1. PICK free \in BOOLEAN : free = Free
        BY DEF Free
    <3>2. Becomes(Compacted([h |-> history, q |-> p], free))
        BY <1>2, <1>4, <2>1, <3>1 DEF Released, Feed
    <3>3. free => ~editing
        BY <3>1 DEF Free
    <3>4. OnlyCompacts
        BY <1>7, <3>2 DEF OnlyCompacts, Becomes
    <3> QED
        BY <1>7, <3>2, <3>3, <3>4, CompactedStorage
  <2>2. CASE c \notin Age
      BY <1>2, <1>4, <1>7, <2>2, HistoryStays DEF Released, Feed, Becomes
  <2> QED
      BY <2>1, <2>2
<1> QED
    BY <1>2, <1>5, <1>8 DEF StorageInv

\* The borrows and what the end of one makes up for.
LEMMA GuardsInv ==
    ASSUME StorageInv,
           \/ \E r \in Reader : Peek(r)
           \/ \E kind \in {"current", "plain"} : BorrowCurrent(kind)
           \/ TryBorrowCurrent
           \/ \E g \in guards : DropGuard(g)
    PROVE  StorageInv' /\ OnlyCompacts
<1>1. /\ FeedInv(history, ops, cursor) /\ editing \in BOOLEAN
      /\ guards \subseteq [kind : {"read", "peek", "current", "plain"}, by : Reader \cup {Nobody}]
      /\ editing => guards = {} /\ ops.inc = 0
    BY DEF StorageInv
<1>2. UNCHANGED <<cursor, editing>>
    BY DEF Peek, BorrowCurrent, TryBorrowCurrent, DropGuard
<1>3. ~editing
    BY <1>1 DEF Peek, BorrowCurrent, TryBorrowCurrent, DropGuard, Borrow
<1>4. guards' \subseteq [kind : {"read", "peek", "current", "plain"}, by : Reader \cup {Nobody}]
  <2>1. \/ guards' \subseteq guards
        \/ \E kind \in {"peek", "current", "plain"}, b \in Reader \cup {Nobody} :
              guards' = guards \cup {[kind |-> kind, by |-> b]}
      BY DEF Peek, BorrowCurrent, TryBorrowCurrent, DropGuard, Borrow
  <2> QED
      BY <1>1, <2>1
<1>5. \/ \E free \in BOOLEAN : Becomes(Compacted([h |-> history, q |-> ops], free))
      \/ UNCHANGED <<history, ops>>
    BY DEF Peek, BorrowCurrent, TryBorrowCurrent, DropGuard, Feed, Becomes
<1>6. FeedInv(history', ops', cursor) /\ OnlyCompacts
  <2>1. CASE UNCHANGED <<history, ops>>
      BY <1>1, <2>1, HistoryStays
  <2>2. CASE \E free \in BOOLEAN : Becomes(Compacted([h |-> history, q |-> ops], free))
    <3>1. PICK free \in BOOLEAN : Becomes(Compacted([h |-> history, q |-> ops], free))
        BY <2>2
    <3>2. OnlyCompacts
        BY <1>1, <3>1 DEF OnlyCompacts, Becomes
    <3> QED
        BY <1>1, <3>1, <3>2, CompactedStorage
  <2> QED
      BY <1>5, <2>1, <2>2
<1> QED
    BY <1>1, <1>2, <1>3, <1>4, <1>6 DEF StorageInv

\* The edits, before and after which the history is compacted.
LEMMA EditInv ==
    ASSUME StorageInv, BeginEdit \/ EndEdit
    PROVE  StorageInv' /\ OnlyCompacts /\ ops' = NoOps /\ OldestIsAwaited(history')
<1>1. FeedInv(history, ops, cursor) /\ editing => guards = {}
    BY DEF StorageInv
<1>2. /\ Becomes(Compacted([h |-> history, q |-> ops], TRUE)) /\ UNCHANGED <<cursor, guards>>
      /\ guards = {} /\ editing' \in BOOLEAN
    BY DEF BeginEdit, EndEdit, Feed, StorageInv
<1>3. FeedInv(history', ops', cursor) /\ ops' = NoOps /\ OldestIsAwaited(history')
  <2>1. FeedInv(history, ops, cursor)
      BY DEF StorageInv
  <2> QED
      BY <1>2, <2>1, CompactedStorage
<1>4. ops'.inc = 0
    BY <1>3 DEF NoOps
<1>5. OnlyCompacts
  <2>1. FeedInv(history, ops, cursor)
      BY DEF StorageInv
  <2> QED
      BY <1>2, <2>1 DEF OnlyCompacts, Becomes
<1> QED
    BY <1>2, <1>3, <1>4, <1>5 DEF StorageInv

\* A recorded edit.
LEMMA RecordInv ==
    ASSUME StorageInv, Record
    PROVE  StorageInv'
<1>1. PICK e \in Edits(history.cur) :
          /\ Len(e.changes) \in 0 .. MaxHistory - Len(history.items)
          /\ history' = PushedAll([history EXCEPT !.cur = e.model], e.changes)
    BY DEF Record
<1>2. /\ FeedInv(history, ops, cursor) /\ editing /\ ops.inc = 0 /\ guards = {}
      /\ UNCHANGED <<ops, cursor, guards, editing>>
    BY DEF StorageInv, Record
<1>3. PICK n : n = [history EXCEPT !.cur = e.model]
    OBVIOUS
<1>4. FeedInv(n, ops, cursor) /\ n.items = history.items
    BY <1>2, <1>3, EditedInv
<1>5. FeedInv(history', ops, cursor)
    BY <1>1, <1>2, <1>3, <1>4, PushedAllInv
<1> QED
    BY <1>2, <1>5 DEF StorageInv

\* An empty history, and nobody to read it.
LEMMA InitStorageInv == Init => StorageInv
<1> SUFFICES ASSUME Init PROVE StorageInv
    OBVIOUS
<1>1. PICK m \in Models : history = [base |-> 0, items |-> <<>>, endRefs |-> 0, cur |-> m]
    BY DEF Init
<1>2. ops = NoOps /\ cursor = [r \in Reader |-> Gone] /\ guards = {} /\ editing = FALSE
    BY DEF Init
<1>3. 0 \in Age
    BY FeedAssumption DEF Age
<1>4. history \in Histories({}, {m})
    BY <1>1, <1>3 DEF Histories
<1>5. history \in Histories(DataOf(history), {history.cur})
    BY <1>4, OwnData
<1>6. Len(history.items) = 0 /\ history.endRefs = 0 /\ history.items = <<>>
    BY <1>1
<1>7. NoOps \in Counts /\ cursor \in Cursors
    BY <1>2 DEF NoOps, Counts, Cursors
<1>8. ASSUME NEW a \in Age
      PROVE  CountedAt(history, NoOps, cursor, a)
  <2>1. At(cursor, a) = {} /\ Cardinality(At(cursor, a)) = 0
    <3>1. At(cursor, a) = {}
        BY <1>2, FeedAssumption DEF At
    <3> QED
        BY <3>1, FS_EmptySet
  <2>2. Queued(history, NoOps, a) = 0 /\ NoOps.incAt[a] = 0 /\ NoOps.dec[a] = 0
      BY DEF Queued, NoOps
  <2>3. IndexOf(history, a) \in Nat
      BY <1>4, <1>6, HistoryAges, FeedAssumption
  <2>4. CASE IndexOf(history, a) <= Len(history.items)
    <3>1. Held(history, IndexOf(history, a)) = 0
        BY <1>6, <2>3, <2>4 DEF Held
    <3> QED
        BY <2>1, <2>2, <2>4, <3>1 DEF CountedAt
  <2>5. CASE ~(IndexOf(history, a) <= Len(history.items))
      BY <2>1, <2>2, <2>5 DEF CountedAt
  <2> QED
      BY <2>4, <2>5
<1>9. FeedInv(history, ops, cursor)
    BY <1>2, <1>5, <1>6, <1>7, <1>8, FeedAssumption DEF FeedInv
<1> QED
    BY <1>2, <1>9 DEF StorageInv, NoOps

\* Every step keeps the invariant, and compacts at most or records changes.
LEMMA NextStorageInv == StorageInv /\ [Next]_vars => StorageInv' /\ (OnlyCompacts \/ Record)
<1> SUFFICES ASSUME StorageInv, [Next]_vars PROVE StorageInv' /\ (OnlyCompacts \/ Record)
    OBVIOUS
<1>1. CASE \E r \in Reader : NewReader(r)
    BY <1>1, NewReaderInv
<1>2. CASE \E r \in Reader : Read(r)
    BY <1>2, ReadInv
<1>3. CASE \E r \in Reader : DropReader(r)
    BY <1>3, DropReaderInv
<1>4. CASE \E r, q \in Reader : CloneReader(r, q)
    BY <1>4, CloneReaderInv
<1>5. CASE \/ \E r \in Reader : Peek(r)
           \/ \E kind \in {"current", "plain"} : BorrowCurrent(kind)
           \/ TryBorrowCurrent
           \/ \E g \in guards : DropGuard(g)
    BY <1>5, GuardsInv
<1>6. CASE BeginEdit \/ EndEdit
    BY <1>6, EditInv
<1>7. CASE Record
    BY <1>7, RecordInv
<1>8. CASE UNCHANGED vars
    BY <1>8, HistoryStays DEF vars, StorageInv
<1> QED
    BY <1>1, <1>2, <1>3, <1>4, <1>5, <1>6, <1>7, <1>8 DEF Next

-----------------------------------------------------------------------------
(* The theorems. *)

\* Whatever the collection and its edits, readers are counted: the inductive invariant.
THEOREM SpecStorageInv == Spec => []StorageInv
<1>1. Init => StorageInv
    BY InitStorageInv
<1> QED
    BY <1>1, NextStorageInv, PTL DEF Spec

\* Every reader is counted once at the age it has read up to, and no age outside the history
\* has a reader or a queued count: compact (RefCountOps::apply and Changes::clean) never fails
\* and releases no change that a reader has not read.
THEOREM SpecReadersAreCounted == Spec => []ReadersAreCounted
<1>1. ASSUME StorageInv PROVE ReadersAreCounted
  <2>1. /\ history \in Histories(DataOf(history), {history.cur})
        /\ Len(history.items) <= MaxHistory
        /\ ops \in Counts /\ cursor \in Cursors
        /\ \A a \in Age : CountedAt(history, ops, cursor, a)
      BY <1>1 DEF StorageInv, FeedInv
  <2>2. /\ history.base \in Age /\ history.endRefs \in Nat /\ Len(history.items) \in Nat
        /\ DOMAIN history.items = 1 .. Len(history.items)
        /\ \A i \in 1 .. Len(history.items) : history.items[i].refs \in Nat
      BY <2>1, HistoryParts
  <2>3. TypeOK
      BY <1>1, <2>1, <2>2 DEF TypeOK, StorageInv, Counts, Cursors
  <2>4. ASSUME NEW a \in Age
        PROVE  IF IndexOf(history, a) <= Len(history.items)
               THEN Cardinality(At(cursor, a)) =
                       ops.incAt[a] - ops.dec[a] +
                       (IF IndexOf(history, a) = Len(history.items)
                        THEN history.endRefs + ops.inc
                        ELSE history.items[IndexOf(history, a) + 1].refs)
               ELSE At(cursor, a) = {} /\ ops.incAt[a] = 0 /\ ops.dec[a] = 0
    <3>1. PICK x \in Nat, y \in Nat, z \in Nat : x = ops.incAt[a] /\ y = ops.dec[a] /\ z = ops.inc
        BY <2>1 DEF Counts
    <3>2. CountedAt(history, ops, cursor, a)
        BY <2>1
    <3>3. CASE IndexOf(history, a) = Len(history.items)
        BY <2>2, <3>1, <3>2, <3>3 DEF CountedAt, Held, Queued
    <3>4. CASE IndexOf(history, a) # Len(history.items) /\ IndexOf(history, a) <= Len(history.items)
      <4>1. IndexOf(history, a) + 1 \in 1 .. Len(history.items)
        <5>1. IndexOf(history, a) \in Nat
            BY <2>1, HistoryAges, FeedAssumption
        <5> QED
            BY <2>2, <3>4, <5>1
      <4>2. PICK h \in Nat : h = history.items[IndexOf(history, a) + 1].refs
          BY <2>2, <4>1
      <4>3. Cardinality(At(cursor, a)) = h + Queued(history, ops, a)
          BY <3>2, <3>4, <4>2 DEF CountedAt, Held
      <4>4. Queued(history, ops, a) = x - y + 0
          BY <3>1, <3>4 DEF Queued
      <4>5. Cardinality(At(cursor, a)) = x - y + h
          BY <4>2, <4>3, <4>4
      <4> QED
          BY <3>1, <3>4, <4>2, <4>5
    <3>5. CASE ~(IndexOf(history, a) <= Len(history.items))
        BY <3>2, <3>5 DEF CountedAt
    <3> QED
        BY <3>3, <3>4, <3>5
  <2> QED
      BY <2>3, <2>4 DEF ReadersAreCounted, At
<1> QED
    BY <1>1, SpecStorageInv, PTL

\* When the last borrow that compacts ends, ChangeFeedRef or ChangeFeedRefMut, no count stays
\* queued and the oldest change left is one that some reader has yet to read.
THEOREM SpecCompactionCatchesUp == Spec => CompactionCatchesUp
<1> DEFINE CaughtUp == Ends /\ guards' = {} =>
               /\ ops' = NoOps
               /\ history'.items # <<>> => history'.items[1].refs > 0
<1>1. ASSUME StorageInv, [Next]_vars
      PROVE  CaughtUp
  <2> SUFFICES ASSUME Ends, guards' = {}
               PROVE  ops' = NoOps /\ OldestIsAwaited(history')
      BY DEF OldestIsAwaited
  <2>1. CASE editing /\ ~editing'
    <3>1. EndEdit
        BY <1>1, <2>1
        DEF Next, NewReader, Read, Peek, DropReader, CloneReader, BorrowCurrent,
            TryBorrowCurrent, DropGuard, BeginEdit, Record, vars
    <3> QED
        BY <1>1, <3>1, EditInv
  <2>2. CASE \E g \in guards \ guards' : g.kind # "plain"
    <3>1. \E g \in guards : DropGuard(g)
        BY <1>1, <2>2
        DEF Next, NewReader, Read, Peek, DropReader, CloneReader, BorrowCurrent,
            TryBorrowCurrent, BeginEdit, Record, EndEdit, Borrow, vars
    <3>2. PICK g \in guards : DropGuard(g)
        BY <3>1
    <3>3. guards = {g} /\ g.kind # "plain"
        BY <2>2, <3>2 DEF DropGuard
    <3>4. Becomes(Compacted([h |-> history, q |-> ops], TRUE))
        BY <3>2, <3>3 DEF DropGuard, Feed
    <3>5. FeedInv(history, ops, cursor)
        BY <1>1 DEF StorageInv
    <3> QED
        BY <3>4, <3>5, CompactedStorage
  <2> QED
      BY <2>1, <2>2 DEF Ends
<1>2. StorageInv /\ [Next]_vars => [CaughtUp]_vars
    BY <1>1
<1> HIDE DEF CaughtUp
<1>3. Spec => [][CaughtUp]_vars
    BY <1>2, SpecStorageInv, PTL DEF Spec
<1> QED
    BY <1>3, PTL DEF CompactionCatchesUp, CaughtUp

-----------------------------------------------------------------------------
(* What the slab of a collection holds. *)

\* What an edit e on the model m may do to the slab, where S and L give the keys in use and
\* those of them in the collection, N and F the keys that a change names and those that its
\* release gives back: keys that wait for a release stay where they are and are not named
\* again; every other key that leaves the collection is given back by one of e's changes, and
\* no later one names it.
EditKeepsSlab(M, m, e, S(_), L(_), N(_), F(_)) ==
    LET gone == S(m) \ L(m)
        n == Len(e.changes)
    IN  /\ n \in Nat /\ e.model \in M
        /\ S(m) \subseteq S(e.model)
        /\ S(e.model) = L(e.model) \cup gone \cup UNION {F(e.changes[i]) : i \in 1 .. n}
        /\ gone \cap L(e.model) = {}
        /\ \A i \in 1 .. n :
              /\ F(e.changes[i]) \subseteq N(e.changes[i]) \ L(e.model)
              /\ N(e.changes[i]) \subseteq S(e.model) \ gone
              /\ \A j \in i + 1 .. n : F(e.changes[i]) \cap N(e.changes[j]) = {}

\* What a release of change c may do: give back the keys that wait for it.
ReleaseKeepsSlab(M, m, c, R(_, _), S(_), L(_), F(_)) ==
    F(c) \subseteq S(m) \ L(m) =>
        R(m, c) \in M /\ S(R(m, c)) = S(m) \ F(c) /\ L(R(m, c)) = L(m)

\* A collection of the models M, with edits E and releases R, that starts with those of I.
KeepsSlab(M, I, E(_), R(_, _), S(_), L(_), N(_), F(_)) ==
    /\ \A m \in I : m \in M /\ S(m) = L(m)
    /\ \A m \in M : \A e \in E(m) : EditKeepsSlab(M, m, e, S, L, N, F)
    /\ \A m \in M : \A c : ReleaseKeepsSlab(M, m, c, R, S, L, F)

\* The changes of h after the first k fit m, the model when those k are released.
SlabInv(M, m, h, k) ==
    /\ m \in M
    /\ Stored(m) = Live(m) \cup UNION {Frees(h.items[i].data) : i \in k + 1 .. Len(h.items)}
    /\ \A i \in k + 1 .. Len(h.items) :
          /\ Frees(h.items[i].data) \subseteq Names(h.items[i].data) \ Live(m)
          /\ Names(h.items[i].data) \subseteq Stored(m)
          /\ \A j \in i + 1 .. Len(h.items) :
                Frees(h.items[i].data) \cap Names(h.items[j].data) = {}

\* A release of the first change fits the others.
LEMMA ReleaseFits ==
    ASSUME NEW M, \A m \in M : \A c : ReleaseKeepsSlab(M, m, c, Release, Stored, Live, Frees),
           NEW m, NEW h, NEW k \in Nat, Len(h.items) \in Nat, k + 1 <= Len(h.items),
           SlabInv(M, m, h, k)
    PROVE  SlabInv(M, Release(m, h.items[k + 1].data), h, k + 1)
<1>1. PICK c : c = h.items[k + 1].data
  OBVIOUS
<1>2. PICK n \in Nat : n = Len(h.items)
  OBVIOUS
<1>3. /\ m \in M
      /\ Stored(m) = Live(m) \cup UNION {Frees(h.items[i].data) : i \in k + 1 .. n}
      /\ \A i \in k + 1 .. n :
            /\ Frees(h.items[i].data) \subseteq Names(h.items[i].data) \ Live(m)
            /\ Names(h.items[i].data) \subseteq Stored(m)
            /\ \A j \in i + 1 .. n : Frees(h.items[i].data) \cap Names(h.items[j].data) = {}
  BY <1>2 DEF SlabInv
<1>4. /\ k + 1 \in k + 1 .. n
      /\ \A i \in (k + 1) + 1 .. n : i \in k + 1 .. n
      /\ \A i \in k + 1 .. n : i = k + 1 \/ i \in (k + 1) + 1 .. n
  BY <1>2
<1>5. Frees(c) \subseteq Names(c) \ Live(m) /\ Names(c) \subseteq Stored(m)
  BY <1>1, <1>3, <1>4
<1>6. PICK r : r = Release(m, c)
  OBVIOUS
<1>7. r \in M /\ Stored(r) = Stored(m) \ Frees(c) /\ Live(r) = Live(m)
  BY <1>3, <1>5, <1>6 DEF ReleaseKeepsSlab
<1>8. \A j \in (k + 1) + 1 .. n : Frees(c) \cap Names(h.items[j].data) = {}
  BY <1>1, <1>3, <1>4
<1>9. \A j \in (k + 1) + 1 .. n :
         /\ Frees(h.items[j].data) \subseteq Names(h.items[j].data) \ Live(r)
         /\ Names(h.items[j].data) \subseteq Stored(r)
  BY <1>3, <1>4, <1>7, <1>8
<1>10. Stored(r) = Live(r) \cup UNION {Frees(h.items[i].data) : i \in (k + 1) + 1 .. n}
  <2>1. ASSUME NEW x \in Stored(r)
        PROVE  x \in Live(r) \cup UNION {Frees(h.items[i].data) : i \in (k + 1) + 1 .. n}
    <3>1. x \in Stored(m) /\ x \notin Frees(c)
      BY <1>7
    <3>2. CASE x \in Live(m)
      BY <1>7, <3>2
    <3>3. CASE x \notin Live(m)
      <4>1. PICK i \in k + 1 .. n : x \in Frees(h.items[i].data)
        BY <1>3, <3>1, <3>3
      <4>2. i \in (k + 1) + 1 .. n
        BY <1>1, <1>4, <3>1, <4>1
      <4> QED
        BY <4>1, <4>2
    <3> QED
      BY <3>2, <3>3
  <2>2. Live(r) \subseteq Stored(r)
    <3>1. Live(m) \subseteq Stored(m)
      BY <1>3
    <3> QED
      BY <1>5, <1>7, <3>1
  <2>3. \A i \in (k + 1) + 1 .. n : Frees(h.items[i].data) \subseteq Stored(r)
    BY <1>9
  <2> QED
    BY <2>1, <2>2, <2>3
<1>11. \A i \in (k + 1) + 1 .. n : \A j \in i + 1 .. n :
          Frees(h.items[i].data) \cap Names(h.items[j].data) = {}
  BY <1>3, <1>4
<1> QED
  BY <1>1, <1>2, <1>6, <1>7, <1>9, <1>10, <1>11 DEF SlabInv

\* What ReleasedUpTo goes through, in the function f.
ReleasesAre(h, k, f) ==
    f = [i \in 0 .. k |-> IF i = 0 THEN h.cur ELSE Release(f[i - 1], h.items[i].data)]

\* clean releases the changes that it takes away one by one.
LEMMA ReleasesFit ==
    ASSUME NEW M, \A m \in M : \A c : ReleaseKeepsSlab(M, m, c, Release, Stored, Live, Frees),
           NEW h, Len(h.items) \in Nat, NEW k \in 0 .. Len(h.items), SlabInv(M, h.cur, h, 0)
    PROVE  SlabInv(M, ReleasedUpTo(h, k), h, k)
<1> DEFINE R(m, i) == Release(m, h.items[i].data)
           F == [p \in M \X (1 .. k) |-> IF R(p[1], p[2]) \in M THEN R(p[1], p[2]) ELSE p[1]]
           G == CHOOSE f : ReleasesAre(h, k, f)
<1>1. k \in Nat /\ h.cur \in M
  BY DEF SlabInv
<1>2. F \in [M \X (1 .. k) -> M]
  OBVIOUS
<1>3. PICK f : Recursive(f, M, h.cur, k, F)
  <2> HIDE DEF F
  <2> QED
    BY <1>1, <1>2, NatRecursion
<1>4. /\ f \in [0 .. k -> M] /\ f[0] = h.cur
      /\ \A i \in 1 .. k : f[i] = IF R(f[i - 1], i) \in M THEN R(f[i - 1], i) ELSE f[i - 1]
  <2>1. /\ f \in [0 .. k -> M] /\ f[0] = h.cur
        /\ \A i \in 1 .. k : f[i] = F[<<f[i - 1], i>>]
    BY <1>3 DEF Recursive
  <2>2. \A i \in 1 .. k : f[i - 1] \in M
    BY <1>1, <2>1
  <2> HIDE DEF R
  <2> QED
    BY <2>1, <2>2
<1> HIDE DEF F, R
<1> DEFINE T == {i \in Nat : i <= k =>
                    /\ SlabInv(M, f[i], h, i)
                    /\ i # 0 => f[i] = R(f[i - 1], i)}
<1>5. T = Nat
  <2>1. 0 \in T
    BY <1>4
  <2>2. ASSUME NEW i \in T
        PROVE  i + 1 \in T
    <3> SUFFICES ASSUME i + 1 <= k
                 PROVE  /\ SlabInv(M, f[i + 1], h, i + 1)
                        /\ f[i + 1] = R(f[i], i + 1)
      BY <1>1
    <3>1. i \in Nat /\ i <= k /\ i + 1 \in 1 .. k /\ (i + 1) - 1 = i /\ i + 1 <= Len(h.items)
      BY <1>1
    <3>2. SlabInv(M, f[i], h, i)
      BY <3>1
    <3>3. SlabInv(M, R(f[i], i + 1), h, i + 1)
      BY <3>1, <3>2, ReleaseFits DEF R
    <3>4. R(f[i], i + 1) \in M
      BY <3>3 DEF SlabInv
    <3>5. f[i + 1] = R(f[i], i + 1)
      BY <1>4, <3>1, <3>4
    <3> QED
      BY <3>3, <3>5
  <2> HIDE DEF T
  <2>3. T \in SUBSET Nat
    BY DEF T
  <2> QED
    BY <2>1, <2>2, <2>3, NatSetInduction
<1>6. \A i \in 0 .. k : SlabInv(M, f[i], h, i) /\ (i # 0 => f[i] = R(f[i - 1], i))
  <2> SUFFICES ASSUME NEW i \in 0 .. k
               PROVE  SlabInv(M, f[i], h, i) /\ (i # 0 => f[i] = R(f[i - 1], i))
    OBVIOUS
  <2>1. i \in Nat /\ i <= k
    BY <1>1
  <2>2. i \in T
    <3> HIDE DEF T
    <3> QED
      BY <1>5, <2>1
  <2> QED
    BY <2>1, <2>2
<1>7. ReleasesAre(h, k, f)
  <2>1. f = [i \in 0 .. k |-> f[i]]
    BY <1>4
  <2>2. \A i \in 0 .. k : f[i] = IF i = 0 THEN h.cur ELSE R(f[i - 1], i)
    BY <1>4, <1>6
  <2> QED
    BY <2>1, <2>2 DEF ReleasesAre, R
<1>8. ReleasesAre(h, k, G)
  BY <1>7
<1>9. ReleasedUpTo(h, k) = G[k]
  BY DEF ReleasedUpTo, ReleasesAre
<1>10. \A i \in 0 .. k : G[i] = IF i = 0 THEN h.cur ELSE R(G[i - 1], i)
  BY <1>8 DEF ReleasesAre, R
<1> HIDE DEF G
<1> DEFINE U == {i \in Nat : i <= k => G[i] = f[i]}
<1>11. U = Nat
  <2>1. 0 \in U
    BY <1>1, <1>4, <1>10
  <2>2. ASSUME NEW i \in U
        PROVE  i + 1 \in U
    <3> SUFFICES ASSUME i + 1 <= k
                 PROVE  G[i + 1] = f[i + 1]
      BY <1>1
    <3>1. i \in Nat /\ i <= k /\ i + 1 \in 0 .. k /\ (i + 1) - 1 = i /\ i + 1 # 0
      BY <1>1
    <3>2. G[i] = f[i]
      BY <3>1
    <3>3. G[i + 1] = R(G[i], i + 1) /\ f[i + 1] = R(f[i], i + 1)
      BY <1>6, <1>10, <3>1
    <3> QED
      BY <3>2, <3>3
  <2> HIDE DEF U
  <2>3. U \in SUBSET Nat
    BY DEF U
  <2> QED
    BY <2>1, <2>2, <2>3, NatSetInduction
<1>12. G[k] = f[k]
  <2>1. k \in U
    BY <1>1, <1>11
  <2> QED
    BY <1>1, <2>1
<1> QED
  BY <1>1, <1>6, <1>9, <1>12

\* The changes of n are those of h after the first k.
LEMMA SuffixFits ==
    ASSUME NEW M, NEW m, NEW h, NEW n, NEW k \in Nat, Len(n.items) \in Nat,
           k + Len(n.items) = Len(h.items),
           \A i \in 1 .. Len(n.items) : n.items[i].data = h.items[k + i].data,
           SlabInv(M, m, h, k)
    PROVE  SlabInv(M, m, n, 0)
<1>1. PICK l \in Nat : l = Len(n.items) /\ k + l = Len(h.items)
  OBVIOUS
<1>2. /\ \A i \in 1 .. l : k + i \in k + 1 .. k + l
      /\ \A i \in 1 .. l : \A j \in i + 1 .. l : k + j \in (k + i) + 1 .. k + l /\ j \in 1 .. l
      /\ \A j \in k + 1 .. k + l : j - k \in 1 .. l /\ k + (j - k) = j
  BY <1>1
<1>3. /\ m \in M
      /\ Stored(m) = Live(m) \cup UNION {Frees(h.items[i].data) : i \in k + 1 .. k + l}
      /\ \A i \in k + 1 .. k + l :
            /\ Frees(h.items[i].data) \subseteq Names(h.items[i].data) \ Live(m)
            /\ Names(h.items[i].data) \subseteq Stored(m)
            /\ \A j \in i + 1 .. k + l : Frees(h.items[i].data) \cap Names(h.items[j].data) = {}
  BY <1>1 DEF SlabInv
<1>4. {Frees(h.items[i].data) : i \in k + 1 .. k + l} = {Frees(n.items[i].data) : i \in 1 .. l}
  <2>1. ASSUME NEW i \in k + 1 .. k + l
        PROVE  \E j \in 1 .. l : Frees(h.items[i].data) = Frees(n.items[j].data)
    <3>1. PICK j \in 1 .. l : k + j = i
      BY <1>2
    <3>2. n.items[j].data = h.items[i].data
      BY <1>1, <3>1
    <3> QED
      BY <3>2
  <2>2. ASSUME NEW i \in 1 .. l
        PROVE  \E j \in k + 1 .. k + l : Frees(n.items[i].data) = Frees(h.items[j].data)
    <3>1. PICK j \in k + 1 .. k + l : k + i = j
      BY <1>2
    <3>2. n.items[i].data = h.items[j].data
      BY <1>1, <3>1
    <3> QED
      BY <3>2
  <2> QED
    BY <2>1, <2>2
<1>5. ASSUME NEW i \in 1 .. l
      PROVE  /\ Frees(n.items[i].data) \subseteq Names(n.items[i].data) \ Live(m)
             /\ Names(n.items[i].data) \subseteq Stored(m)
             /\ \A j \in i + 1 .. l : Frees(n.items[i].data) \cap Names(n.items[j].data) = {}
  <2>1. n.items[i].data = h.items[k + i].data /\ k + i \in k + 1 .. k + l
    BY <1>1, <1>2
  <2>2. \A j \in i + 1 .. l :
           n.items[j].data = h.items[k + j].data /\ k + j \in (k + i) + 1 .. k + l
    BY <1>1, <1>2
  <2> QED
    BY <1>3, <2>1, <2>2
<1>6. \A i \in 0 + 1 .. l : i \in 1 .. l
  OBVIOUS
<1>7. 0 + 1 .. l = 1 .. l
  OBVIOUS
<1>8. Stored(m) = Live(m) \cup UNION {Frees(n.items[i].data) : i \in 0 + 1 .. l}
  BY <1>3, <1>4, <1>7
<1> QED
  BY <1>1, <1>3, <1>5, <1>7, <1>8 DEF SlabInv

\* compact leaves what fits, wherever it is called.
LEMMA CompactedFits ==
    ASSUME NEW M, \A m \in M : \A c : ReleaseKeepsSlab(M, m, c, Release, Stored, Live, Frees),
           NEW h, NEW q, NEW cur, FeedInv(h, q, cur), NEW free \in BOOLEAN,
           SlabInv(M, h.cur, h, 0)
    PROVE  LET c == Compacted([h |-> h, q |-> q], free) IN SlabInv(M, c.h.cur, c.h, 0)
<1>1. CASE ~free
  BY <1>1 DEF Compacted
<1>2. CASE free
  <2>1. PICK n : n = Applied(h, q)
    OBVIOUS
  <2>2. PICK p : p = Cleaned(n)
    OBVIOUS
  <2>3. Compacted([h |-> h, q |-> q], free).h = p
    BY <1>2, <2>1, <2>2 DEF Compacted
  <2>4. h \in Histories(DataOf(h), {h.cur}) /\ q \in Counts
    BY DEF FeedInv
  <2>5. FeedInv(n, NoOps, cur)
    BY <2>1, AppliedInv
  <2>6. n \in Histories(DataOf(n), {n.cur})
    BY <2>5 DEF FeedInv
  <2>7. Len(n.items) = Len(h.items) /\ n.cur = h.cur /\ Len(h.items) \in Nat
        /\ \A i \in 1 .. Len(h.items) : n.items[i].data = h.items[i].data
    <3>1. PICK h1 : h1 = [h EXCEPT !.endRefs = @ + q.inc]
      OBVIOUS
    <3>2. h1 \in Histories(DataOf(h), {h.cur}) /\ h1.items = h.items /\ h1.cur = h.cur
      <4>1. h.base \in Age /\ h.endRefs \in Nat /\ OfParts(h)
            /\ h.items \in Seq([data : DataOf(h), refs : Nat])
        BY <2>4, HistoryParts
      <4>2. h1 = [base |-> h.base, items |-> h.items, endRefs |-> h.endRefs + q.inc, cur |-> h.cur]
        BY <3>1, <4>1 DEF OfParts
      <4>3. h.endRefs + q.inc \in Nat
        BY <2>4, <4>1 DEF Counts
      <4> QED
        BY <4>1, <4>2, <4>3 DEF Histories
    <3>3. PICK by : n = Recounted(h1, by)
      BY <2>1, <3>1 DEF Applied
    <3>4. Len(h.items) \in Nat
      BY <2>4, HistoryParts
    <3> QED
      BY <3>2, <3>3, <3>4, RecountedIs
  <2>8. SlabInv(M, n.cur, n, 0)
    BY <2>7, SuffixFits
  <2>9. PICK k : k = Leading(n) /\ k \in 0 .. Len(n.items)
    BY <2>6, LeadingIs
  <2>10. SlabInv(M, ReleasedUpTo(n, k), n, k)
    BY <2>7, <2>8, <2>9, ReleasesFit
  <2>11. /\ k + Len(p.items) = Len(n.items) /\ TakesSuffix(p, n, k) /\ Len(p.items) \in Nat
    <3>1. /\ k + Len(p.items) = Len(n.items) /\ TakesSuffix(p, n, k)
          /\ p.items \in Seq([data : DataOf(n), refs : Nat])
      BY <2>2, <2>6, <2>9, CleanedIs
    <3> DEFINE S == [data : DataOf(n), refs : Nat]
    <3>2. p.items \in Seq(S)
      BY <3>1
    <3> HIDE DEF S
    <3>3. Len(p.items) \in Nat
      BY <3>2
    <3> QED
      BY <3>1, <3>3
  <2>12. p.cur = ReleasedUpTo(n, k)
    <3>1. OfParts(n)
      BY <2>6, HistoryParts
    <3> QED
      BY <2>2, <2>9, <3>1 DEF Cleaned, OfParts
  <2>13. SlabInv(M, p.cur, p, 0)
    <3>1. k \in Nat
      BY <2>9
    <3>2. \A i \in 1 .. Len(p.items) : p.items[i].data = n.items[k + i].data
      BY <2>11 DEF TakesSuffix
    <3>3. SlabInv(M, p.cur, n, k)
      BY <2>10, <2>12
    <3> QED
      BY <2>11, <3>1, <3>2, <3>3, SuffixFits
  <2> QED
    BY <2>3, <2>13
<1> QED
  BY <1>1, <1>2

\* The changes of h are still there in n.
Extends(n, h) == \A i \in 1 .. Len(h.items) : n.items[i].data = h.items[i].data

\* What a push adds.
LEMMA PushedData ==
    ASSUME NEW D, NEW M, NEW h \in Histories(D, M), NEW c \in D
    PROVE  /\ Pushed(h, c) \in Histories(D, M) /\ Pushed(h, c).cur = h.cur
           /\ Len(h.items) \in Nat /\ Len(Pushed(h, c).items) = Len(h.items) + 1
           /\ Extends(Pushed(h, c), h) /\ Pushed(h, c).items[Len(h.items) + 1].data = c
<1>1. /\ h.items \in Seq([data : D, refs : Nat]) /\ h.base \in Age /\ h.endRefs \in Nat
      /\ h.cur \in M /\ Len(h.items) \in Nat /\ OfParts(h)
  BY HistoryParts
<1>2. PICK x \in [data : D, refs : Nat] : x = [data |-> c, refs |-> h.endRefs]
  BY <1>1
<1> DEFINE T == [data : D, refs : Nat]
<1>3. PICK s \in Seq(T) : s = h.items
  BY <1>1
<1>4. x \in T /\ x.data = c
  BY <1>2
<1>5. PICK n : n = Pushed(h, c)
  OBVIOUS
<1>6. n.cur = h.cur /\ n.items = Append(s, x)
  BY <1>1, <1>2, <1>3, <1>5 DEF Pushed, OfParts
<1> HIDE DEF T
<1>7. /\ Len(Append(s, x)) = Len(s) + 1 /\ Append(s, x)[Len(s) + 1] = x
      /\ \A i \in 1 .. Len(s) : Append(s, x)[i] = s[i]
  BY <1>3, <1>4
<1>8. Extends(n, h)
  BY <1>3, <1>6, <1>7 DEF Extends
<1>9. n \in Histories(D, M)
  BY <1>5, PushedIs
<1> QED
  BY <1>1, <1>3, <1>4, <1>5, <1>6, <1>7, <1>8, <1>9

\* What an edit records.
AllIn(changes, D) == Len(changes) \in Nat /\ \A i \in 1 .. Len(changes) : changes[i] \in D
Records(n, h, changes) ==
    /\ n.cur = h.cur /\ Len(n.items) = Len(h.items) + Len(changes) /\ Extends(n, h)
    /\ \A i \in 1 .. Len(changes) : n.items[Len(h.items) + i].data = changes[i]

LEMMA PushedAllData ==
    ASSUME NEW D, NEW M, NEW h \in Histories(D, M), NEW changes, AllIn(changes, D)
    PROVE  Records(PushedAll(h, changes), h, changes)
<1>1. PICK l, k \in Nat : l = Len(h.items) /\ k = Len(changes)
  <2>1. Len(h.items) \in Nat /\ Len(changes) \in Nat
    BY HistoryParts DEF AllIn
  <2> QED
    BY <2>1
<1>2. PICK f : PushesAre(h, changes, f) /\ PushedAll(h, changes) = f[k]
  BY <1>1, PushesExist DEF AllIn
<1>3. \A i \in 0 .. k : f[i] = IF i = 0 THEN h ELSE Pushed(f[i - 1], changes[i])
  BY <1>1, <1>2 DEF PushesAre
<1> DEFINE Holds(i) == /\ f[i] \in Histories(D, M) /\ f[i].cur = h.cur
                       /\ Len(f[i].items) = l + i /\ Extends(f[i], h)
                       /\ \A j \in 1 .. i : f[i].items[l + j].data = changes[j]
           T == {i \in Nat : i <= k => Holds(i)}
<1>4. 0 \in T
  <2>1. f[0] = h
    BY <1>1, <1>3
  <2>2. Holds(0)
    BY <1>1, <2>1 DEF Extends
  <2> QED
    BY <2>2
<1>5. ASSUME NEW i \in T
      PROVE  i + 1 \in T
  <2> HIDE DEF Holds
  <2> SUFFICES ASSUME i + 1 <= k
               PROVE  Holds(i + 1)
    BY <1>1
  <2>1. i \in Nat /\ i <= k /\ i + 1 \in 0 .. k /\ (i + 1) - 1 = i /\ i + 1 # 0 /\ i + 1 \in 1 .. k
    BY <1>1
  <2> USE DEF Holds
  <2>2. PICK p, m, c : p = f[i] /\ m = f[i + 1] /\ c = changes[i + 1]
    OBVIOUS
  <2>3. m = Pushed(p, c) /\ c \in D
    BY <1>1, <1>3, <2>1, <2>2 DEF AllIn
  <2>4. /\ p \in Histories(D, M) /\ p.cur = h.cur /\ Len(p.items) = l + i /\ Extends(p, h)
        /\ \A j \in 1 .. i : p.items[l + j].data = changes[j]
    BY <2>1, <2>2
  <2>5. /\ m \in Histories(D, M) /\ m.cur = p.cur /\ Len(m.items) = (l + i) + 1
        /\ Extends(m, p) /\ m.items[(l + i) + 1].data = c
    BY <2>3, <2>4, PushedData
  <2>6. /\ (l + i) + 1 = l + (i + 1)
        /\ \A j \in 1 .. l : j \in 1 .. l + i
        /\ \A j \in 1 .. i : l + j \in 1 .. l + i
        /\ \A j \in 1 .. i + 1 : j \in 1 .. i \/ j = i + 1
    <3> HIDE DEF T
    <3>1. i \in Nat
      BY <2>1
    <3>2. \A j \in 1 .. i + 1 : j \in 1 .. i \/ j = i + 1
      BY <3>1
    <3>3. /\ (l + i) + 1 = l + (i + 1)
          /\ \A j \in 1 .. l : j \in 1 .. l + i
          /\ \A j \in 1 .. i : l + j \in 1 .. l + i
      BY <3>1
    <3> QED
      BY <3>2, <3>3
  <2>7. Extends(m, h)
    BY <1>1, <2>4, <2>5, <2>6 DEF Extends
  <2>8. \A j \in 1 .. i + 1 : m.items[l + j].data = changes[j]
    BY <2>2, <2>4, <2>5, <2>6 DEF Extends
  <2> QED
    BY <2>2, <2>4, <2>5, <2>6, <2>7, <2>8
<1>6. k \in T
  <2>1. T \in SUBSET Nat
    OBVIOUS
  <2> HIDE DEF T
  <2>2. T = Nat
    BY <1>4, <1>5, <2>1, NatSetInduction
  <2> QED
    BY <1>1, <2>2
<1> QED
  BY <1>1, <1>2, <1>6 DEF Records

\* An edit that keeps the slab fits, and what it records comes last.
LEMMA EditFits ==
    ASSUME NEW M, NEW h, Len(h.items) \in Nat, SlabInv(M, h.cur, h, 0),
           NEW e, EditKeepsSlab(M, h.cur, e, Stored, Live, Names, Frees),
           NEW n, n.cur = e.model, Len(n.items) = Len(h.items) + Len(e.changes), Extends(n, h),
           \A i \in 1 .. Len(e.changes) : n.items[Len(h.items) + i].data = e.changes[i]
    PROVE  SlabInv(M, n.cur, n, 0)
<1>1. PICK l, k \in Nat : l = Len(h.items) /\ k = Len(e.changes)
  BY DEF EditKeepsSlab
<1>2. PICK m, r, gone : m = h.cur /\ r = e.model /\ gone = Stored(m) \ Live(m)
  OBVIOUS
<1> DEFINE c(i) == n.items[i].data
<1>3. /\ m \in M
      /\ Stored(m) = Live(m) \cup UNION {Frees(h.items[i].data) : i \in 0 + 1 .. l}
      /\ \A i \in 0 + 1 .. l :
            /\ Frees(h.items[i].data) \subseteq Names(h.items[i].data) \ Live(m)
            /\ Names(h.items[i].data) \subseteq Stored(m)
            /\ \A j \in i + 1 .. l : Frees(h.items[i].data) \cap Names(h.items[j].data) = {}
  BY <1>1, <1>2 DEF SlabInv
<1>4. /\ r \in M /\ Stored(m) \subseteq Stored(r)
      /\ Stored(r) = Live(r) \cup gone \cup UNION {Frees(e.changes[i]) : i \in 1 .. k}
      /\ gone \cap Live(r) = {}
      /\ \A i \in 1 .. k :
            /\ Frees(e.changes[i]) \subseteq Names(e.changes[i]) \ Live(r)
            /\ Names(e.changes[i]) \subseteq Stored(r) \ gone
            /\ \A j \in i + 1 .. k : Frees(e.changes[i]) \cap Names(e.changes[j]) = {}
  BY <1>1, <1>2 DEF EditKeepsSlab
<1>5. \A i \in 1 .. l : c(i) = h.items[i].data
  BY <1>1 DEF Extends
<1>6. \A i \in 1 .. k : c(l + i) = e.changes[i]
  BY <1>1
<1> HIDE DEF c
<1>7. /\ 0 + 1 .. l = 1 .. l
      /\ \A i \in 1 .. l + k : i \in 1 .. l \/ \E j \in 1 .. k : i = l + j
      /\ \A i \in 1 .. l : i \in 1 .. l + k
      /\ \A i \in 1 .. k : l + i \in 1 .. l + k
      /\ \A i \in 1 .. l, j \in 1 .. l : j \in i + 1 .. l + k => j \in i + 1 .. l
      /\ \A i \in 1 .. k, j \in 1 .. k : l + j \in (l + i) + 1 .. l + k => j \in i + 1 .. k
      /\ \A i \in 1 .. k, j \in 1 .. l : j \notin (l + i) + 1 .. l + k
      /\ \A i \in 1 .. l + k : \A j \in i + 1 .. l + k : j \in 1 .. l + k
  <2>1. ASSUME NEW i \in 1 .. l + k, i \notin 1 .. l
        PROVE  \E j \in 1 .. k : i = l + j
    <3>1. i - l \in 1 .. k /\ i = l + (i - l)
      BY <2>1
    <3> QED
      BY <3>1
  <2>2. \A i \in 1 .. k, j \in 1 .. k : l + j \in (l + i) + 1 .. l + k => j \in i + 1 .. k
    OBVIOUS
  <2>3. \A i \in 1 .. k, j \in 1 .. l : j \notin (l + i) + 1 .. l + k
    OBVIOUS
  <2>4. /\ 0 + 1 .. l = 1 .. l
        /\ \A i \in 1 .. l : i \in 1 .. l + k
        /\ \A i \in 1 .. k : l + i \in 1 .. l + k
        /\ \A i \in 1 .. l, j \in 1 .. l : j \in i + 1 .. l + k => j \in i + 1 .. l
        /\ \A i \in 1 .. l + k : \A j \in i + 1 .. l + k : j \in 1 .. l + k
    OBVIOUS
  <2> QED
    BY <2>1, <2>2, <2>3, <2>4
<1>8. \A i \in 1 .. l : Frees(c(i)) \subseteq gone
  BY <1>2, <1>3, <1>5, <1>7
<1>9. gone \subseteq UNION {Frees(c(i)) : i \in 1 .. l}
  <2>1. ASSUME NEW x \in gone
        PROVE  \E i \in 1 .. l : x \in Frees(c(i))
    <3>1. PICK i \in 1 .. l : x \in Frees(h.items[i].data)
      BY <1>2, <1>3, <1>7
    <3> QED
      BY <1>5, <3>1
  <2> QED
    BY <2>1
<1>10. Stored(r) = Live(r) \cup UNION {Frees(c(i)) : i \in 1 .. l + k}
  <2>1. ASSUME NEW x \in Stored(r), x \notin Live(r)
        PROVE  \E i \in 1 .. l + k : x \in Frees(c(i))
    <3>1. CASE x \in gone
      BY <1>7, <1>9, <3>1
    <3>2. CASE x \notin gone
      <4>1. PICK i \in 1 .. k : x \in Frees(e.changes[i])
        BY <1>4, <2>1, <3>2
      <4>2. x \in Frees(c(l + i)) /\ l + i \in 1 .. l + k
        BY <1>6, <1>7, <4>1
      <4> QED
        BY <4>2
    <3> QED
      BY <3>1, <3>2
  <2>2. ASSUME NEW i \in 1 .. l + k
        PROVE  Frees(c(i)) \subseteq Stored(r)
    <3>1. CASE i \in 1 .. l
      BY <1>2, <1>4, <1>8, <3>1
    <3>2. CASE \E j \in 1 .. k : i = l + j
      <4>1. PICK j \in 1 .. k : i = l + j
        BY <3>2
      <4>2. Frees(c(i)) = Frees(e.changes[j])
        BY <1>6, <4>1
      <4> QED
        BY <1>4, <4>2
    <3> QED
      BY <1>7, <3>1, <3>2
  <2>3. Live(r) \subseteq Stored(r)
    BY <1>4
  <2> QED
    BY <2>1, <2>2, <2>3
<1>11. ASSUME NEW i \in 1 .. l + k
       PROVE  /\ Frees(c(i)) \subseteq Names(c(i)) \ Live(r)
              /\ Names(c(i)) \subseteq Stored(r)
              /\ \A j \in i + 1 .. l + k : Frees(c(i)) \cap Names(c(j)) = {}
  <2>1. CASE i \in 1 .. l
    <3>1. /\ Frees(c(i)) \subseteq Names(c(i)) /\ Names(c(i)) \subseteq Stored(m)
          /\ \A j \in i + 1 .. l : Frees(c(i)) \cap Names(h.items[j].data) = {}
      BY <1>3, <1>5, <1>7, <2>1
    <3>2. Frees(c(i)) \subseteq gone
      BY <1>8, <2>1
    <3>3. ASSUME NEW j \in i + 1 .. l + k
          PROVE  Frees(c(i)) \cap Names(c(j)) = {}
      <4>1. j \in 1 .. l + k
        BY <1>7
      <4>2. CASE j \in 1 .. l
        <5>1. j \in i + 1 .. l /\ c(j) = h.items[j].data
          BY <1>5, <1>7, <2>1, <4>2
        <5> QED
          BY <3>1, <5>1
      <4>3. CASE \E x \in 1 .. k : j = l + x
        <5>1. PICK x \in 1 .. k : j = l + x
          BY <4>3
        <5>2. c(j) = e.changes[x] /\ Names(e.changes[x]) \subseteq Stored(r) \ gone
          BY <1>4, <1>6, <5>1
        <5> QED
          BY <3>2, <5>2
      <4> QED
        BY <1>7, <4>1, <4>2, <4>3
    <3> QED
      BY <1>4, <3>1, <3>2, <3>3
  <2>2. CASE \E x \in 1 .. k : i = l + x
    <3>1. PICK x \in 1 .. k : i = l + x
      BY <2>2
    <3>2. c(i) = e.changes[x]
      BY <1>6, <3>1
    <3>3. ASSUME NEW j \in i + 1 .. l + k
          PROVE  Frees(c(i)) \cap Names(c(j)) = {}
      <4>1. j \in 1 .. l + k /\ j \notin 1 .. l
        BY <1>7, <3>1
      <4>2. PICK y \in 1 .. k : j = l + y
        BY <1>7, <4>1
      <4>3. y \in x + 1 .. k /\ c(j) = e.changes[y]
        BY <1>6, <1>7, <3>1, <4>2
      <4> QED
        BY <1>4, <3>2, <4>3
    <3> QED
      BY <1>4, <3>2, <3>3
  <2> QED
    BY <1>7, <2>1, <2>2
<1>12. Len(n.items) = l + k /\ 0 + 1 .. l + k = 1 .. l + k
  BY <1>1
<1>13. Stored(r) = Live(r) \cup UNION {Frees(n.items[i].data) : i \in 0 + 1 .. Len(n.items)}
  BY <1>10, <1>12 DEF c
<1>14. \A i \in 0 + 1 .. Len(n.items) :
          /\ Frees(n.items[i].data) \subseteq Names(n.items[i].data) \ Live(r)
          /\ Names(n.items[i].data) \subseteq Stored(r)
          /\ \A j \in i + 1 .. Len(n.items) :
                Frees(n.items[i].data) \cap Names(n.items[j].data) = {}
  BY <1>11, <1>12 DEF c
<1> QED
  BY <1>2, <1>4, <1>13, <1>14 DEF SlabInv

\* Every step keeps what is in the slab and what names it together.
LEMMA SlabStep ==
    ASSUME NEW M, KeepsSlab(M, Models, Edits, Release, Stored, Live, Names, Frees),
           StorageInv, SlabInv(M, history.cur, history, 0), OnlyCompacts \/ Record
    PROVE  SlabInv(M, history'.cur, history', 0)
<1>1. /\ \A m \in M : \A e \in Edits(m) : EditKeepsSlab(M, m, e, Stored, Live, Names, Frees)
      /\ \A m \in M : \A c : ReleaseKeepsSlab(M, m, c, Release, Stored, Live, Frees)
  BY DEF KeepsSlab
<1>2. CASE OnlyCompacts
  <2>1. PICK q, cur : \E free \in BOOLEAN :
           FeedInv(history, q, cur) /\ history' = Compacted([h |-> history, q |-> q], free).h
    BY <1>2 DEF OnlyCompacts
  <2>2. PICK free \in BOOLEAN :
           FeedInv(history, q, cur) /\ history' = Compacted([h |-> history, q |-> q], free).h
    BY <2>1
  <2> QED
    BY <1>1, <2>2, CompactedFits
<1>3. CASE Record
  <2>1. PICK e \in Edits(history.cur) :
           /\ Len(e.changes) \in 0 .. MaxHistory - Len(history.items)
           /\ history' = PushedAll([history EXCEPT !.cur = e.model], e.changes)
    BY <1>3 DEF Record
  <2>2. history.cur \in M
    BY DEF SlabInv
  <2>3. EditKeepsSlab(M, history.cur, e, Stored, Live, Names, Frees) /\ Len(e.changes) \in Nat
    BY <1>1, <2>2 DEF EditKeepsSlab
  <2>4. PICK h : h = [history EXCEPT !.cur = e.model]
    OBVIOUS
  <2>5. FeedInv(history, ops, cursor)
    BY DEF StorageInv
  <2>6. FeedInv(h, ops, cursor) /\ h.items = history.items
    BY <2>4, <2>5, EditedInv
  <2>7. h \in Histories(DataOf(h), {h.cur}) /\ h.cur = e.model /\ Len(h.items) \in Nat
    <3>1. history \in Histories(DataOf(history), {history.cur})
      BY <2>5 DEF FeedInv
    <3>2. OfParts(history) /\ Len(history.items) \in Nat
      BY <3>1, HistoryParts
    <3>3. h.cur = e.model
      BY <2>4, <3>2 DEF OfParts
    <3> QED
      BY <2>6, <3>2, <3>3 DEF FeedInv
  <2> DEFINE D == DataOf(h) \cup {e.changes[i] : i \in 1 .. Len(e.changes)}
  <2>8. h \in Histories(D, {h.cur}) /\ \A i \in 1 .. Len(e.changes) : e.changes[i] \in D
    <3>1. DataOf(h) \subseteq D /\ \A i \in 1 .. Len(e.changes) : e.changes[i] \in D
      OBVIOUS
    <3> HIDE DEF D
    <3> QED
      BY <2>7, <3>1, MoreData
  <2> HIDE DEF D
  <2>9. PICK n : n = PushedAll(h, e.changes)
    OBVIOUS
  <2>10. /\ n.cur = h.cur /\ Len(n.items) = Len(h.items) + Len(e.changes) /\ Extends(n, h)
         /\ \A i \in 1 .. Len(e.changes) : n.items[Len(h.items) + i].data = e.changes[i]
    <3>1. AllIn(e.changes, D)
      BY <2>3, <2>8 DEF AllIn
    <3>2. Records(n, h, e.changes)
      BY <2>8, <2>9, <3>1, PushedAllData
    <3> QED
      BY <3>2 DEF Records
  <2>11. Extends(n, history) /\ Len(history.items) \in Nat
    BY <2>6, <2>7, <2>10 DEF Extends
  <2>12. SlabInv(M, n.cur, n, 0)
    BY <2>3, <2>6, <2>7, <2>10, <2>11, EditFits
  <2> QED
    BY <2>1, <2>4, <2>9, <2>12
<1> QED
  BY <1>2, <1>3

\* The slab holds exactly the items of the collection and those that retained changes will
\* give back, for every collection whose edits and releases keep to KeepsSlab: a delta can
\* always be shown (ChangeFeedRef::delta), no key is reused while a change names it, and
\* compact leaves no value behind.
THEOREM SpecSlabHoldsWhatIsNamed ==
    ASSUME NEW M, KeepsSlab(M, Models, Edits, Release, Stored, Live, Names, Frees)
    PROVE  Spec => []SlabHoldsWhatIsNamed
<1> DEFINE Inv == SlabInv(M, history.cur, history, 0)
<1>1. Init => Inv
  <2> SUFFICES ASSUME Init PROVE Inv
    OBVIOUS
  <2>1. PICK m \in Models : history = [base |-> 0, items |-> <<>>, endRefs |-> 0, cur |-> m]
    BY DEF Init
  <2>2. m \in M /\ Stored(m) = Live(m)
    BY DEF KeepsSlab
  <2>3. history.cur = m /\ Len(history.items) = 0 /\ 0 + 1 .. 0 = {}
    BY <2>1
  <2> QED
    BY <2>2, <2>3 DEF SlabInv
<1>2. StorageInv /\ Inv /\ [Next]_vars => Inv'
  <2> SUFFICES ASSUME StorageInv, Inv, [Next]_vars PROVE Inv'
    OBVIOUS
  <2>1. OnlyCompacts \/ Record
    BY NextStorageInv
  <2> QED
    BY <2>1, SlabStep
<1>3. ASSUME StorageInv, Inv
      PROVE  SlabHoldsWhatIsNamed
  <2>1. Len(history.items) \in Nat /\ DOMAIN history.items = 1 .. Len(history.items)
    <3>1. history \in Histories(DataOf(history), {history.cur})
      BY <1>3 DEF StorageInv, FeedInv
    <3> QED
      BY <3>1, HistoryParts
  <2>2. 0 + 1 .. Len(history.items) = DOMAIN history.items
    BY <2>1
  <2> DEFINE changes == {history.items[i].data : i \in DOMAIN history.items}
             freed == {Frees(history.items[i].data) : i \in DOMAIN history.items}
  <2>3. /\ Stored(history.cur) = Live(history.cur) \cup UNION freed
        /\ \A i \in DOMAIN history.items :
              Names(history.items[i].data) \subseteq Stored(history.cur)
    BY <1>3, <2>2 DEF SlabInv
  <2>4. freed = {Frees(c) : c \in changes}
    OBVIOUS
  <2>5. \A c \in changes : Names(c) \subseteq Stored(history.cur)
    BY <2>3
  <2> QED
    BY <2>3, <2>4, <2>5 DEF SlabHoldsWhatIsNamed
<1> HIDE DEF Inv
<1> QED
  BY <1>1, <1>2, <1>3, SpecStorageInv, PTL DEF Spec

-----------------------------------------------------------------------------
(* A slab map keeps its slab. *)

SlotMaps == UNION {[K -> [value : Item, exists : BOOLEAN]] : K \in SUBSET SlabKey}
SlabModels == [kind : {"slab"}, slots : SlotMaps]

\* The parts of a slab map.
LEMMA SlotsAre ==
    ASSUME NEW m \in SlabModels
    PROVE  /\ DOMAIN m.slots \subseteq SlabKey
           /\ m.slots \in [DOMAIN m.slots -> [value : Item, exists : BOOLEAN]]
           /\ m = [kind |-> "slab", slots |-> m.slots]
BY DEF SlabModels, SlotMaps

\* What is one.
LEMMA SlotsOf ==
    ASSUME NEW K \in SUBSET SlabKey, NEW s \in [K -> [value : Item, exists : BOOLEAN]]
    PROVE  [kind |-> "slab", slots |-> s] \in SlabModels
BY DEF SlabModels, SlotMaps

\* ItemsMut::insert of a slab map names a key that was vacant.
LEMMA InsertSlabKeeps ==
    ASSUME NEW m \in SlabModels, NEW k \in SlabKey \ DOMAIN m.slots, NEW v \in Item
    PROVE  EditKeepsSlab(SlabModels, m, InsertSlab(m, k, v), SlabStored, Existing, SlabNames,
                         SlabFrees)
<1>1. PICK e : e = InsertSlab(m, k, v)
  OBVIOUS
<1>2. PICK K, s : K = DOMAIN m.slots /\ s = m.slots
  OBVIOUS
<1>3. PICK t : t = [x \in K \cup {k} |-> IF x = k THEN [value |-> v, exists |-> TRUE] ELSE s[x]]
  OBVIOUS
<1>4. /\ K \subseteq SlabKey /\ s \in [K -> [value : Item, exists : BOOLEAN]]
      /\ m = [kind |-> "slab", slots |-> s] /\ k \in SlabKey \ K
  BY <1>2, SlotsAre
<1>5. e.model = [kind |-> "slab", slots |-> t] /\ e.changes = <<SlabChange("Insert", k)>>
  BY <1>1, <1>3, <1>4 DEF InsertSlab
<1>6. t \in [K \cup {k} -> [value : Item, exists : BOOLEAN]]
  BY <1>3, <1>4
<1>7. e.model \in SlabModels
  BY <1>4, <1>5, <1>6, SlotsOf
<1>8. SlabStored(m) = K /\ SlabStored(e.model) = K \cup {k}
  BY <1>4, <1>5, <1>6 DEF SlabStored
<1>9. Existing(m) = {x \in K : s[x].exists} /\ Existing(e.model) = Existing(m) \cup {k}
  BY <1>3, <1>4, <1>5, <1>6 DEF Existing
<1>10. Len(e.changes) = 1 /\ e.changes[1] = SlabChange("Insert", k)
  BY <1>5
<1>11. SlabNames(e.changes[1]) = {k} /\ SlabFrees(e.changes[1]) = {}
  BY <1>10 DEF SlabNames, SlabFrees, SlabChange
<1>12. 1 .. 1 = {1} /\ \A j \in 1 + 1 .. 1 : FALSE
  OBVIOUS
<1>13. UNION {SlabFrees(e.changes[i]) : i \in 1 .. 1} = {}
  BY <1>11, <1>12
<1> QED
  BY <1>1, <1>4, <1>7, <1>8, <1>9, <1>10, <1>11, <1>12, <1>13 DEF EditKeepsSlab

\* ItemsMut::remove of a slab map leaves the item for the release of its change.
LEMMA RemoveSlabKeeps ==
    ASSUME NEW m \in SlabModels, NEW k \in Existing(m)
    PROVE  EditKeepsSlab(SlabModels, m, RemoveSlab(m, k), SlabStored, Existing, SlabNames,
                         SlabFrees)
<1>1. PICK e : e = RemoveSlab(m, k)
  OBVIOUS
<1>2. PICK K, s : K = DOMAIN m.slots /\ s = m.slots
  OBVIOUS
<1>3. PICK t : t = [s EXCEPT ![k].exists = FALSE]
  OBVIOUS
<1>4. /\ K \subseteq SlabKey /\ s \in [K -> [value : Item, exists : BOOLEAN]]
      /\ m = [kind |-> "slab", slots |-> s] /\ k \in K
  BY <1>2, SlotsAre DEF Existing
<1>5. e.model = [kind |-> "slab", slots |-> t] /\ e.changes = <<SlabChange("Remove", k)>>
  BY <1>1, <1>3, <1>4 DEF RemoveSlab
<1>6. t \in [K -> [value : Item, exists : BOOLEAN]]
  BY <1>3, <1>4
<1>7. e.model \in SlabModels
  BY <1>4, <1>5, <1>6, SlotsOf
<1>8. SlabStored(m) = K /\ SlabStored(e.model) = K
  BY <1>4, <1>5, <1>6 DEF SlabStored
<1>9. /\ Existing(m) = {x \in K : s[x].exists} /\ Existing(e.model) = Existing(m) \ {k}
      /\ k \in Existing(m)
  BY <1>3, <1>4, <1>5, <1>6 DEF Existing
<1>10. Len(e.changes) = 1 /\ e.changes[1] = SlabChange("Remove", k)
  BY <1>5
<1>11. SlabNames(e.changes[1]) = {k} /\ SlabFrees(e.changes[1]) = {k}
  BY <1>10 DEF SlabNames, SlabFrees, SlabChange
<1>12. 1 .. 1 = {1} /\ \A j \in 1 + 1 .. 1 : FALSE
  OBVIOUS
<1>13. UNION {SlabFrees(e.changes[i]) : i \in 1 .. 1} = {k}
  BY <1>11, <1>12
<1>14. PICK L : L = Existing(m) /\ L \subseteq K /\ k \in L /\ Existing(e.model) = L \ {k}
  BY <1>9
<1>15. K = (L \ {k}) \cup (K \ L) \cup {k} /\ (K \ L) \cap (L \ {k}) = {}
       /\ {k} \subseteq {k} \ (L \ {k}) /\ {k} \subseteq K \ (K \ L)
  BY <1>14
<1> QED
  BY <1>1, <1>7, <1>8, <1>10, <1>11, <1>12, <1>13, <1>14, <1>15 DEF EditKeepsSlab

\* SlabMapModel::release_change gives the key back.
LEMMA SlabReleaseKeeps ==
    ASSUME NEW m \in SlabModels, NEW c
    PROVE  ReleaseKeepsSlab(SlabModels, m, c, SlabRelease, SlabStored, Existing, SlabFrees)
<1> SUFFICES ASSUME SlabFrees(c) \subseteq SlabStored(m) \ Existing(m)
             PROVE  /\ SlabRelease(m, c) \in SlabModels
                    /\ SlabStored(SlabRelease(m, c)) = SlabStored(m) \ SlabFrees(c)
                    /\ Existing(SlabRelease(m, c)) = Existing(m)
  BY DEF ReleaseKeepsSlab
<1>1. CASE c.op = "Remove"
  <2>1. PICK K, s : K = DOMAIN m.slots /\ s = m.slots
    OBVIOUS
  <2>2. PICK t : t = [k \in K \ {c.key} |-> s[k]]
    OBVIOUS
  <2>3. /\ K \subseteq SlabKey /\ s \in [K -> [value : Item, exists : BOOLEAN]]
        /\ m = [kind |-> "slab", slots |-> s]
    BY <2>1, SlotsAre
  <2>4. PICK r : r = SlabRelease(m, c)
    OBVIOUS
  <2>5. r = [kind |-> "slab", slots |-> t]
    BY <1>1, <2>2, <2>3, <2>4 DEF SlabRelease
  <2>6. t \in [K \ {c.key} -> [value : Item, exists : BOOLEAN]]
    BY <2>2, <2>3
  <2>7. r \in SlabModels
    BY <2>3, <2>5, <2>6, SlotsOf
  <2>8. SlabStored(m) = K /\ SlabStored(r) = K \ {c.key} /\ SlabFrees(c) = {c.key}
    BY <1>1, <2>3, <2>5, <2>6 DEF SlabStored, SlabFrees
  <2>9. Existing(m) = {x \in K : s[x].exists} /\ Existing(r) = {x \in K \ {c.key} : t[x].exists}
    BY <2>3, <2>5, <2>6 DEF Existing
  <2>10. \A x \in K \ {c.key} : t[x] = s[x]
    BY <2>2
  <2>11. c.key \notin Existing(m)
    BY <2>8
  <2> QED
    BY <2>4, <2>7, <2>8, <2>9, <2>10, <2>11
<1>2. CASE c.op # "Remove"
  BY <1>2 DEF SlabRelease, SlabFrees
<1> QED
  BY <1>1, <1>2

\* A slab map keeps to the contract: a removed item stays under its key, and the key is not
\* given out again, until its Remove change is released (SlabMapModel).
THEOREM SlabKeepsContract ==
    KeepsSlab(SlabModels, {NewSlab}, SlabEdits, SlabRelease, SlabStored, Existing, SlabNames,
              SlabFrees)
<1>1. NewSlab \in SlabModels /\ SlabStored(NewSlab) = Existing(NewSlab)
  <2>1. <<>> \in [{} -> [value : Item, exists : BOOLEAN]]
    OBVIOUS
  <2>2. NewSlab \in SlabModels
    BY <2>1, SlotsOf DEF NewSlab
  <2> QED
    BY <2>2 DEF NewSlab, SlabStored, Existing
<1>2. ASSUME NEW m \in SlabModels, NEW e \in SlabEdits(m)
      PROVE  EditKeepsSlab(SlabModels, m, e, SlabStored, Existing, SlabNames, SlabFrees)
  <2>1. CASE \E k \in SlabKey \ DOMAIN m.slots, v \in Item : e = InsertSlab(m, k, v)
    BY <2>1, InsertSlabKeeps
  <2>2. CASE \E k \in Existing(m) : e = RemoveSlab(m, k)
    BY <2>2, RemoveSlabKeeps
  <2>3. \/ \E k \in SlabKey \ DOMAIN m.slots, v \in Item : e = InsertSlab(m, k, v)
        \/ \E k \in Existing(m) : e = RemoveSlab(m, k)
    BY DEF SlabEdits
  <2> QED
    BY <2>1, <2>2, <2>3
<1> QED
  BY <1>1, <1>2, SlabReleaseKeeps DEF KeepsSlab

-----------------------------------------------------------------------------
(* The list of keys of a StateVec, and what the calls of ItemsMut do to it. *)

Lists == {s \in Seq(VecKey) : \A i, j \in 1 .. Len(s) : s[i] = s[j] => i = j}

\* Facts of a list, and what is one.
LEMMA ListIs ==
    ASSUME NEW s \in Lists
    PROVE  /\ Len(s) \in Nat /\ DOMAIN s = 1 .. Len(s) /\ s \in [1 .. Len(s) -> VecKey]
           /\ ToSet(s) = {s[i] : i \in 1 .. Len(s)}
           /\ \A i, j \in 1 .. Len(s) : s[i] = s[j] => i = j
BY DEF Lists, ToSet

LEMMA ListOf ==
    ASSUME NEW n \in Nat, NEW t \in [1 .. n -> VecKey],
           \A i, j \in 1 .. n : t[i] = t[j] => i = j
    PROVE  t \in Lists /\ Len(t) = n
<1>1. t \in Seq(VecKey) /\ Len(t) = n
  OBVIOUS
<1> QED
  BY <1>1 DEF Lists

\* A list in another order.
Rearranges(t, s) == t \in Lists /\ Len(t) = Len(s) /\ ToSet(t) = ToSet(s)

\* What an order of n places is.
LEMMA OrderIs ==
    ASSUME NEW n \in Nat, NEW p
    PROVE  p \in Bijection(1 .. n, 1 .. n) <=>
               /\ p \in [1 .. n -> 1 .. n]
               /\ \A i, j \in 1 .. n : p[i] = p[j] => i = j
               /\ \A j \in 1 .. n : \E i \in 1 .. n : p[i] = j
<1>1. p \in [1 .. n -> 1 .. n] =>
         (IsInjective(p) <=> \A i, j \in 1 .. n : p[i] = p[j] => i = j)
  BY DEF IsInjective
<1> QED
  BY <1>1 DEF Bijection, Injection, Surjection

\* A list in the order p.
LEMMA Rearranged ==
    ASSUME NEW s \in Lists, NEW n, n = Len(s), NEW p \in Bijection(1 .. n, 1 .. n),
           NEW t, t = [i \in 1 .. n |-> s[p[i]]]
    PROVE  Rearranges(t, s)
<1>1. /\ n \in Nat /\ p \in [1 .. n -> 1 .. n]
      /\ \A i, j \in 1 .. n : p[i] = p[j] => i = j
      /\ \A j \in 1 .. n : \E i \in 1 .. n : p[i] = j
  <2>1. n \in Nat
    BY ListIs
  <2> QED
    BY <2>1, OrderIs
<1>2. /\ s \in [1 .. n -> VecKey] /\ ToSet(s) = {s[i] : i \in 1 .. n}
      /\ \A i, j \in 1 .. n : s[i] = s[j] => i = j
  BY ListIs
<1>3. t \in [1 .. n -> VecKey] /\ \A i \in 1 .. n : t[i] = s[p[i]] /\ p[i] \in 1 .. n
  BY <1>1, <1>2
<1>4. \A i, j \in 1 .. n : t[i] = t[j] => i = j
  BY <1>1, <1>2, <1>3
<1>5. t \in Lists /\ Len(t) = n
  BY <1>3, <1>4, ListOf
<1>6. ToSet(t) = {t[i] : i \in 1 .. n}
  BY <1>5, ListIs
<1>7. ToSet(t) = ToSet(s)
  <2>1. \A x : x \in ToSet(t) <=> \E i \in 1 .. n : x = t[i]
    BY <1>6
  <2>2. \A x : x \in ToSet(s) <=> \E i \in 1 .. n : x = s[i]
    BY <1>2
  <2>3. ASSUME NEW x \in ToSet(t)
        PROVE  x \in ToSet(s)
    <3>1. PICK i \in 1 .. n : x = t[i]
      BY <2>1
    <3> QED
      BY <1>3, <2>2, <3>1
  <2>4. ASSUME NEW x \in ToSet(s)
        PROVE  x \in ToSet(t)
    <3>1. PICK j \in 1 .. n : x = s[j]
      BY <2>2
    <3>2. PICK i \in 1 .. n : p[i] = j
      BY <1>1
    <3> QED
      BY <1>3, <2>1, <3>1, <3>2
  <2> QED
    BY <2>3, <2>4
<1> QED
  BY <1>5, <1>7 DEF Rearranges

\* slice::swap.
LEMMA SwappedIs ==
    ASSUME NEW s \in Lists, NEW i \in 1 .. Len(s), NEW j \in 1 .. Len(s)
    PROVE  Rearranges(Swapped(s, i, j), s)
<1>1. PICK n \in Nat : n = Len(s)
  BY ListIs
<1>2. PICK p : p = [x \in 1 .. n |-> IF x = i THEN j ELSE IF x = j THEN i ELSE x]
  OBVIOUS
<1>3. /\ p \in [1 .. n -> 1 .. n]
      /\ \A x \in 1 .. n : p[x] = IF x = i THEN j ELSE IF x = j THEN i ELSE x
  BY <1>1, <1>2
<1>4. \A x, y \in 1 .. n : p[x] = p[y] => x = y
  BY <1>1, <1>3
<1>5. \A y \in 1 .. n : \E x \in 1 .. n : p[x] = y
  <2> TAKE y \in 1 .. n
  <2>1. p[y] \in 1 .. n /\ p[p[y]] = y
    BY <1>1, <1>3
  <2> QED
    BY <2>1
<1>6. s \in [1 .. n -> VecKey]
  BY <1>1, ListIs
<1>7. Swapped(s, i, j) = [x \in 1 .. n |-> s[p[x]]]
  BY <1>1, <1>3, <1>6 DEF Swapped
<1>8. p \in Bijection(1 .. n, 1 .. n)
  BY <1>3, <1>4, <1>5, OrderIs
<1> QED
  BY <1>1, <1>7, <1>8, Rearranged

\* slice::rotate_left and rotate_right.
LEMMA RotatedIs ==
    ASSUME NEW s \in Lists, NEW i \in 1 .. Len(s), NEW j \in 1 .. Len(s), i <= j
    PROVE  Rearranges(RotateLeft(s, i, j), s) /\ Rearranges(RotateRight(s, i, j), s)
<1>1. PICK n \in Nat : n = Len(s)
  BY ListIs
<1> DEFINE L == [x \in 1 .. n |-> IF i <= x /\ x < j THEN x + 1 ELSE IF x = j THEN i ELSE x]
           R == [x \in 1 .. n |-> IF i < x /\ x <= j THEN x - 1 ELSE IF x = i THEN j ELSE x]
<1>2. s \in [1 .. n -> VecKey] /\ DOMAIN s = 1 .. n
  BY <1>1, ListIs
<1>3. /\ L \in [1 .. n -> 1 .. n]
      /\ \A x \in 1 .. n : L[x] = IF i <= x /\ x < j THEN x + 1 ELSE IF x = j THEN i ELSE x
  BY <1>1
<1>4. /\ R \in [1 .. n -> 1 .. n]
      /\ \A x \in 1 .. n : R[x] = IF i < x /\ x <= j THEN x - 1 ELSE IF x = i THEN j ELSE x
  BY <1>1
<1> HIDE DEF L, R
<1>5. (\A x \in 1 .. n : L[R[x]] = x) /\ \A x \in 1 .. n : R[L[x]] = x
  <2>1. ASSUME NEW x \in 1 .. n
        PROVE  L[R[x]] = x /\ R[L[x]] = x
    <3>1. L[x] \in 1 .. n /\ R[x] \in 1 .. n
      BY <1>3, <1>4
    <3> QED
      BY <1>1, <1>3, <1>4, <3>1
  <2> QED
    BY <2>1
<1>6. /\ \A x, y \in 1 .. n : L[x] = L[y] => x = y
      /\ \A x, y \in 1 .. n : R[x] = R[y] => x = y
      /\ \A y \in 1 .. n : \E x \in 1 .. n : L[x] = y
      /\ \A y \in 1 .. n : \E x \in 1 .. n : R[x] = y
  BY <1>3, <1>4, <1>5
<1>7. RotateLeft(s, i, j) = [x \in 1 .. n |-> s[L[x]]]
  <2>1. \A x \in 1 .. n :
           (CASE i <= x /\ x < j -> s[x + 1] [] x = j -> s[i] [] OTHER -> s[x]) = s[L[x]]
    BY <1>1, <1>3
  <2> QED
    BY <1>2, <2>1 DEF RotateLeft
<1>8. RotateRight(s, i, j) = [x \in 1 .. n |-> s[R[x]]]
  <2>1. \A x \in 1 .. n :
           (CASE i < x /\ x <= j -> s[x - 1] [] x = i -> s[j] [] OTHER -> s[x]) = s[R[x]]
    BY <1>1, <1>4
  <2> QED
    BY <1>2, <2>1 DEF RotateRight
<1>9. L \in Bijection(1 .. n, 1 .. n) /\ R \in Bijection(1 .. n, 1 .. n)
  BY <1>3, <1>4, <1>6, OrderIs
<1>10. Rearranges(RotateLeft(s, i, j), s)
  BY <1>1, <1>7, <1>9, Rearranged
<1>11. Rearranges(RotateRight(s, i, j), s)
  BY <1>1, <1>8, <1>9, Rearranged
<1> QED
  BY <1>10, <1>11

\* IndexNewToOld::build_old_to_new.
LEMMA OldToNewIs ==
    ASSUME NEW n \in Nat, NEW p \in Bijection(1 .. n, 1 .. n)
    PROVE  OldToNew(p) \in [1 .. n -> 1 .. n]
<1>1. p \in [1 .. n -> 1 .. n] /\ \A j \in 1 .. n : \E i \in 1 .. n : p[i] = j
  BY OrderIs
<1>2. \A j \in 1 .. n : (CHOOSE i \in 1 .. n : p[i] = j) \in 1 .. n
  BY <1>1
<1>3. DOMAIN p = 1 .. n
  BY <1>1
<1> QED
  BY <1>2, <1>3 DEF OldToNew

\* What apply_to goes through, in the function f.
Homes(s) == [s : {t \in Lists : Rearranges(t, s)}, o2n : [1 .. Len(s) -> 1 .. Len(s)],
             old : 1 .. Len(s)]
StartsAt(p, s) == [s |-> s, o2n |-> OldToNew(p), old |-> 1]
AppliesAre(p, s, f) ==
    f = [i \in 0 .. 2 * Len(s) |-> IF i = 0 THEN StartsAt(p, s) ELSE Homed(Len(s), f[i - 1])]

\* A round of apply_to moves the items.
LEMMA HomedIs ==
    ASSUME NEW s \in Lists, NEW st \in Homes(s)
    PROVE  Homed(Len(s), st) \in Homes(s)
<1>1. PICK n \in Nat : n = Len(s)
  BY ListIs
<1>2. PICK t, o, i, j : t = st.s /\ o = st.o2n /\ i = st.old /\ j = o[i]
  OBVIOUS
<1>3. /\ t \in Lists /\ Rearranges(t, s) /\ o \in [1 .. n -> 1 .. n] /\ i \in 1 .. n
      /\ j \in 1 .. n /\ st = [s |-> t, o2n |-> o, old |-> i]
  BY <1>1, <1>2 DEF Homes
<1>4. CASE j = i
  <2>1. PICK k : k = IF i = n THEN n ELSE i + 1
    OBVIOUS
  <2>2. Homed(n, st) = [s |-> t, o2n |-> o, old |-> k]
    BY <1>2, <1>3, <1>4, <2>1 DEF Homed
  <2>3. k \in 1 .. n
    BY <1>1, <1>3, <2>1
  <2> QED
    BY <1>1, <1>3, <2>2, <2>3 DEF Homes
<1>5. CASE j # i
  <2>1. Homed(n, st) = [s |-> Swapped(t, i, j), o2n |-> Swapped(o, i, j), old |-> i]
    BY <1>2, <1>3, <1>5 DEF Homed
  <2>2. Rearranges(Swapped(t, i, j), t)
    <3>1. Len(t) = n
      BY <1>1, <1>3 DEF Rearranges
    <3> QED
      BY <1>3, <3>1, SwappedIs
  <2>3. Rearranges(Swapped(t, i, j), s) /\ Swapped(t, i, j) \in Lists
    BY <1>3, <2>2 DEF Rearranges
  <2>4. Swapped(o, i, j) \in [1 .. n -> 1 .. n]
    BY <1>3 DEF Swapped
  <2> QED
    BY <1>1, <1>3, <2>1, <2>3, <2>4 DEF Homes
<1> QED
  BY <1>4, <1>5

\* IndexNewToOld::apply_to moves the items, and loses none.
LEMMA ApplyToIs ==
    ASSUME NEW s \in Lists, Len(s) # 0, NEW p \in Bijection(1 .. Len(s), 1 .. Len(s))
    PROVE  Rearranges(ApplyTo(p, s), s)
<1>1. PICK n \in Nat : n = Len(s) /\ n # 0
  BY ListIs
<1> DEFINE X == Homes(s)
           F == [q \in X \X (1 .. 2 * n) |-> Homed(n, q[1])]
           G == CHOOSE f : AppliesAre(p, s, f)
<1>2. PICK start \in X : start = StartsAt(p, s)
  <2>1. Rearranges(s, s) /\ 1 \in 1 .. n
    BY <1>1 DEF Rearranges
  <2>2. OldToNew(p) \in [1 .. n -> 1 .. n]
    BY <1>1, OldToNewIs
  <2> QED
    BY <1>1, <2>1, <2>2 DEF Homes, StartsAt
<1>3. \A st \in X : Homed(n, st) \in X
  BY <1>1, HomedIs
<1> HIDE DEF X
<1>4. F \in [X \X (1 .. 2 * n) -> X] /\ 2 * n \in Nat
  BY <1>1, <1>3
<1>5. PICK f : Recursive(f, X, start, 2 * n, F)
  <2> HIDE DEF F
  <2> QED
    BY <1>4, NatRecursion
<1>6. /\ f \in [0 .. 2 * n -> X] /\ f[0] = start
      /\ \A i \in 1 .. 2 * n : f[i] = Homed(n, f[i - 1])
  <2>1. /\ f \in [0 .. 2 * n -> X] /\ f[0] = start
        /\ \A i \in 1 .. 2 * n : f[i] = F[<<f[i - 1], i>>]
    BY <1>5 DEF Recursive
  <2>2. \A i \in 1 .. 2 * n : f[i - 1] \in X
    BY <1>1, <2>1
  <2> QED
    BY <2>1, <2>2
<1> HIDE DEF F
<1>7. AppliesAre(p, s, f)
  <2>1. f = [i \in 0 .. 2 * n |-> f[i]]
    BY <1>6
  <2>2. \A i \in 0 .. 2 * n : f[i] = IF i = 0 THEN StartsAt(p, s) ELSE Homed(n, f[i - 1])
    BY <1>1, <1>2, <1>6
  <2> QED
    BY <1>1, <2>1, <2>2 DEF AppliesAre
<1>8. AppliesAre(p, s, G)
  BY <1>7
<1>9. ApplyTo(p, s) = G[2 * n].s
  BY <1>1 DEF ApplyTo, AppliesAre, StartsAt
<1>10. \A i \in 0 .. 2 * n : G[i] = IF i = 0 THEN StartsAt(p, s) ELSE Homed(n, G[i - 1])
  BY <1>1, <1>8 DEF AppliesAre
<1> HIDE DEF G
<1> DEFINE T == {i \in Nat : i <= 2 * n => G[i] \in X}
<1>11. T = Nat
  <2>1. 0 \in T
    BY <1>1, <1>2, <1>10
  <2>2. ASSUME NEW i \in T
        PROVE  i + 1 \in T
    <3> SUFFICES ASSUME i + 1 <= 2 * n
                 PROVE  G[i + 1] \in X
      BY <1>1
    <3>1. i \in Nat /\ i <= 2 * n /\ i + 1 \in 0 .. 2 * n /\ (i + 1) - 1 = i /\ i + 1 # 0
      BY <1>1
    <3> QED
      BY <1>3, <1>10, <3>1
  <2> HIDE DEF T
  <2>3. T \in SUBSET Nat
    BY DEF T
  <2> QED
    BY <2>1, <2>2, <2>3, NatSetInduction
<1>12. G[2 * n] \in X
  <2>1. 2 * n \in T
    BY <1>4, <1>11
  <2> QED
    BY <1>1, <2>1
<1> QED
  BY <1>9, <1>12 DEF X, Homes

\* A list without its items from i up to j, j excluded.
Cut(s, i, j) == SubSeq(s, 1, i - 1) \o SubSeq(s, j, Len(s))

\* ItemsMut::drain takes away the items that it names, and no others.
LEMMA CutIs ==
    ASSUME NEW s \in Lists, NEW i \in 1 .. Len(s), NEW j \in 1 .. Len(s) + 1, i <= j
    PROVE  Cut(s, i, j) \in Lists /\ ToSet(Cut(s, i, j)) = ToSet(s) \ {s[x] : x \in i .. j - 1}
<1>1. PICK n \in Nat : n = Len(s)
  BY ListIs
<1>2. PICK d \in Nat : d = j - i
  BY <1>1
<1>3. /\ s \in [1 .. n -> VecKey] /\ ToSet(s) = {s[x] : x \in 1 .. n} /\ s \in Seq(VecKey)
      /\ \A x, y \in 1 .. n : s[x] = s[y] => x = y
  BY <1>1, ListIs DEF Lists
<1>4. PICK t : t = Cut(s, i, j)
  OBVIOUS
<1>5. /\ \A x \in 1 .. n - d : x \in 1 .. n /\ (x >= i => x + d \in 1 .. n) /\ n - d \in Nat
      /\ n - d \in Nat
  BY <1>1, <1>2
<1>6. /\ t \in Seq(VecKey) /\ Len(t) = n - d
      /\ \A x \in 1 .. n - d : t[x] = IF x < i THEN s[x] ELSE s[x + d]
  <2>1. PICK a, b : a = SubSeq(s, 1, i - 1) /\ b = SubSeq(s, j, n)
    OBVIOUS
  <2>2. /\ a \in Seq(VecKey) /\ Len(a) = i - 1 /\ \A x \in 1 .. i - 1 : a[x] = s[x]
    BY <1>1, <1>3, <2>1
  <2>3. /\ b \in Seq(VecKey) /\ Len(b) = n - j + 1 /\ \A x \in 1 .. n - j + 1 : b[x] = s[x + j - 1]
    BY <1>1, <1>3, <2>1
  <2>4. t = a \o b /\ Len(a) + Len(b) = n - d
    <3>1. t = a \o b
      BY <1>1, <1>4, <2>1 DEF Cut
    <3>2. Len(a) + Len(b) = n - d
      BY <1>1, <1>2, <2>2, <2>3
    <3> QED
      BY <3>1, <3>2
  <2>5. /\ t \in Seq(VecKey) /\ Len(t) = n - d
        /\ \A x \in 1 .. n - d : t[x] = IF x <= i - 1 THEN a[x] ELSE b[x - (i - 1)]
    <3>1. a \in Seq(VecKey) /\ b \in Seq(VecKey)
      BY <2>2, <2>3, <2>4
    <3>2. /\ a \o b \in Seq(VecKey) /\ Len(a \o b) = Len(a) + Len(b)
          /\ \A x \in 1 .. Len(a) + Len(b) :
                (a \o b)[x] = IF x <= Len(a) THEN a[x] ELSE b[x - Len(a)]
      BY <3>1, ConcatIs
    <3> QED
      BY <2>2, <2>3, <2>4, <3>2
  <2>6. ASSUME NEW x \in 1 .. n - d
        PROVE  t[x] = IF x < i THEN s[x] ELSE s[x + d]
    <3>1. CASE x < i
      <4>1. x <= i - 1 /\ x \in 1 .. i - 1
        BY <1>1, <1>2, <3>1
      <4> QED
        BY <2>2, <2>5, <3>1, <4>1
    <3>2. CASE ~(x < i)
      <4>1. /\ ~(x <= i - 1) /\ x - (i - 1) \in 1 .. n - j + 1
            /\ (x - (i - 1)) + j - 1 = x + d
        BY <1>1, <1>2, <3>2
      <4> QED
        BY <2>3, <2>5, <3>2, <4>1
    <3> QED
      BY <3>1, <3>2
  <2> QED
    BY <2>5, <2>6
<1>8. \A x, y \in 1 .. n - d : t[x] = t[y] => x = y
  <2> SUFFICES ASSUME NEW x \in 1 .. n - d, NEW y \in 1 .. n - d, t[x] = t[y]
               PROVE  x = y
    OBVIOUS
  <2>1. x \in 1 .. n /\ y \in 1 .. n /\ (x >= i => x + d \in 1 .. n) /\ (y >= i => y + d \in 1 .. n)
    BY <1>5
  <2> QED
    BY <1>1, <1>3, <1>6, <2>1
<1>9. t \in Lists /\ Len(t) = n - d
  BY <1>6, <1>8 DEF Lists
<1>10. ToSet(t) = {t[x] : x \in 1 .. n - d}
  BY <1>9, ListIs
<1>11. ASSUME NEW v \in ToSet(t)
       PROVE  v \in ToSet(s) /\ v \notin {s[x] : x \in i .. j - 1}
  <2>1. PICK x \in 1 .. n - d : v = t[x]
    BY <1>10
  <2>2. PICK y \in 1 .. n : v = s[y] /\ y \notin i .. j - 1
    <3>1. CASE x < i
      <4>1. x \in 1 .. n /\ x \notin i .. j - 1
        BY <1>1, <1>5, <3>1
      <4> QED
        BY <1>6, <2>1, <3>1, <4>1
    <3>2. CASE ~(x < i)
      <4>1. x + d \in 1 .. n /\ x + d \notin i .. j - 1
        BY <1>1, <1>2, <1>5, <3>2
      <4> QED
        BY <1>6, <2>1, <3>2, <4>1
    <3> QED
      BY <3>1, <3>2
  <2>3. \A x_1 \in i .. j - 1 : x_1 \in 1 .. n
    BY <1>1
  <2> QED
    BY <1>3, <2>2, <2>3
<1>12. ASSUME NEW v \in ToSet(s), v \notin {s[x] : x \in i .. j - 1}
       PROVE  v \in ToSet(t)
  <2>1. PICK y \in 1 .. n : v = s[y]
    BY <1>3
  <2>2. y \notin i .. j - 1
    BY <1>12, <2>1
  <2>3. CASE y < i
    <3>1. y \in 1 .. n - d
      BY <1>1, <1>2, <2>3
    <3> QED
      BY <1>6, <1>10, <2>1, <2>3, <3>1
  <2>4. CASE y >= j
    <3>1. y - d \in 1 .. n - d /\ ~(y - d < i) /\ (y - d) + d = y
      BY <1>1, <1>2, <2>4
    <3> QED
      BY <1>6, <1>10, <2>1, <3>1
  <2> QED
    BY <1>1, <2>2, <2>3, <2>4
<1> QED
  BY <1>4, <1>9, <1>11, <1>12

\* Vec::remove.
LEMMA RemoveAtIs ==
    ASSUME NEW s \in Lists, NEW i \in 1 .. Len(s)
    PROVE  RemoveAt(s, i) \in Lists /\ ToSet(RemoveAt(s, i)) = ToSet(s) \ {s[i]}
<1>1. Len(s) \in Nat
  BY ListIs
<1>2. i + 1 \in 1 .. Len(s) + 1 /\ i <= i + 1 /\ i .. (i + 1) - 1 = {i}
  BY <1>1
<1>3. RemoveAt(s, i) = Cut(s, i, i + 1)
  BY DEF RemoveAt, Cut
<1>4. {s[x] : x \in i .. (i + 1) - 1} = {s[i]}
  BY <1>2
<1> QED
  BY <1>2, <1>3, <1>4, CutIs

\* A list with one more key.
LEMMA InsertAtIs ==
    ASSUME NEW s \in Lists, NEW i \in 1 .. Len(s) + 1, NEW k \in VecKey \ ToSet(s)
    PROVE  InsertAt(s, i, k) \in Lists /\ ToSet(InsertAt(s, i, k)) = ToSet(s) \cup {k}
<1>1. PICK n \in Nat : n = Len(s)
  BY ListIs
<1>2. /\ s \in [1 .. n -> VecKey] /\ ToSet(s) = {s[x] : x \in 1 .. n} /\ s \in Seq(VecKey)
      /\ \A x, y \in 1 .. n : s[x] = s[y] => x = y
  BY <1>1, ListIs DEF Lists
<1>3. PICK t : t = InsertAt(s, i, k)
  OBVIOUS
<1>4. /\ \A x \in 1 .. n + 1 : (x < i => x \in 1 .. n) /\ (x > i => x - 1 \in 1 .. n)
      /\ \A x \in 1 .. n + 1 : x < i \/ x = i \/ x > i
  BY <1>1
<1>5. /\ t \in Seq(VecKey) /\ Len(t) = n + 1
      /\ \A x \in 1 .. n + 1 : t[x] = IF x < i THEN s[x] ELSE IF x = i THEN k ELSE s[x - 1]
  <2>1. PICK a, b : a = SubSeq(s, 1, i - 1) /\ b = SubSeq(s, i, n)
    OBVIOUS
  <2>2. /\ a \in Seq(VecKey) /\ Len(a) = i - 1 /\ \A x \in 1 .. i - 1 : a[x] = s[x]
    BY <1>1, <1>2, <2>1
  <2>3. /\ b \in Seq(VecKey) /\ Len(b) = n - i + 1 /\ \A x \in 1 .. n - i + 1 : b[x] = s[x + i - 1]
    BY <1>1, <1>2, <2>1
  <2>4. PICK c : c = a \o <<k>>
    OBVIOUS
  <2>5. /\ c \in Seq(VecKey) /\ Len(c) = i /\ c[i] = k /\ \A x \in 1 .. i - 1 : c[x] = s[x]
    BY <1>1, <2>2, <2>4
  <2>6. t = c \o b /\ Len(c) + Len(b) = n + 1
    <3>1. t = c \o b
      BY <1>1, <1>3, <2>1, <2>4 DEF InsertAt
    <3>2. Len(c) + Len(b) = n + 1
      BY <1>1, <2>3, <2>5
    <3> QED
      BY <3>1, <3>2
  <2>7. /\ t \in Seq(VecKey) /\ Len(t) = n + 1
        /\ \A x \in 1 .. n + 1 : t[x] = IF x <= i THEN c[x] ELSE b[x - i]
    <3>1. c \in Seq(VecKey) /\ b \in Seq(VecKey)
      BY <2>3, <2>5, <2>6
    <3>2. /\ c \o b \in Seq(VecKey) /\ Len(c \o b) = Len(c) + Len(b)
          /\ \A x \in 1 .. Len(c) + Len(b) :
                (c \o b)[x] = IF x <= Len(c) THEN c[x] ELSE b[x - Len(c)]
      BY <3>1, ConcatIs
    <3> QED
      BY <2>3, <2>5, <2>6, <3>2
  <2>8. ASSUME NEW x \in 1 .. n + 1
        PROVE  t[x] = IF x < i THEN s[x] ELSE IF x = i THEN k ELSE s[x - 1]
    <3>1. CASE x < i
      <4>1. x <= i /\ x \in 1 .. i - 1
        BY <1>1, <3>1
      <4> QED
        BY <2>5, <2>7, <3>1, <4>1
    <3>2. CASE x = i
      BY <1>1, <2>5, <2>7, <3>2
    <3>3. CASE x > i
      <4>1. ~(x <= i) /\ ~(x < i) /\ x # i /\ x - i \in 1 .. n - i + 1 /\ (x - i) + i - 1 = x - 1
        BY <1>1, <3>3
      <4> QED
        BY <2>3, <2>7, <4>1
    <3> QED
      BY <1>4, <3>1, <3>2, <3>3
  <2> QED
    BY <2>7, <2>8
<1>7. \A x \in 1 .. n : s[x] # k
  BY <1>2
<1>8. \A x, y \in 1 .. n + 1 : t[x] = t[y] => x = y
  <2> SUFFICES ASSUME NEW x \in 1 .. n + 1, NEW y \in 1 .. n + 1, t[x] = t[y]
               PROVE  x = y
    OBVIOUS
  <2>1. /\ (x < i => x \in 1 .. n) /\ (x > i => x - 1 \in 1 .. n)
        /\ (y < i => y \in 1 .. n) /\ (y > i => y - 1 \in 1 .. n)
    BY <1>4
  <2> QED
    BY <1>1, <1>2, <1>5, <1>7, <2>1
<1>9. t \in Lists
  BY <1>5, <1>8 DEF Lists
<1>10. ToSet(t) = {t[x] : x \in 1 .. n + 1}
  BY <1>5, <1>9, ListIs
<1>11. ASSUME NEW v \in ToSet(t)
       PROVE  v \in ToSet(s) \cup {k}
  <2>1. PICK x \in 1 .. n + 1 : v = t[x]
    BY <1>10
  <2> QED
    BY <1>2, <1>4, <1>5, <2>1
<1>12. ASSUME NEW v \in ToSet(s)
       PROVE  v \in ToSet(t)
  <2>1. PICK y \in 1 .. n : v = s[y]
    BY <1>2
  <2>2. CASE y < i
    BY <1>5, <1>10, <2>1, <2>2
  <2>3. CASE y >= i
    <3>1. y + 1 \in 1 .. n + 1 /\ ~(y + 1 < i) /\ y + 1 # i /\ (y + 1) - 1 = y
      BY <1>1, <2>3
    <3> QED
      BY <1>5, <1>10, <2>1, <3>1
  <2> QED
    BY <1>1, <2>2, <2>3
<1>13. k \in ToSet(t)
  <2>1. i \in 1 .. n + 1 /\ t[i] = k
    BY <1>1, <1>5
  <2> QED
    BY <1>10, <2>1
<1> QED
  BY <1>3, <1>9, <1>11, <1>12, <1>13

\* A list with another key at one place.
LEMMA PutIs ==
    ASSUME NEW s \in Lists, NEW i \in 1 .. Len(s), NEW k \in VecKey \ ToSet(s)
    PROVE  /\ [s EXCEPT ![i] = k] \in Lists
           /\ ToSet([s EXCEPT ![i] = k]) = (ToSet(s) \ {s[i]}) \cup {k}
<1>1. PICK n \in Nat : n = Len(s)
  BY ListIs
<1>2. /\ s \in [1 .. n -> VecKey] /\ ToSet(s) = {s[x] : x \in 1 .. n}
      /\ \A x, y \in 1 .. n : s[x] = s[y] => x = y
  BY <1>1, ListIs
<1>3. PICK t : t = [s EXCEPT ![i] = k]
  OBVIOUS
<1>4. t \in [1 .. n -> VecKey] /\ \A x \in 1 .. n : t[x] = IF x = i THEN k ELSE s[x]
  BY <1>2, <1>3
<1>5. \A x \in 1 .. n : s[x] # k
  BY <1>2
<1>6. \A x, y \in 1 .. n : t[x] = t[y] => x = y
  BY <1>1, <1>2, <1>4, <1>5
<1>7. t \in Lists
  BY <1>4, <1>6, ListOf
<1>8. ToSet(t) = {t[x] : x \in 1 .. n}
  BY <1>4 DEF ToSet
<1>9. ASSUME NEW v \in ToSet(t)
      PROVE  v \in (ToSet(s) \ {s[i]}) \cup {k}
  <2>1. PICK x \in 1 .. n : v = t[x]
    BY <1>8
  <2> QED
    BY <1>1, <1>2, <1>4, <2>1
<1>10. ASSUME NEW v \in (ToSet(s) \ {s[i]}) \cup {k}
       PROVE  v \in ToSet(t)
  <2>1. CASE v = k
    BY <1>1, <1>4, <1>8, <2>1
  <2>2. CASE v # k
    <3>1. PICK x \in 1 .. n : v = s[x]
      BY <1>2, <1>10, <2>2
    <3> QED
      BY <1>4, <1>8, <1>10, <2>2, <3>1
  <2> QED
    BY <2>1, <2>2
<1> QED
  BY <1>3, <1>7, <1>9, <1>10

-----------------------------------------------------------------------------
(* A StateVec keeps its slab. *)

VecMaps == UNION {[K -> Value] : K \in SUBSET VecKey}
VecOf(s, v) == [kind |-> "vec", items |-> s, values |-> v]
VecModels == {m \in {VecOf(s, v) : s \in Lists, v \in VecMaps} : VecLive(m) \subseteq VecStored(m)}

\* The parts of a StateVec.
LEMMA VecIs ==
    ASSUME NEW m \in VecModels
    PROVE  /\ m = VecOf(m.items, m.values) /\ m.items \in Lists
           /\ m.values \in [DOMAIN m.values -> Value] /\ DOMAIN m.values \subseteq VecKey
           /\ ToSet(m.items) \subseteq DOMAIN m.values
           /\ VecLive(m) = ToSet(m.items) /\ VecStored(m) = DOMAIN m.values
<1>1. PICK s \in Lists, v \in VecMaps : m = VecOf(s, v)
  BY DEF VecModels
<1>2. m.items = s /\ m.values = v
  BY <1>1 DEF VecOf
<1>3. v \in [DOMAIN v -> Value] /\ DOMAIN v \subseteq VecKey
  BY DEF VecMaps
<1>4. VecLive(m) \subseteq VecStored(m)
  BY DEF VecModels
<1> QED
  BY <1>1, <1>2, <1>3, <1>4 DEF VecLive, VecStored

\* What is one.
LEMMA IsVecModel ==
    ASSUME NEW s \in Lists, NEW K \in SUBSET VecKey, NEW v \in [K -> Value], ToSet(s) \subseteq K
    PROVE  /\ VecOf(s, v) \in VecModels /\ VecStored(VecOf(s, v)) = K
           /\ VecLive(VecOf(s, v)) = ToSet(s)
<1>1. VecOf(s, v).items = s /\ VecOf(s, v).values = v
  BY DEF VecOf
<1>2. v \in VecMaps /\ DOMAIN v = K
  BY DEF VecMaps
<1>3. VecStored(VecOf(s, v)) = K /\ VecLive(VecOf(s, v)) = ToSet(s)
  BY <1>1, <1>2 DEF VecStored, VecLive
<1> QED
  BY <1>2, <1>3 DEF VecModels

\* The contract of a StateVec, for one edit.
VecEditKeeps(m, e) == EditKeepsSlab(VecModels, m, e, VecStored, VecLive, VecNames, VecFrees)

\* An edit that moves and removes items.
FreedBy(changes) == UNION {VecFrees(changes[i]) : i \in 1 .. Len(changes)}
Drops(m, s, changes) ==
    /\ Len(changes) \in Nat
    /\ \A i \in 1 .. Len(changes) :
          /\ VecNames(changes[i]) = VecFrees(changes[i])
          /\ VecFrees(changes[i]) \subseteq VecLive(m)
          /\ \A j \in i + 1 .. Len(changes) : VecFrees(changes[i]) \cap VecFrees(changes[j]) = {}
    /\ ToSet(s) = VecLive(m) \ FreedBy(changes)

\* Its items leave the list and stay in the slab.
LEMMA DropsKeep ==
    ASSUME NEW m \in VecModels, NEW s \in Lists, NEW changes, Drops(m, s, changes)
    PROVE  VecEditKeeps(m, Edited(VecOf(s, m.values), changes))
<1>1. PICK L, K, n : L = VecLive(m) /\ K = VecStored(m) /\ n = Len(changes)
  OBVIOUS
<1>2. L \subseteq K /\ K \subseteq VecKey /\ m.values \in [K -> Value]
  BY <1>1, VecIs
<1>3. PICK r : r = VecOf(s, m.values)
  OBVIOUS
<1>4. ToSet(s) \subseteq K
  BY <1>1, <1>2 DEF Drops
<1>5. r \in VecModels /\ VecStored(r) = K /\ VecLive(r) = ToSet(s)
  BY <1>2, <1>3, <1>4, IsVecModel
<1>6. PICK e : e = Edited(r, changes)
  OBVIOUS
<1>7. e.model = r /\ e.changes = changes
  BY <1>6 DEF Edited
<1>8. PICK F : F = FreedBy(changes) /\ ToSet(s) = L \ F
  BY <1>1 DEF Drops
<1>9. F \subseteq L /\ \A i \in 1 .. n : VecFrees(changes[i]) \subseteq F
  BY <1>1, <1>8 DEF Drops, FreedBy
<1>10. /\ K = (L \ F) \cup (K \ L) \cup F /\ (K \ L) \cap (L \ F) = {}
       /\ \A x : x \subseteq F => x \subseteq x \ (L \ F) /\ x \subseteq K \ (K \ L)
  BY <1>2, <1>9
<1>11. /\ n \in Nat /\ e.model \in VecModels /\ K \subseteq VecStored(e.model)
       /\ VecStored(e.model) =
              VecLive(e.model) \cup (K \ L) \cup UNION {VecFrees(e.changes[i]) : i \in 1 .. n}
       /\ (K \ L) \cap VecLive(e.model) = {}
  BY <1>1, <1>5, <1>7, <1>8, <1>10 DEF Drops, FreedBy
<1>12. ASSUME NEW i \in 1 .. n
       PROVE  /\ VecFrees(e.changes[i]) \subseteq VecNames(e.changes[i]) \ VecLive(e.model)
              /\ VecNames(e.changes[i]) \subseteq VecStored(e.model) \ (K \ L)
              /\ \A j \in i + 1 .. n : VecFrees(e.changes[i]) \cap VecNames(e.changes[j]) = {}
  <2>1. VecNames(changes[i]) = VecFrees(changes[i]) /\ VecFrees(changes[i]) \subseteq F
    BY <1>1, <1>9 DEF Drops
  <2>2. \A j \in i + 1 .. n : j \in 1 .. n /\ VecFrees(changes[i]) \cap VecFrees(changes[j]) = {}
    BY <1>1 DEF Drops
  <2>3. \A j \in i + 1 .. n : VecNames(changes[j]) = VecFrees(changes[j])
    BY <1>1, <2>2 DEF Drops
  <2>4. /\ VecFrees(changes[i]) \subseteq VecFrees(changes[i]) \ (L \ F)
        /\ VecFrees(changes[i]) \subseteq K \ (K \ L)
    BY <1>10, <2>1
  <2> QED
    BY <1>5, <1>7, <1>8, <2>1, <2>2, <2>3, <2>4
<1>13. /\ n = Len(e.changes) /\ K = VecStored(m) /\ L = VecLive(m)
       /\ VecStored(m) \subseteq VecStored(e.model)
  BY <1>1, <1>7, <1>11
<1>14. EditKeepsSlab(VecModels, m, e, VecStored, VecLive, VecNames, VecFrees)
  BY <1>11, <1>12, <1>13 DEF EditKeepsSlab
<1> QED
  BY <1>3, <1>6, <1>14 DEF VecEditKeeps

\* One that only moves them.
LEMMA MovesKeep ==
    ASSUME NEW m \in VecModels, NEW s, Rearranges(s, m.items), NEW changes,
           Len(changes) \in {0, 1}, Len(changes) = 1 => changes[1].op \in {"Swap", "Move", "Sort"}
    PROVE  VecEditKeeps(m, Edited(VecOf(s, m.values), changes))
<1>1. s \in Lists /\ ToSet(s) = VecLive(m)
  BY VecIs DEF Rearranges
<1>2. PICK n : n = Len(changes) /\ n \in Nat /\ n \in {0, 1}
  OBVIOUS
<1>3. ASSUME NEW i \in 1 .. n
      PROVE  VecFrees(changes[i]) = {} /\ VecNames(changes[i]) = {}
  <2>1. i = 1 /\ n = 1
    BY <1>2
  <2> QED
    BY <1>2, <2>1 DEF VecFrees, VecNames
<1>4. FreedBy(changes) = {}
  BY <1>2, <1>3 DEF FreedBy
<1>5. Drops(m, s, changes)
  BY <1>1, <1>2, <1>3, <1>4 DEF Drops
<1> QED
  BY <1>1, <1>5, DropsKeep

\* What m becomes with other items.
LEMMA OtherItems ==
    ASSUME NEW m \in VecModels, NEW s
    PROVE  [m EXCEPT !.items = s] = VecOf(s, m.values)
<1>1. m = VecOf(m.items, m.values)
  BY VecIs
<1> QED
  BY <1>1 DEF VecOf

\* A call that does nothing.
LEMMA SameKeeps ==
    ASSUME NEW m \in VecModels
    PROVE  VecEditKeeps(m, Edited(m, <<>>))
<1>1. m.items \in Lists /\ m = VecOf(m.items, m.values)
  BY VecIs
<1>2. Rearranges(m.items, m.items)
  BY <1>1 DEF Rearranges
<1>3. Len(<<>>) \in {0, 1} /\ Len(<<>>) # 1
  OBVIOUS
<1>4. VecEditKeeps(m, Edited(VecOf(m.items, m.values), <<>>))
  BY <1>2, <1>3, MovesKeep
<1> QED
  BY <1>1, <1>4

\* ItemsMut::swap.
LEMMA SwapKeeps ==
    ASSUME NEW m \in VecModels, NEW i \in 1 .. Len(m.items), NEW j \in 1 .. Len(m.items)
    PROVE  VecEditKeeps(m, SwapVec(m, i, j))
<1>1. CASE i = j
  BY <1>1, SameKeeps DEF SwapVec
<1>2. CASE i # j
  <2>1. PICK s, c : s = Swapped(m.items, i, j) /\ c = [op |-> "Swap", index |-> <<i, j>>]
    OBVIOUS
  <2>2. Rearranges(s, m.items)
    BY <2>1, VecIs, SwappedIs
  <2>3. SwapVec(m, i, j) = Edited(VecOf(s, m.values), <<c>>)
    BY <1>2, <2>1, OtherItems DEF SwapVec
  <2>4. Len(<<c>>) = 1 /\ <<c>>[1].op \in {"Swap", "Move", "Sort"}
    BY <2>1
  <2> QED
    BY <2>2, <2>3, <2>4, MovesKeep
<1> QED
  BY <1>1, <1>2

\* ItemsMut::move_item.
LEMMA MoveKeeps ==
    ASSUME NEW m \in VecModels, NEW i \in 1 .. Len(m.items), NEW j \in 1 .. Len(m.items)
    PROVE  VecEditKeeps(m, MoveVec(m, i, j))
<1>1. CASE i = j
  BY <1>1, SameKeeps DEF MoveVec
<1>2. CASE i # j
  <2>1. PICK s, c : /\ s = IF i < j THEN RotateLeft(m.items, i, j) ELSE RotateRight(m.items, j, i)
                    /\ c = [op |-> "Move", from |-> i, to |-> j]
    OBVIOUS
  <2>2. Rearranges(s, m.items)
    <3>1. m.items \in Lists /\ Len(m.items) \in Nat
      BY VecIs, ListIs
    <3>2. CASE i < j
      BY <2>1, <3>1, <3>2, RotatedIs
    <3>3. CASE ~(i < j)
      <4>1. j <= i
        BY <3>1, <3>3
      <4> QED
        BY <2>1, <3>1, <3>3, <4>1, RotatedIs
    <3> QED
      BY <3>2, <3>3
  <2>3. MoveVec(m, i, j) = Edited(VecOf(s, m.values), <<c>>)
    BY <1>2, <2>1, OtherItems DEF MoveVec
  <2>4. Len(<<c>>) = 1 /\ <<c>>[1].op \in {"Swap", "Move", "Sort"}
    BY <2>1
  <2> QED
    BY <2>2, <2>3, <2>4, MovesKeep
<1> QED
  BY <1>1, <1>2

\* ItemsMut::sort and sort_unstable.
LEMMA SortKeeps ==
    ASSUME NEW m \in VecModels, NEW p \in Bijection(1 .. Len(m.items), 1 .. Len(m.items))
    PROVE  VecEditKeeps(m, SortVec(m, p))
<1>1. CASE \A i \in DOMAIN p : p[i] = i
  BY <1>1, SameKeeps DEF SortVec
<1>2. CASE ~ \A i \in DOMAIN p : p[i] = i
  <2>1. PICK s, c : s = ApplyTo(p, m.items) /\ c = [op |-> "Sort", newToOld |-> p]
    OBVIOUS
  <2>2. Rearranges(s, m.items)
    <3>1. m.items \in Lists /\ Len(m.items) \in Nat
      BY VecIs, ListIs
    <3>2. DOMAIN p = 1 .. Len(m.items)
      BY <3>1, OrderIs
    <3>3. Len(m.items) # 0
      BY <1>2, <3>2
    <3> QED
      BY <2>1, <3>1, <3>3, ApplyToIs
  <2>3. SortVec(m, p) = Edited(VecOf(s, m.values), <<c>>)
    BY <1>2, <2>1, OtherItems DEF SortVec
  <2>4. Len(<<c>>) = 1 /\ <<c>>[1].op \in {"Swap", "Move", "Sort"}
    BY <2>1
  <2> QED
    BY <2>2, <2>3, <2>4, MovesKeep
<1> QED
  BY <1>1, <1>2

\* ItemsMut::remove.
LEMMA RemoveKeeps ==
    ASSUME NEW m \in VecModels, NEW i \in 1 .. Len(m.items)
    PROVE  VecEditKeeps(m, RemoveVec(m, i))
<1>1. PICK s, c : s = RemoveAt(m.items, i) /\ c = [op |-> "Remove", index |-> i, old |-> m.items[i]]
  OBVIOUS
<1>2. m.items \in Lists /\ ToSet(m.items) = {m.items[x] : x \in 1 .. Len(m.items)}
  BY VecIs, ListIs
<1>3. s \in Lists /\ ToSet(s) = ToSet(m.items) \ {m.items[i]} /\ m.items[i] \in ToSet(m.items)
  BY <1>1, <1>2, RemoveAtIs
<1>4. VecFrees(c) = {m.items[i]} /\ VecNames(c) = {m.items[i]}
  BY <1>1 DEF VecFrees, VecNames
<1>5. PICK changes : changes = <<c>>
  OBVIOUS
<1>6. Len(changes) = 1 /\ changes[1] = c /\ 1 .. 1 = {1} /\ \A j \in 1 + 1 .. 1 : FALSE
  BY <1>5
<1>7. FreedBy(changes) = {m.items[i]}
  BY <1>4, <1>6 DEF FreedBy
<1>8. RemoveVec(m, i) = Edited(VecOf(s, m.values), changes)
  BY <1>1, <1>5, OtherItems DEF RemoveVec
<1>9. VecLive(m) = ToSet(m.items)
  BY VecIs
<1>10. Drops(m, s, changes)
  <2>1. /\ VecNames(changes[1]) = VecFrees(changes[1]) /\ VecFrees(changes[1]) \subseteq VecLive(m)
        /\ ToSet(s) = VecLive(m) \ FreedBy(changes)
    BY <1>3, <1>4, <1>6, <1>7, <1>9
  <2>2. Len(changes) \in Nat /\ 1 .. Len(changes) = {1}
        /\ \A j \in 1 + 1 .. Len(changes) : FALSE
    BY <1>6
  <2> QED
    BY <2>1, <2>2 DEF Drops
<1> QED
  BY <1>3, <1>8, <1>10, DropsKeep

\* ItemsMut::swap_remove names the last item after the swap, which was at i.
LEMMA SwapRemoveKeeps ==
    ASSUME NEW m \in VecModels, NEW i \in 1 .. Len(m.items)
    PROVE  VecEditKeeps(m, SwapRemoveVec(m, i))
<1>1. PICK n \in Nat : n = Len(m.items) /\ n \in 1 .. n
  BY VecIs, ListIs
<1>2. PICK swap, rest : /\ swap = SwapVec(m, i, n) /\ rest = RemoveVec(swap.model, n)
                        /\ SwapRemoveVec(m, i) = Edited(rest.model, swap.changes \o rest.changes)
  BY <1>1 DEF SwapRemoveVec
<1>3. PICK t : /\ swap.model = VecOf(t, m.values) /\ Rearranges(t, m.items)
               /\ \/ swap.changes = <<>>
                  \/ \E x : swap.changes = <<[op |-> "Swap", index |-> x]>>
  <2>1. CASE i = n
    <3>1. swap.model = VecOf(m.items, m.values) /\ swap.changes = <<>>
      BY <1>2, <2>1, VecIs DEF SwapVec, Edited
    <3>2. Rearranges(m.items, m.items)
      BY VecIs DEF Rearranges
    <3> QED
      BY <3>1, <3>2
  <2>2. CASE i # n
    <3>1. /\ swap.model = VecOf(Swapped(m.items, i, n), m.values)
          /\ swap.changes = <<[op |-> "Swap", index |-> <<i, n>>]>>
      BY <1>2, <2>2, OtherItems DEF SwapVec, Edited
    <3>2. Rearranges(Swapped(m.items, i, n), m.items)
      BY <1>1, VecIs, SwappedIs
    <3> QED
      BY <3>1, <3>2
  <2> QED
    BY <2>1, <2>2
<1>4. PICK s, c : s = RemoveAt(t, n) /\ c = [op |-> "Remove", index |-> n, old |-> t[n]]
  OBVIOUS
<1>5. rest.model = VecOf(s, m.values) /\ rest.changes = <<c>>
  BY <1>2, <1>3, <1>4 DEF RemoveVec, Edited, VecOf
<1>6. t \in Lists /\ Len(t) = n /\ ToSet(t) = VecLive(m) /\ ToSet(t) = {t[x] : x \in 1 .. Len(t)}
  BY <1>1, <1>3, VecIs, ListIs DEF Rearranges
<1>7. s \in Lists /\ ToSet(s) = VecLive(m) \ {t[n]} /\ t[n] \in VecLive(m)
  BY <1>1, <1>4, <1>6, RemoveAtIs
<1>8. VecFrees(c) = {t[n]} /\ VecNames(c) = {t[n]}
  BY <1>4 DEF VecFrees, VecNames
<1>9. PICK changes : changes = swap.changes \o rest.changes
  OBVIOUS
<1>10. \/ changes = <<c>>
       \/ \E d : d.op = "Swap" /\ Len(changes) = 2 /\ changes[1] = d /\ changes[2] = c
  <2>1. CASE swap.changes = <<>>
    <3>1. changes = <<>> \o <<c>>
      BY <1>5, <1>9, <2>1
    <3> QED
      BY <3>1
  <2>2. CASE \E x : swap.changes = <<[op |-> "Swap", index |-> x]>>
    <3>1. PICK x, d : d = [op |-> "Swap", index |-> x] /\ swap.changes = <<d>>
      BY <2>2
    <3>2. changes = <<d>> \o <<c>>
      BY <1>5, <1>9, <3>1
    <3>3. <<d>> \in Seq({c, d}) /\ <<c>> \in Seq({c, d}) /\ Len(<<d>>) = 1 /\ Len(<<c>>) = 1
      OBVIOUS
    <3>4. /\ Len(<<d>> \o <<c>>) = 1 + 1
          /\ \A y \in 1 .. 1 + 1 : (<<d>> \o <<c>>)[y] = IF y <= 1 THEN <<d>>[y] ELSE <<c>>[y - 1]
      BY <3>3, ConcatIs
    <3>5. Len(changes) = 2 /\ changes[1] = d /\ changes[2] = c
      BY <3>2, <3>4
    <3> QED
      BY <3>1, <3>5
  <2> QED
    BY <1>3, <2>1, <2>2
<1>11. CASE changes = <<c>>
  <2>1. Len(changes) = 1 /\ changes[1] = c /\ 1 .. 1 = {1} /\ \A j \in 1 + 1 .. 1 : FALSE
    BY <1>11
  <2>2. FreedBy(changes) = {t[n]}
    BY <1>8, <2>1 DEF FreedBy
  <2>3. /\ VecNames(changes[1]) = VecFrees(changes[1]) /\ VecFrees(changes[1]) \subseteq VecLive(m)
        /\ ToSet(s) = VecLive(m) \ FreedBy(changes)
    BY <1>7, <1>8, <2>1, <2>2
  <2>4. Drops(m, s, changes)
    BY <2>1, <2>3 DEF Drops
  <2> QED
    BY <1>2, <1>5, <1>7, <1>9, <2>4, DropsKeep
<1>12. CASE \E d : d.op = "Swap" /\ Len(changes) = 2 /\ changes[1] = d /\ changes[2] = c
  <2>1. PICK d : d.op = "Swap" /\ Len(changes) = 2 /\ changes[1] = d /\ changes[2] = c
    BY <1>12
  <2>2. /\ Len(changes) = 2 /\ changes[1] = d /\ changes[2] = c /\ 1 .. 2 = {1, 2}
        /\ \A j \in 2 + 1 .. 2 : FALSE
    BY <2>1
  <2>3. VecFrees(d) = {} /\ VecNames(d) = {}
    BY <2>1 DEF VecFrees, VecNames
  <2>4. FreedBy(changes) = {t[n]}
    BY <1>8, <2>2, <2>3 DEF FreedBy
  <2>5. ToSet(s) = VecLive(m) \ FreedBy(changes)
    BY <1>7, <2>4
  <2>6. ASSUME NEW y \in {1, 2}
        PROVE  /\ VecNames(changes[y]) = VecFrees(changes[y])
               /\ VecFrees(changes[y]) \subseteq VecLive(m)
               /\ \A j \in y + 1 .. 2 : VecFrees(changes[y]) \cap VecFrees(changes[j]) = {}
    <3>1. CASE y = 1
      BY <2>2, <2>3, <3>1
    <3>2. CASE y = 2
      BY <1>7, <1>8, <2>2, <3>2
    <3> QED
      BY <3>1, <3>2
  <2>7. Len(changes) \in Nat
    BY <2>2
  <2>8. Drops(m, s, changes)
    BY <2>2, <2>5, <2>6, <2>7 DEF Drops
  <2> QED
    BY <1>2, <1>5, <1>7, <1>9, <2>8, DropsKeep
<1> QED
  BY <1>10, <1>11, <1>12

\* ItemsMut::drain names each item once.
LEMMA DrainKeeps ==
    ASSUME NEW m \in VecModels, NEW i \in 1 .. Len(m.items), NEW j \in 1 .. Len(m.items) + 1, i < j
    PROVE  VecEditKeeps(m, DrainVec(m, i, j))
<1>1. PICK n \in Nat : n = Len(m.items)
  BY VecIs, ListIs
<1>2. PICK d \in Nat : d = j - i
  BY <1>1
<1>3. PICK t : t = m.items
  OBVIOUS
<1>4. /\ t \in Lists /\ Len(t) = n /\ VecLive(m) = {t[x] : x \in 1 .. n}
      /\ \A x, y \in 1 .. n : t[x] = t[y] => x = y
  BY <1>1, <1>3, VecIs, ListIs
<1>5. PICK s : s = Cut(t, i, j)
  OBVIOUS
<1>6. s \in Lists /\ ToSet(s) = VecLive(m) \ {t[x] : x \in i .. j - 1}
  <2>1. i <= j /\ VecLive(m) = ToSet(t) /\ i \in 1 .. Len(t) /\ j \in 1 .. Len(t) + 1
    BY <1>1, <1>3, VecIs
  <2>2. /\ Cut(t, i, j) \in Lists
        /\ ToSet(Cut(t, i, j)) = ToSet(t) \ {t[x] : x \in i .. j - 1}
    BY <1>4, <2>1, CutIs
  <2> QED
    BY <1>5, <2>1, <2>2
<1>7. PICK changes :
         changes = [x \in 1 .. d |-> [op |-> "Remove", index |-> j - x, old |-> t[j - x]]]
  OBVIOUS
<1>8. /\ Len(changes) = d
      /\ \A x \in 1 .. d : changes[x] = [op |-> "Remove", index |-> j - x, old |-> t[j - x]]
  BY <1>7
<1>9. DrainVec(m, i, j) = Edited(VecOf(s, m.values), changes)
  <2>1. m = VecOf(t, m.values)
    BY <1>3, VecIs
  <2>2. [m EXCEPT !.items = SubSeq(@, 1, i - 1) \o SubSeq(@, j, Len(@))] = VecOf(s, m.values)
    <3>1. PICK r : r = SubSeq(m.items, 1, i - 1) \o SubSeq(m.items, j, Len(m.items))
      OBVIOUS
    <3>2. r = s
      BY <1>3, <1>5, <3>1 DEF Cut
    <3>3. [m EXCEPT !.items = s] = VecOf(s, m.values)
      BY OtherItems
    <3> QED
      BY <3>1, <3>2, <3>3
  <2>3. changes = [x \in 1 .. j - i |-> [op |-> "Remove", index |-> j - x, old |-> m.items[j - x]]]
    BY <1>2, <1>3, <1>7
  <2> QED
    BY <2>2, <2>3 DEF DrainVec
<1>10. \A x \in 1 .. d : VecFrees(changes[x]) = {t[j - x]} /\ VecNames(changes[x]) = {t[j - x]}
  BY <1>8 DEF VecFrees, VecNames
<1>11. \A x \in 1 .. d : j - x \in i .. j - 1 /\ j - x \in 1 .. n
  BY <1>1, <1>2
<1>12. \A y \in i .. j - 1 : j - y \in 1 .. d /\ j - (j - y) = y
  BY <1>1, <1>2
<1>13. FreedBy(changes) = {t[x] : x \in i .. j - 1}
  <2>1. ASSUME NEW v \in FreedBy(changes)
        PROVE  v \in {t[x] : x \in i .. j - 1}
    <3>1. PICK x \in 1 .. d : v \in VecFrees(changes[x])
      BY <1>8 DEF FreedBy
    <3> QED
      BY <1>10, <1>11, <3>1
  <2>2. ASSUME NEW y \in i .. j - 1
        PROVE  t[y] \in FreedBy(changes)
    <3>1. PICK x \in 1 .. d : j - x = y
      BY <1>12
    <3>2. t[y] \in VecFrees(changes[x])
      BY <1>10, <3>1
    <3> QED
      BY <1>8, <3>2 DEF FreedBy
  <2> QED
    BY <2>1, <2>2
<1>14. ASSUME NEW x \in 1 .. d
       PROVE  /\ VecFrees(changes[x]) \subseteq VecLive(m)
              /\ \A y \in x + 1 .. d : VecFrees(changes[x]) \cap VecFrees(changes[y]) = {}
  <2>1. VecFrees(changes[x]) = {t[j - x]} /\ j - x \in 1 .. n
    BY <1>10, <1>11
  <2>2. ASSUME NEW y \in x + 1 .. d
        PROVE  VecFrees(changes[x]) \cap VecFrees(changes[y]) = {}
    <3>1. y \in 1 .. d /\ j - y # j - x
      BY <1>1, <1>2
    <3>2. VecFrees(changes[y]) = {t[j - y]} /\ j - y \in 1 .. n
      BY <1>10, <1>11, <3>1
    <3>3. t[j - y] # t[j - x]
      BY <1>4, <2>1, <3>1, <3>2
    <3> QED
      BY <2>1, <3>2, <3>3
  <2> QED
    BY <1>4, <2>1, <2>2
<1>15. Drops(m, s, changes)
  BY <1>6, <1>8, <1>10, <1>13, <1>14 DEF Drops
<1> QED
  BY <1>6, <1>9, <1>15, DropsKeep

\* A slab with one more value.
LEMMA Added ==
    ASSUME NEW K \in SUBSET VecKey, NEW f \in [K -> Value], NEW k \in VecKey \ K, NEW v \in Value
    PROVE  Add1(f, k, v) \in [K \cup {k} -> Value]
BY DEF Add1

\* ItemsMut::insert and push.
LEMMA InsertKeeps ==
    ASSUME NEW m \in VecModels, NEW i \in 1 .. Len(m.items) + 1, NEW k \in Vacant(m),
           NEW v \in Value
    PROVE  VecEditKeeps(m, InsertVec(m, i, k, v))
<1>1. PICK K, L : K = VecStored(m) /\ L = VecLive(m)
  OBVIOUS
<1>2. /\ L \subseteq K /\ K \subseteq VecKey /\ m.values \in [K -> Value] /\ m.items \in Lists
      /\ ToSet(m.items) = L /\ k \in VecKey \ K
  BY <1>1, VecIs DEF Vacant
<1>3. PICK s, f, c : /\ s = InsertAt(m.items, i, k) /\ f = Add1(m.values, k, v)
                     /\ c = [op |-> "Insert", index |-> i, new |-> k]
  OBVIOUS
<1>4. s \in Lists /\ ToSet(s) = L \cup {k}
  BY <1>2, <1>3, InsertAtIs
<1>5. f \in [K \cup {k} -> Value]
  BY <1>2, <1>3, Added
<1>6. PICK e : e = InsertVec(m, i, k, v)
  OBVIOUS
<1>7. e.model = VecOf(s, f) /\ e.changes = <<c>>
  <2>1. [m EXCEPT !.items = s, !.values = f] = VecOf(s, f)
    <3>1. PICK r : r = [m EXCEPT !.items = s]
      OBVIOUS
    <3>2. r = VecOf(s, m.values)
      BY <3>1, OtherItems
    <3>3. [m EXCEPT !.items = s, !.values = f] = [r EXCEPT !.values = f]
      BY <3>1
    <3>4. [r EXCEPT !.values = f] = VecOf(s, f)
      BY <3>2 DEF VecOf
    <3> QED
      BY <3>3, <3>4
  <2> QED
    BY <1>3, <1>6, <2>1 DEF InsertVec, Inserted, Edited
<1>8. e.model \in VecModels /\ VecStored(e.model) = K \cup {k} /\ VecLive(e.model) = L \cup {k}
  <2>1. K \cup {k} \in SUBSET VecKey /\ ToSet(s) \subseteq K \cup {k}
    BY <1>2, <1>4
  <2> QED
    BY <1>4, <1>5, <1>7, <2>1, IsVecModel
<1>9. Len(e.changes) = 1 /\ e.changes[1] = c /\ 1 .. 1 = {1} /\ \A j \in 1 + 1 .. 1 : FALSE
  BY <1>7
<1>10. VecFrees(e.changes[1]) = {} /\ VecNames(e.changes[1]) = {k}
  BY <1>3, <1>9 DEF VecFrees, VecNames
<1>11. UNION {VecFrees(e.changes[x]) : x \in 1 .. 1} = {}
  BY <1>9, <1>10
<1>12. /\ K \cup {k} = (L \cup {k}) \cup (K \ L) /\ (K \ L) \cap (L \cup {k}) = {}
       /\ {k} \subseteq (K \cup {k}) \ (K \ L)
  BY <1>2
<1>13. EditKeepsSlab(VecModels, m, e, VecStored, VecLive, VecNames, VecFrees)
  BY <1>1, <1>8, <1>9, <1>10, <1>11, <1>12 DEF EditKeepsSlab
<1> QED
  BY <1>6, <1>13 DEF VecEditKeeps

\* ItemsMut::set names the key of the old value, which waits, and a vacant one.
LEMMA SetKeeps ==
    ASSUME NEW m \in VecModels, NEW i \in 1 .. Len(m.items), NEW k \in Vacant(m), NEW v \in Value
    PROVE  VecEditKeeps(m, SetVec(m, i, k, v))
<1>1. PICK K, L, o : K = VecStored(m) /\ L = VecLive(m) /\ o = m.items[i]
  OBVIOUS
<1>2. /\ L \subseteq K /\ K \subseteq VecKey /\ m.values \in [K -> Value] /\ m.items \in Lists
      /\ ToSet(m.items) = L /\ k \in VecKey \ K /\ o \in L
  <2>1. o \in ToSet(m.items)
    BY <1>1, VecIs, ListIs
  <2> QED
    BY <1>1, <2>1, VecIs DEF Vacant
<1>3. PICK s, f, c : /\ s = [m.items EXCEPT ![i] = k] /\ f = Add1(m.values, k, v)
                     /\ c = [op |-> "Set", index |-> i, old |-> o, new |-> k]
  OBVIOUS
<1>4. s \in Lists /\ ToSet(s) = (L \ {o}) \cup {k}
  BY <1>1, <1>2, <1>3, PutIs
<1>5. f \in [K \cup {k} -> Value]
  BY <1>2, <1>3, Added
<1>6. PICK e : e = SetVec(m, i, k, v)
  OBVIOUS
<1>7. e.model = VecOf(s, f) /\ e.changes = <<c>>
  <2>1. [m EXCEPT !.items[i] = k, !.values = f] = VecOf(s, f)
    <3>1. PICK r : r = [m EXCEPT !.items = s]
      OBVIOUS
    <3>2. r = VecOf(s, m.values)
      BY <3>1, OtherItems
    <3>3. [m EXCEPT !.items[i] = k, !.values = f] = [r EXCEPT !.values = f]
      BY <1>3, <3>1
    <3>4. [r EXCEPT !.values = f] = VecOf(s, f)
      BY <3>2 DEF VecOf
    <3> QED
      BY <3>3, <3>4
  <2> QED
    BY <1>1, <1>3, <1>6, <2>1 DEF SetVec, Edited
<1>8. /\ e.model \in VecModels /\ VecStored(e.model) = K \cup {k}
      /\ VecLive(e.model) = (L \ {o}) \cup {k}
  <2>1. PICK N : N = K \cup {k} /\ N \in SUBSET VecKey /\ ToSet(s) \subseteq N /\ f \in [N -> Value]
    BY <1>2, <1>4, <1>5
  <2>2. /\ VecOf(s, f) \in VecModels /\ VecStored(VecOf(s, f)) = N
        /\ VecLive(VecOf(s, f)) = ToSet(s)
    BY <1>4, <2>1, IsVecModel
  <2> QED
    BY <1>4, <1>7, <2>1, <2>2
<1>9. Len(e.changes) = 1 /\ e.changes[1] = c /\ 1 .. 1 = {1} /\ \A j \in 1 + 1 .. 1 : FALSE
  BY <1>7
<1>10. VecFrees(e.changes[1]) = {o} /\ VecNames(e.changes[1]) = {o, k}
  BY <1>3, <1>9 DEF VecFrees, VecNames
<1>11. UNION {VecFrees(e.changes[x]) : x \in 1 .. 1} = {o}
  BY <1>9, <1>10
<1>12. /\ K \cup {k} = ((L \ {o}) \cup {k}) \cup (K \ L) \cup {o}
       /\ (K \ L) \cap ((L \ {o}) \cup {k}) = {}
       /\ {o} \subseteq {o, k} \ ((L \ {o}) \cup {k})
       /\ {o, k} \subseteq (K \cup {k}) \ (K \ L)
  BY <1>2
<1>13. EditKeepsSlab(VecModels, m, e, VecStored, VecLive, VecNames, VecFrees)
  BY <1>1, <1>8, <1>9, <1>10, <1>11, <1>12 DEF EditKeepsSlab
<1> QED
  BY <1>6, <1>13 DEF VecEditKeeps

\* VecModel::release_change gives the key back.
LEMMA VecReleaseKeeps ==
    ASSUME NEW m \in VecModels, NEW c
    PROVE  ReleaseKeepsSlab(VecModels, m, c, VecRelease, VecStored, VecLive, VecFrees)
<1> SUFFICES ASSUME VecFrees(c) \subseteq VecStored(m) \ VecLive(m)
             PROVE  /\ VecRelease(m, c) \in VecModels
                    /\ VecStored(VecRelease(m, c)) = VecStored(m) \ VecFrees(c)
                    /\ VecLive(VecRelease(m, c)) = VecLive(m)
  BY DEF ReleaseKeepsSlab
<1>1. CASE c.op \in {"Remove", "Set"}
  <2>1. PICK K, L, o : K = VecStored(m) /\ L = VecLive(m) /\ o = c.old
    OBVIOUS
  <2>2. /\ L \subseteq K /\ K \subseteq VecKey /\ m.values \in [K -> Value] /\ m.items \in Lists
        /\ ToSet(m.items) = L /\ VecFrees(c) = {o} /\ o \notin L
    BY <1>1, <2>1, VecIs DEF VecFrees
  <2>3. PICK f : f = Drop1(m.values, o)
    OBVIOUS
  <2>4. f \in [K \ {o} -> Value]
    BY <2>2, <2>3 DEF Drop1
  <2>5. VecRelease(m, c) = VecOf(m.items, f)
    <3>1. m = VecOf(m.items, m.values)
      BY VecIs
    <3> QED
      BY <1>1, <2>1, <2>3, <3>1 DEF VecRelease, VecOf
  <2>6. K \ {o} \in SUBSET VecKey /\ ToSet(m.items) \subseteq K \ {o}
    BY <2>2
  <2>7. /\ VecOf(m.items, f) \in VecModels /\ VecStored(VecOf(m.items, f)) = K \ {o}
        /\ VecLive(VecOf(m.items, f)) = L
    BY <2>2, <2>4, <2>6, IsVecModel
  <2> QED
    BY <2>1, <2>2, <2>5, <2>7
<1>2. CASE c.op \notin {"Remove", "Set"}
  BY <1>2 DEF VecRelease, VecFrees
<1> QED
  BY <1>1, <1>2

\* So does a StateVec, for every call of ItemsMut, swap_remove, drain and the sorts included:
\* a value that is overwritten or removed stays in the slab until the change that names it is
\* released, and no change names it twice (VecModel).
THEOREM VecKeepsContract ==
    KeepsSlab(VecModels, {NewVec}, VecEdits, VecRelease, VecStored, VecLive, VecNames, VecFrees)
<1>1. NewVec \in VecModels /\ VecStored(NewVec) = VecLive(NewVec)
  <2>1. <<>> \in Lists /\ ToSet(<<>>) = {} /\ <<>> \in [{} -> Value]
    BY DEF Lists, ToSet
  <2>2. /\ VecOf(<<>>, <<>>) \in VecModels /\ VecStored(VecOf(<<>>, <<>>)) = {}
        /\ VecLive(VecOf(<<>>, <<>>)) = {}
    BY <2>1, IsVecModel
  <2> QED
    BY <2>2 DEF NewVec, VecOf
<1>2. ASSUME NEW m \in VecModels, NEW e \in VecEdits(m)
      PROVE  VecEditKeeps(m, e)
  <2>1. PICK n \in Nat : n = Len(m.items)
    BY VecIs, ListIs
  <2> DEFINE I == {InsertVec(m, i, k, v) : i \in IF n < MaxItems THEN 1 .. n + 1 ELSE {},
                                           k \in Vacant(m), v \in Value}
             S == {SetVec(m, i, k, v) : i \in 1 .. n, k \in Vacant(m), v \in Value}
             R == {RemoveVec(m, i) : i \in 1 .. n}
             W == {SwapVec(m, i, j) : i, j \in 1 .. n}
             X == {SwapRemoveVec(m, i) : i \in 1 .. n}
             M == {MoveVec(m, i, j) : i, j \in 1 .. n}
             D == {DrainVec(m, r[1], r[2]) :
                     r \in {x \in (1 .. n) \X (1 .. n + 1) : x[1] < x[2]}}
             O == {SortVec(m, p) : p \in Orders(m, TRUE) \cup Orders(m, FALSE)}
  <2>2. e \in I \/ e \in S \/ e \in R \/ e \in W \/ e \in X \/ e \in M \/ e \in D \/ e \in O
    <3>1. VecEdits(m) = UNION {I, S, R, W, X, M, D, O}
      BY <2>1 DEF VecEdits
    <3> HIDE DEF I, S, R, W, X, M, D, O
    <3> QED
      BY <3>1
  <2>3. CASE e \in I
    BY <2>1, <2>3, InsertKeeps
  <2>4. CASE e \in S
    BY <2>1, <2>4, SetKeeps
  <2>5. CASE e \in R
    BY <2>1, <2>5, RemoveKeeps
  <2>6. CASE e \in W
    BY <2>1, <2>6, SwapKeeps
  <2>7. CASE e \in X
    BY <2>1, <2>7, SwapRemoveKeeps
  <2>8. CASE e \in M
    BY <2>1, <2>8, MoveKeeps
  <2>9. CASE e \in D
    BY <2>1, <2>9, DrainKeeps
  <2>10. CASE e \in O
    <3>1. PICK p \in Bijection(1 .. n, 1 .. n) : e = SortVec(m, p)
      BY <2>1, <2>10 DEF Orders
    <3> QED
      BY <2>1, <3>1, SortKeeps
  <2> HIDE DEF I, S, R, W, X, M, D, O
  <2> QED
    BY <2>2, <2>3, <2>4, <2>5, <2>6, <2>7, <2>8, <2>9, <2>10
<1> QED
  BY <1>1, <1>2, VecReleaseKeeps DEF KeepsSlab, VecEditKeeps

\* So the slab of a change feed over a slab map holds exactly its items and those that retained
\* changes will give back.
THEOREM SlabMapHoldsWhatIsNamed ==
    ASSUME Models = {NewSlab},
           \A m : Edits(m) = SlabEdits(m) /\ Stored(m) = SlabStored(m) /\ Live(m) = Existing(m),
           \A m, c : Release(m, c) = SlabRelease(m, c),
           \A c : Names(c) = SlabNames(c) /\ Frees(c) = SlabFrees(c)
    PROVE  Spec => []SlabHoldsWhatIsNamed
<1>1. NewSlab \in SlabModels /\ Stored(NewSlab) = Live(NewSlab)
  BY SlabKeepsContract DEF KeepsSlab
<1>2. ASSUME NEW m \in SlabModels, NEW e \in Edits(m)
      PROVE  EditKeepsSlab(SlabModels, m, e, Stored, Live, Names, Frees)
  <2>1. EditKeepsSlab(SlabModels, m, e, SlabStored, Existing, SlabNames, SlabFrees)
    BY SlabKeepsContract DEF KeepsSlab
  <2>2. {Frees(e.changes[i]) : i \in 1 .. Len(e.changes)}
           = {SlabFrees(e.changes[i]) : i \in 1 .. Len(e.changes)}
    OBVIOUS
  <2> QED
    BY <2>1, <2>2 DEF EditKeepsSlab
<1>3. ASSUME NEW m \in SlabModels, NEW c
      PROVE  ReleaseKeepsSlab(SlabModels, m, c, Release, Stored, Live, Frees)
  <2>1. ReleaseKeepsSlab(SlabModels, m, c, SlabRelease, SlabStored, Existing, SlabFrees)
    BY SlabKeepsContract DEF KeepsSlab
  <2> QED
    BY <2>1 DEF ReleaseKeepsSlab
<1>4. KeepsSlab(SlabModels, Models, Edits, Release, Stored, Live, Names, Frees)
  BY <1>1, <1>2, <1>3 DEF KeepsSlab
<1> QED
  BY <1>4, SpecSlabHoldsWhatIsNamed

\* And so does that of a change feed over a StateVec.
THEOREM StateVecHoldsWhatIsNamed ==
    ASSUME Models = {NewVec},
           \A m : Edits(m) = VecEdits(m) /\ Stored(m) = VecStored(m) /\ Live(m) = VecLive(m),
           \A m, c : Release(m, c) = VecRelease(m, c),
           \A c : Names(c) = VecNames(c) /\ Frees(c) = VecFrees(c)
    PROVE  Spec => []SlabHoldsWhatIsNamed
<1>1. NewVec \in VecModels /\ Stored(NewVec) = Live(NewVec)
  BY VecKeepsContract DEF KeepsSlab
<1>2. ASSUME NEW m \in VecModels, NEW e \in Edits(m)
      PROVE  EditKeepsSlab(VecModels, m, e, Stored, Live, Names, Frees)
  <2>1. EditKeepsSlab(VecModels, m, e, VecStored, VecLive, VecNames, VecFrees)
    BY VecKeepsContract DEF KeepsSlab
  <2>2. {Frees(e.changes[i]) : i \in 1 .. Len(e.changes)}
           = {VecFrees(e.changes[i]) : i \in 1 .. Len(e.changes)}
    OBVIOUS
  <2> QED
    BY <2>1, <2>2 DEF EditKeepsSlab
<1>3. ASSUME NEW m \in VecModels, NEW c
      PROVE  ReleaseKeepsSlab(VecModels, m, c, Release, Stored, Live, Frees)
  <2>1. ReleaseKeepsSlab(VecModels, m, c, VecRelease, VecStored, VecLive, VecFrees)
    BY VecKeepsContract DEF KeepsSlab
  <2> QED
    BY <2>1 DEF ReleaseKeepsSlab
<1>4. KeepsSlab(VecModels, Models, Edits, Release, Stored, Live, Names, Frees)
  BY <1>1, <1>2, <1>3 DEF KeepsSlab
<1> QED
  BY <1>4, SpecSlabHoldsWhatIsNamed
=============================================================================
