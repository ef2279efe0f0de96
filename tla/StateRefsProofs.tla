--------------------------- MODULE StateRefsProofs ---------------------------
(***************************************************************************)
(* For any number of objects and any nesting of map_ref: all that is made  *)
(* is dropped once (OwnedOnce), panics included; and as long as no closure *)
(* borrows across a static StateRef, a StateRef and what it is made from   *)
(* point to nothing that was dropped (NoDangling).                         *)
(*                                                                         *)
(* The argument is about the order of drops.  Everything that lives is in  *)
(* one place of one segment (Seg): what is being dropped, what a map_ref   *)
(* has pinned, what the running code's StateRef owns.  An object refers to *)
(* later ones of its segment, or to segments of map_refs around it that    *)
(* its lifetime allows (Seen); so when the first object of the first       *)
(* segment is dropped, nothing refers to it.  Who drops what does not      *)
(* depend on what points where: for OwnedOnce a layout is enough that owns *)
(* the same and points wherever it may (OwnInv).                           *)
(***************************************************************************)
EXTENDS StateRefs, FiniteSetTheorems, SequenceTheorems, TLAPS

\* The layout of a state, which is that of what is being dropped (d), the calls of map_ref (c)
\* and the StateRef of the running code (t): the segments, and for each but the first of them
\* whether its StateRef is static, and what it points to.
Owns(t) == IF t = NoRef THEN <<>> ELSE Owned(t)
IsStatic(t) == IF t = NoRef THEN FALSE ELSE t.static
AimOf(t) == IF t = NoRef THEN Outside ELSE t.target

SegsOf(d, c, t) == [i \in 0 .. Len(c) + 1 |-> IF i = 0 THEN d
                                              ELSE IF i = Len(c) + 1 THEN Owns(t)
                                              ELSE c[i].handle]
StaticsOf(c, t) == [i \in 1 .. Len(c) + 1 |-> IF i = Len(c) + 1 THEN IsStatic(t)
                                              ELSE c[i].static]
AimsOf(c, t) == [i \in 1 .. Len(c) + 1 |-> IF i = Len(c) + 1 THEN AimOf(t) ELSE c[i].target]

Segs == SegsOf(dropping, calls, top)
Statics == StaticsOf(calls, top)
Aims == AimsOf(calls, top)

\* The lifetime of what segment j has covers what is made in segment i.
Covers(st, j, i) == j \in 1 .. i - 1 /\ \A k \in j + 1 .. i - 1 : ~st[k]

In(seg, i, t) == \E k \in DOMAIN seg[i] : seg[i][k] = t
Seen(seg, st, i, t) == \E j \in 1 .. i - 1 : Covers(st, j, i) /\ In(seg, j, t)

\* What segment i may point to, and what its k-th object may refer to.
Points(seg, st, i, t) == t = Outside \/ In(seg, i, t) \/ (~st[i] /\ Seen(seg, st, i, t))
Follows(seg, st, i, k, t) ==
    \/ t = Outside
    \/ \E l \in DOMAIN seg[i] : k < l /\ seg[i][l] = t
    \/ ~st[i] /\ Seen(seg, st, i, t)

\* What the k-th of the objects that are being dropped may refer to.
Outlives(seg, n, k, t) ==
    \/ t = Outside
    \/ \E l \in DOMAIN seg[0] : k < l /\ seg[0][l] = t
    \/ \E j \in 1 .. n : In(seg, j, t)

\* Every live object has one place, and only those have.
Placed(n, seg, ob) ==
    /\ \A i \in 0 .. n + 1 : \A k \in DOMAIN seg[i] : ob[seg[i][k]].is = "live"
    /\ \A i \in 0 .. n + 1, j \in 0 .. n + 1 : \A k \in DOMAIN seg[i], l \in DOMAIN seg[j] :
          seg[i][k] = seg[j][l] => i = j /\ k = l
    /\ \A o \in Object : ob[o].is = "live" => \E i \in 0 .. n + 1 : In(seg, i, o)

\* So the segments are in the order they may be dropped in.
SegOrdered(seg, st, aim, ob, i) ==
    /\ \A k \in DOMAIN seg[i] : Follows(seg, st, i, k, ob[seg[i][k]].refers)
    /\ Points(seg, st, i, aim[i])

Ordered(n, seg, st, aim, ob) ==
    /\ \A k \in DOMAIN seg[0] : Outlives(seg, n, k, ob[seg[0][k]].refers)
    /\ \A i \in 1 .. n + 1 : SegOrdered(seg, st, aim, ob, i)

\* The kinds of StateRef.
TopInv ==
    top # NoRef =>
        /\ top.kind = "ref" => top.value = <<>>
        /\ top.kind = "guard" => Len(top.value) = 1
        /\ top.kind \in {"embedded", "static"} => top.value = <<top.target>>
        /\ top.kind = "static" => top.static /\ top.owner = <<>>

\* A panic takes the StateRef of the running code with it.
DropInv == unwinding => top = NoRef

ObjectType == [is : {"free", "live", "gone"}, refers : Object \cup {Outside}]
CallType == [static : BOOLEAN, target : Object \cup {Outside}, handle : Seq(Object)]

TypeInv ==
    /\ obj \in [Object -> ObjectType] /\ top \in StateRef \cup {NoRef}
    /\ calls \in Seq(CallType) /\ dropping \in Seq(Object) /\ unwinding \in BOOLEAN

Layout(n, seg, st, aim, ob) ==
    /\ n \in Nat /\ seg \in [0 .. n + 1 -> Seq(Object)] /\ st \in [1 .. n + 1 -> BOOLEAN]
    /\ aim \in [1 .. n + 1 -> Object \cup {Outside}] /\ ob \in [Object -> ObjectType]
    /\ Placed(n, seg, ob) /\ Ordered(n, seg, st, aim, ob)

Laid(d, c, t, ob) == Layout(Len(c), SegsOf(d, c, t), StaticsOf(c, t), AimsOf(c, t), ob)

RefsInv == TypeInv /\ TopInv /\ DropInv /\ Laid(dropping, calls, top, obj)

-----------------------------------------------------------------------------
(* Layouts. *)

\* What segment i may point to depends on the segments up to i.
SameBelow(i, seg, st, seg2, st2) == \A j \in 1 .. i : seg2[j] = seg[j] /\ st2[j] = st[j]
SameUpTo(i, seg, st, aim, ob, seg2, st2, aim2, ob2) ==
    /\ SameBelow(i, seg, st, seg2, st2) /\ aim2[i] = aim[i]
    /\ \A k \in DOMAIN seg[i] : ob2[seg[i][k]].refers = ob[seg[i][k]].refers

LEMMA SeenBelow ==
    ASSUME NEW i \in Nat, NEW seg, NEW st, NEW seg2, NEW st2, SameBelow(i, seg, st, seg2, st2)
    PROVE  \A t : Seen(seg2, st2, i + 1, t) <=> Seen(seg, st, i + 1, t)
<1>1. (i + 1) - 1 = i
  OBVIOUS
<1>2. \A j \in 1 .. i : \A t :
          /\ Covers(st2, j, i + 1) <=> Covers(st, j, i + 1)
          /\ In(seg2, j, t) <=> In(seg, j, t)
  BY <1>1 DEF Covers, In, SameBelow
<1> QED
  BY <1>1, <1>2 DEF Seen

LEMMA OrderedBelow ==
    ASSUME NEW i \in Nat \ {0}, NEW seg, NEW st, NEW aim, NEW ob, NEW seg2, NEW st2, NEW aim2,
           NEW ob2, SameUpTo(i, seg, st, aim, ob, seg2, st2, aim2, ob2),
           SegOrdered(seg, st, aim, ob, i)
    PROVE  SegOrdered(seg2, st2, aim2, ob2, i)
<1>1. seg2[i] = seg[i] /\ st2[i] = st[i] /\ i - 1 \in Nat /\ (i - 1) + 1 = i
  BY DEF SameUpTo, SameBelow
<1>2. SameBelow(i - 1, seg, st, seg2, st2)
  BY DEF SameUpTo, SameBelow
<1>3. \A t : Seen(seg2, st2, i, t) <=> Seen(seg, st, i, t)
  <2>1. \A t : Seen(seg2, st2, (i - 1) + 1, t) <=> Seen(seg, st, (i - 1) + 1, t)
    BY <1>1, <1>2, SeenBelow
  <2> QED
    BY <1>1, <2>1
<1>4. ASSUME NEW k \in DOMAIN seg2[i]
      PROVE  Follows(seg2, st2, i, k, ob2[seg2[i][k]].refers)
  <2>1. PICK r : r = ob2[seg2[i][k]].refers
    OBVIOUS
  <2>2. Follows(seg, st, i, k, r)
    BY <1>1, <1>4, <2>1 DEF SegOrdered, SameUpTo
  <2> QED
    BY <1>1, <1>3, <2>1, <2>2 DEF Follows
<1>5. Points(seg2, st2, i, aim2[i])
  BY <1>1, <1>3 DEF SegOrdered, Points, In, SameUpTo
<1> QED
  BY <1>4, <1>5 DEF SegOrdered

\* What is in a place is live, and not Outside.
LEMMA PlacesLive ==
    ASSUME NEW n, NEW seg, NEW st, NEW aim, NEW ob, Layout(n, seg, st, aim, ob),
           NEW i \in 0 .. n + 1, NEW t, In(seg, i, t)
    PROVE  t \in Object /\ ob[t].is = "live"
<1>1. PICK k \in DOMAIN seg[i] : seg[i][k] = t
  BY DEF In
<1>2. seg[i] \in Seq(Object)
  BY DEF Layout
<1> QED
  BY <1>1, <1>2 DEF Layout, Placed

\* A segment may refer to all that one which it may refer to points to.
LEMMA SeenThrough ==
    ASSUME NEW n, NEW seg, NEW st, NEW aim, NEW ob, Layout(n, seg, st, aim, ob),
           NEW i \in 1 .. n + 1, NEW j, Covers(st, j, i), NEW t, Points(seg, st, j, t)
    PROVE  t = Outside \/ Seen(seg, st, i, t)
<1>1. j \in 1 .. i - 1 /\ n \in Nat
  BY DEF Covers, Layout
<1>2. CASE In(seg, j, t)
  BY <1>1, <1>2 DEF Seen
<1>3. ASSUME ~st[j], NEW l \in 1 .. j - 1, Covers(st, l, j), In(seg, l, t)
      PROVE  Seen(seg, st, i, t)
  <2>1. l \in 1 .. i - 1
    BY <1>1
  <2>2. ASSUME NEW k \in l + 1 .. i - 1
        PROVE  ~st[k]
    <3>1. k \in l + 1 .. j - 1 \/ k = j \/ k \in j + 1 .. i - 1
      BY <1>1
    <3> QED
      BY <1>3, <3>1 DEF Covers
  <2>3. Covers(st, l, i)
    BY <2>1, <2>2 DEF Covers
  <2> QED
    BY <1>3, <2>1, <2>3 DEF Seen
<1> QED
  BY <1>2, <1>3 DEF Points, Seen

LEMMA ReachPoints ==
    ASSUME NEW n, NEW seg, NEW st, NEW aim, NEW ob, Layout(n, seg, st, aim, ob),
           NEW i \in 1 .. n + 1, NEW t, t # Outside, Points(seg, st, i, t)
    PROVE  t \in Object /\ ob[t].is = "live" /\ Points(seg, st, i, ob[t].refers)
<1>1. CASE In(seg, i, t)
  <2>1. t \in Object /\ ob[t].is = "live"
    <3>1. i \in 0 .. n + 1
      BY DEF Layout
    <3> QED
      BY <1>1, <3>1, PlacesLive
  <2>2. PICK k \in DOMAIN seg[i] : seg[i][k] = t
    BY <1>1 DEF In
  <2>3. Follows(seg, st, i, k, ob[t].refers)
    BY <2>2 DEF Layout, Ordered, SegOrdered
  <2> QED
    BY <2>1, <2>3 DEF Follows, Points, In
<1>2. ASSUME ~st[i], NEW j \in 1 .. i - 1, Covers(st, j, i), In(seg, j, t)
      PROVE  t \in Object /\ ob[t].is = "live" /\ Points(seg, st, i, ob[t].refers)
  <2>0. n \in Nat /\ j \in 0 .. n + 1 /\ j \in 1 .. n + 1
    BY DEF Layout
  <2>1. t \in Object /\ ob[t].is = "live"
    BY <1>2, <2>0, PlacesLive
  <2>2. PICK k \in DOMAIN seg[j] : seg[j][k] = t
    BY <1>2 DEF In
  <2>3. PICK r : r = ob[t].refers
    OBVIOUS
  <2>4. Follows(seg, st, j, k, r)
    BY <2>0, <2>2, <2>3 DEF Layout, Ordered, SegOrdered
  <2>5. Points(seg, st, j, r)
    BY <2>4 DEF Follows, Points, In
  <2>6. r = Outside \/ Seen(seg, st, i, r)
    BY <1>2, <2>5, SeenThrough
  <2> QED
    BY <1>2, <2>1, <2>3, <2>6 DEF Points
<1> QED
  BY <1>1, <1>2 DEF Points, Seen

-----------------------------------------------------------------------------
(* What the steps do to a layout. *)

\* The running code makes an object o that refers to r, and a StateRef of it that points to t
\* and is static or not (b).
Made(n, seg, st, aim, ob, o, r, b, t, seg2, st2, aim2, ob2) ==
    /\ seg[n + 1] = <<>> /\ o \in Object /\ ob[o].is # "live" /\ b \in BOOLEAN
    /\ r \in Object \cup {Outside} /\ (r = Outside \/ (~b /\ Seen(seg, st, n + 1, r)))
    /\ t \in Object \cup {Outside} /\ (t = Outside \/ t = o \/ (~b /\ Seen(seg, st, n + 1, t)))
    /\ seg2 = [seg EXCEPT ![n + 1] = <<o>>] /\ st2 = [st EXCEPT ![n + 1] = b]
    /\ aim2 = [aim EXCEPT ![n + 1] = t]
    /\ ob2 = [ob EXCEPT ![o] = [is |-> "live", refers |-> r]]

LEMMA LayoutMade ==
    ASSUME NEW n, NEW seg, NEW st, NEW aim, NEW ob, NEW o, NEW r, NEW b, NEW t,
           NEW seg2, NEW st2, NEW aim2, NEW ob2, Layout(n, seg, st, aim, ob),
           Made(n, seg, st, aim, ob, o, r, b, t, seg2, st2, aim2, ob2)
    PROVE  Layout(n, seg2, st2, aim2, ob2)
<1> USE DEF Made
<1>1. /\ n \in Nat /\ seg \in [0 .. n + 1 -> Seq(Object)] /\ st \in [1 .. n + 1 -> BOOLEAN]
      /\ aim \in [1 .. n + 1 -> Object \cup {Outside}] /\ ob \in [Object -> ObjectType]
      /\ Placed(n, seg, ob) /\ Ordered(n, seg, st, aim, ob)
  BY DEF Layout
<1>2. /\ <<o>> \in Seq(Object) /\ n + 1 \in 0 .. n + 1 /\ n + 1 \in 1 .. n + 1
      /\ [is |-> "live", refers |-> r] \in ObjectType
  BY <1>1 DEF ObjectType
<1>3. /\ seg2 \in [0 .. n + 1 -> Seq(Object)] /\ st2 \in [1 .. n + 1 -> BOOLEAN]
      /\ aim2 \in [1 .. n + 1 -> Object \cup {Outside}] /\ ob2 \in [Object -> ObjectType]
  BY <1>1, <1>2
<1>4. /\ seg2[n + 1] = <<o>> /\ st2[n + 1] = b /\ aim2[n + 1] = t
      /\ \A i \in 0 .. n : seg2[i] = seg[i]
      /\ \A i \in 1 .. n : st2[i] = st[i] /\ aim2[i] = aim[i]
      /\ \A i \in 0 .. n : i \in 0 .. n + 1 /\ i # n + 1
      /\ \A i \in 0 .. n + 1 : i \in 0 .. n \/ i = n + 1
  BY <1>1, <1>2
<1>5. ob2[o].is = "live" /\ ob2[o].refers = r /\ \A p \in Object : p # o => ob2[p] = ob[p]
  BY <1>1
<1>6. \A i \in 0 .. n : \A k \in DOMAIN seg[i] :
          /\ seg[i][k] \in Object /\ ob[seg[i][k]].is = "live" /\ seg[i][k] # o
          /\ ob2[seg[i][k]] = ob[seg[i][k]]
  <2> SUFFICES ASSUME NEW i \in 0 .. n, NEW k \in DOMAIN seg[i]
               PROVE  /\ seg[i][k] \in Object /\ ob[seg[i][k]].is = "live" /\ seg[i][k] # o
                      /\ ob2[seg[i][k]] = ob[seg[i][k]]
    OBVIOUS
  <2>1. seg[i] \in Seq(Object) /\ i \in 0 .. n + 1
    BY <1>1, <1>4
  <2>2. seg[i][k] \in Object
    BY <2>1
  <2>3. ob[seg[i][k]].is = "live"
    BY <1>1, <2>1 DEF Placed
  <2> QED
    BY <1>5, <2>2, <2>3
<1>7. DOMAIN seg2[n + 1] = {1} /\ seg2[n + 1][1] = o
  BY <1>4
<1>8. \A i \in 0 .. n : \A u : In(seg2, i, u) <=> In(seg, i, u)
  BY <1>4 DEF In
<1>9. Placed(n, seg2, ob2)
  <2>1. ASSUME NEW i \in 0 .. n + 1, NEW k \in DOMAIN seg2[i]
        PROVE  ob2[seg2[i][k]].is = "live"
    <3>1. CASE i \in 0 .. n
      BY <1>4, <1>6, <3>1
    <3>2. CASE i = n + 1
      BY <1>5, <1>7, <3>2
    <3> QED
      BY <1>4, <3>1, <3>2
  <2>2. ASSUME NEW i \in 0 .. n + 1, NEW j \in 0 .. n + 1, NEW k \in DOMAIN seg2[i],
               NEW l \in DOMAIN seg2[j], seg2[i][k] = seg2[j][l]
        PROVE  i = j /\ k = l
    <3>1. CASE i \in 0 .. n /\ j \in 0 .. n
      BY <1>1, <1>4, <2>2, <3>1 DEF Placed
    <3>2. CASE i = n + 1 /\ j = n + 1
      BY <1>7, <3>2
    <3>3. CASE i = n + 1 /\ j \in 0 .. n
      BY <1>4, <1>6, <1>7, <2>2, <3>3
    <3>4. CASE i \in 0 .. n /\ j = n + 1
      BY <1>4, <1>6, <1>7, <2>2, <3>4
    <3> QED
      BY <1>4, <3>1, <3>2, <3>3, <3>4
  <2>3. ASSUME NEW p \in Object, ob2[p].is = "live"
        PROVE  \E i \in 0 .. n + 1 : In(seg2, i, p)
    <3>1. CASE p = o
      BY <1>2, <1>7, <3>1 DEF In
    <3>2. CASE p # o
      <4>1. PICK i \in 0 .. n + 1 : In(seg, i, p)
        BY <1>1, <1>5, <2>3, <3>2 DEF Placed
      <4>2. i # n + 1
        BY <4>1 DEF In
      <4> QED
        BY <1>4, <1>8, <4>1, <4>2
    <3> QED
      BY <3>1, <3>2
  <2> QED
    BY <2>1, <2>2, <2>3 DEF Placed
<1>10. \A k \in DOMAIN seg2[0] : Outlives(seg2, n, k, ob2[seg2[0][k]].refers)
  <2>0. 0 \in 0 .. n /\ seg2[0] = seg[0] /\ \A j \in 1 .. n : j \in 0 .. n
    BY <1>1, <1>4
  <2> SUFFICES ASSUME NEW k \in DOMAIN seg2[0]
               PROVE  Outlives(seg2, n, k, ob2[seg2[0][k]].refers)
    OBVIOUS
  <2>1. PICK u : u = ob[seg[0][k]].refers
    OBVIOUS
  <2>2. Outlives(seg, n, k, u) /\ ob2[seg2[0][k]].refers = u
    BY <1>1, <1>6, <2>0, <2>1 DEF Ordered
  <2> QED
    BY <1>8, <2>0, <2>2 DEF Outlives
<1>11. ASSUME NEW i \in 1 .. n
       PROVE  SegOrdered(seg2, st2, aim2, ob2, i)
  <2>1. i \in Nat \ {0} /\ i \in 0 .. n /\ i \in 1 .. n + 1
    BY <1>1
  <2>2. SameUpTo(i, seg, st, aim, ob, seg2, st2, aim2, ob2)
    BY <1>4, <1>6, <2>1 DEF SameUpTo, SameBelow
  <2>3. SegOrdered(seg, st, aim, ob, i)
    BY <1>1, <2>1 DEF Ordered
  <2> QED
    BY <2>1, <2>2, <2>3, OrderedBelow
<1>12. SegOrdered(seg2, st2, aim2, ob2, n + 1)
  <2>1. SameBelow(n, seg, st, seg2, st2)
    BY <1>1, <1>4 DEF SameBelow
  <2>2. \A u : Seen(seg2, st2, n + 1, u) <=> Seen(seg, st, n + 1, u)
    BY <1>1, <2>1, SeenBelow
  <2>3. Follows(seg2, st2, n + 1, 1, r)
    BY <1>4, <2>2 DEF Follows
  <2>4. Points(seg2, st2, n + 1, t)
    BY <1>4, <1>7, <2>2 DEF Points, In
  <2> QED
    BY <1>4, <1>5, <1>7, <2>3, <2>4 DEF SegOrdered
<1>13. \A i \in 1 .. n + 1 : i \in 1 .. n \/ i = n + 1
  BY <1>1
<1>14. Ordered(n, seg2, st2, aim2, ob2)
  BY <1>10, <1>11, <1>12, <1>13 DEF Ordered
<1> QED
  BY <1>1, <1>3, <1>9, <1>14 DEF Layout

\* The running code's StateRef points to something else.
Aimed(n, seg, st, aim, b, t, st2, aim2) ==
    /\ b \in BOOLEAN /\ (b = st[n + 1] \/ seg[n + 1] = <<>>) /\ st2 = [st EXCEPT ![n + 1] = b]
    /\ t \in Object \cup {Outside} /\ Points(seg, st2, n + 1, t)
    /\ aim2 = [aim EXCEPT ![n + 1] = t]

LEMMA LayoutAimed ==
    ASSUME NEW n, NEW seg, NEW st, NEW aim, NEW ob, NEW b, NEW t, NEW st2, NEW aim2,
           Layout(n, seg, st, aim, ob), Aimed(n, seg, st, aim, b, t, st2, aim2)
    PROVE  Layout(n, seg, st2, aim2, ob)
<1> USE DEF Aimed
<1>1. /\ n \in Nat /\ seg \in [0 .. n + 1 -> Seq(Object)] /\ st \in [1 .. n + 1 -> BOOLEAN]
      /\ aim \in [1 .. n + 1 -> Object \cup {Outside}] /\ ob \in [Object -> ObjectType]
      /\ Placed(n, seg, ob) /\ Ordered(n, seg, st, aim, ob)
  BY DEF Layout
<1>2. /\ st2 \in [1 .. n + 1 -> BOOLEAN] /\ aim2 \in [1 .. n + 1 -> Object \cup {Outside}]
      /\ n + 1 \in 1 .. n + 1 /\ st2[n + 1] = b /\ aim2[n + 1] = t
      /\ \A i \in 1 .. n : st2[i] = st[i] /\ aim2[i] = aim[i] /\ i \in 1 .. n + 1
      /\ \A i \in 1 .. n + 1 : i \in 1 .. n \/ i = n + 1
  BY <1>1
<1>3. ASSUME NEW i \in 1 .. n
      PROVE  SegOrdered(seg, st2, aim2, ob, i)
  <2>1. /\ i \in Nat \ {0} /\ i \in 1 .. n + 1
        /\ SameUpTo(i, seg, st, aim, ob, seg, st2, aim2, ob)
    BY <1>1, <1>2 DEF SameUpTo, SameBelow
  <2>2. SegOrdered(seg, st, aim, ob, i)
    BY <1>1, <2>1 DEF Ordered
  <2> QED
    BY <2>1, <2>2, OrderedBelow
<1>4. SegOrdered(seg, st2, aim2, ob, n + 1)
  <2>1. CASE b = st[n + 1]
    <3>1. st2 = st
      BY <1>1, <2>1
    <3>2. SegOrdered(seg, st, aim, ob, n + 1)
      BY <1>1, <1>2 DEF Ordered
    <3>3. Points(seg, st2, n + 1, aim2[n + 1])
      BY <1>2
    <3> QED
      BY <3>1, <3>2, <3>3 DEF SegOrdered
  <2>2. CASE seg[n + 1] = <<>>
    BY <1>2, <2>2 DEF SegOrdered
  <2> QED
    BY <2>1, <2>2
<1>5. Ordered(n, seg, st2, aim2, ob)
  BY <1>1, <1>2, <1>3, <1>4 DEF Ordered
<1> QED
  BY <1>1, <1>2, <1>5 DEF Layout

\* A map_ref calls its closure, which has nothing yet.
Called(n, seg, st, aim, seg2, st2, aim2) ==
    /\ seg2 = [i \in 0 .. n + 2 |-> IF i = n + 2 THEN <<>> ELSE seg[i]]
    /\ st2 = [i \in 1 .. n + 2 |-> IF i = n + 2 THEN FALSE ELSE st[i]]
    /\ aim2 = [i \in 1 .. n + 2 |-> IF i = n + 2 THEN Outside ELSE aim[i]]

LEMMA LayoutCalled ==
    ASSUME NEW n, NEW seg, NEW st, NEW aim, NEW ob, NEW seg2, NEW st2, NEW aim2,
           Layout(n, seg, st, aim, ob), Called(n, seg, st, aim, seg2, st2, aim2)
    PROVE  Layout(n + 1, seg2, st2, aim2, ob)
<1> USE DEF Called
<1>1. /\ n \in Nat /\ seg \in [0 .. n + 1 -> Seq(Object)] /\ st \in [1 .. n + 1 -> BOOLEAN]
      /\ aim \in [1 .. n + 1 -> Object \cup {Outside}] /\ ob \in [Object -> ObjectType]
      /\ Placed(n, seg, ob) /\ Ordered(n, seg, st, aim, ob)
  BY DEF Layout
<1>2. /\ n + 1 \in Nat /\ (n + 1) + 1 = n + 2 /\ 0 \in 0 .. n + 1 /\ 0 # n + 2
      /\ \A i \in 0 .. n + 1 : i \in 0 .. n + 2 /\ i # n + 2
      /\ \A i \in 1 .. n + 1 : i \in 0 .. n + 1 /\ i \in 1 .. n + 2 /\ i # n + 2
      /\ \A i \in 0 .. n + 2 : i \in 0 .. n + 1 \/ i = n + 2
      /\ \A i \in 1 .. n + 2 : i \in 1 .. n + 1 \/ i = n + 2
      /\ \A i \in 1 .. n : i \in 1 .. n + 1
  BY <1>1
<1>3. <<>> \in Seq(Object)
  OBVIOUS
<1>4. /\ seg2 \in [0 .. n + 2 -> Seq(Object)] /\ st2 \in [1 .. n + 2 -> BOOLEAN]
      /\ aim2 \in [1 .. n + 2 -> Object \cup {Outside}]
  BY <1>1, <1>2, <1>3
<1>5. /\ seg2[n + 2] = <<>> /\ aim2[n + 2] = Outside
      /\ \A i \in 0 .. n + 1 : seg2[i] = seg[i]
      /\ \A i \in 1 .. n + 1 : st2[i] = st[i] /\ aim2[i] = aim[i]
  <2>1. n + 2 \in 0 .. n + 2 /\ n + 2 \in 1 .. n + 2
    BY <1>1
  <2> QED
    BY <1>2, <2>1
<1>6. \A i \in 0 .. n + 2 : \A k \in DOMAIN seg2[i] : i \in 0 .. n + 1 /\ k \in DOMAIN seg[i]
  BY <1>2, <1>5
<1>7. \A i \in 0 .. n + 1 : \A t : In(seg2, i, t) <=> In(seg, i, t)
  BY <1>5 DEF In
<1>8. Placed(n + 1, seg2, ob)
  <2>1. \A i \in 0 .. n + 2 : \A k \in DOMAIN seg2[i] : ob[seg2[i][k]].is = "live"
    BY <1>1, <1>5, <1>6 DEF Placed
  <2>2. \A i \in 0 .. n + 2, j \in 0 .. n + 2 : \A k \in DOMAIN seg2[i], l \in DOMAIN seg2[j] :
            seg2[i][k] = seg2[j][l] => i = j /\ k = l
    BY <1>1, <1>5, <1>6 DEF Placed
  <2>3. \A o \in Object : ob[o].is = "live" => \E i \in 0 .. n + 2 : In(seg2, i, o)
    BY <1>1, <1>2, <1>7 DEF Placed
  <2>4. 0 .. (n + 1) + 1 = 0 .. n + 2
    BY <1>2
  <2> HIDE DEF Called
  <2> QED
    BY <2>1, <2>2, <2>3, <2>4, Zenon DEF Placed
<1>9. \A k \in DOMAIN seg2[0] : Outlives(seg2, n + 1, k, ob[seg2[0][k]].refers)
  <2> SUFFICES ASSUME NEW k \in DOMAIN seg2[0]
               PROVE  Outlives(seg2, n + 1, k, ob[seg2[0][k]].refers)
    OBVIOUS
  <2>1. PICK r : r = ob[seg[0][k]].refers
    OBVIOUS
  <2>2. Outlives(seg, n, k, r) /\ seg2[0] = seg[0]
    BY <1>1, <1>2, <1>5, <2>1 DEF Ordered
  <2> QED
    BY <1>2, <1>7, <2>1, <2>2 DEF Outlives
<1>10. ASSUME NEW i \in 1 .. n + 1
       PROVE  SegOrdered(seg2, st2, aim2, ob, i)
  <2>1. i \in Nat \ {0} /\ \A j \in 1 .. i : j \in 1 .. n + 1
    BY <1>1
  <2>2. SameUpTo(i, seg, st, aim, ob, seg2, st2, aim2, ob)
    BY <1>2, <1>5, <2>1 DEF SameUpTo, SameBelow
  <2>3. SegOrdered(seg, st, aim, ob, i)
    BY <1>1 DEF Ordered
  <2> QED
    BY <2>1, <2>2, <2>3, OrderedBelow
<1>11. SegOrdered(seg2, st2, aim2, ob, n + 2)
  <2>1. n + 2 \in 0 .. n + 2 /\ n + 2 \notin 0 .. n + 1
    BY <1>1
  <2>2. ASSUME NEW k \in DOMAIN seg2[n + 2]
        PROVE  FALSE
    BY <1>6, <2>1, <2>2
  <2> QED
    BY <1>5, <2>2 DEF SegOrdered, Points
<1>12. Ordered(n + 1, seg2, st2, aim2, ob)
  BY <1>2, <1>9, <1>10, <1>11 DEF Ordered
<1> QED
  BY <1>1, <1>2, <1>4, <1>8, <1>12 DEF Layout

\* What a StateRef, or a map_ref, owns is about to be dropped: the StateRef of the running
\* code, or what the last map_ref has pinned if that StateRef does not need it.
Cut(n, seg, st, aim, j, b, seg2, st2, aim2) ==
    /\ seg[0] = <<>> /\ j \in 1 .. n + 1 /\ (j = n + 1 \/ (j = n /\ st[n + 1]))
    /\ b \in BOOLEAN /\ st2 = [st EXCEPT ![j] = b]
    /\ seg2 = [seg EXCEPT ![0] = seg[j], ![j] = <<>>] /\ aim2 = [aim EXCEPT ![j] = Outside]

LEMMA LayoutCut ==
    ASSUME NEW n, NEW seg, NEW st, NEW aim, NEW ob, NEW j, NEW b, NEW seg2, NEW st2, NEW aim2,
           Layout(n, seg, st, aim, ob), Cut(n, seg, st, aim, j, b, seg2, st2, aim2)
    PROVE  Layout(n, seg2, st2, aim2, ob)
<1> USE DEF Cut
<1>1. /\ n \in Nat /\ seg \in [0 .. n + 1 -> Seq(Object)] /\ st \in [1 .. n + 1 -> BOOLEAN]
      /\ aim \in [1 .. n + 1 -> Object \cup {Outside}] /\ ob \in [Object -> ObjectType]
      /\ Placed(n, seg, ob) /\ Ordered(n, seg, st, aim, ob)
  BY DEF Layout
<1>2. /\ <<>> \in Seq(Object) /\ 0 \in 0 .. n + 1 /\ j \in 0 .. n + 1 /\ j # 0
      /\ \A i \in 1 .. n + 1 : i \in 0 .. n + 1 /\ i # 0
  BY <1>1
<1>3. /\ seg2 \in [0 .. n + 1 -> Seq(Object)] /\ st2 \in [1 .. n + 1 -> BOOLEAN]
      /\ aim2 \in [1 .. n + 1 -> Object \cup {Outside}]
  BY <1>1, <1>2
<1>4. /\ seg2[0] = seg[j] /\ seg2[j] = <<>> /\ aim2[j] = Outside
      /\ \A i \in 1 .. n + 1 : i # j => seg2[i] = seg[i] /\ st2[i] = st[i] /\ aim2[i] = aim[i]
  BY <1>1, <1>2
<1>5. \A i \in 0 .. n + 1 : i = 0 \/ i = j \/ (i # 0 /\ i # j /\ i \in 1 .. n + 1)
  BY <1>1
<1>6. Placed(n, seg2, ob)
  <2>1. ASSUME NEW i \in 0 .. n + 1, NEW k \in DOMAIN seg2[i]
        PROVE  \E p \in 0 .. n + 1 : /\ seg2[i] = seg[p] /\ k \in DOMAIN seg[p]
                                     /\ (i = 0 /\ p = j) \/ (i # 0 /\ i # j /\ p = i)
    <3>1. CASE i = 0
      BY <1>2, <1>4, <2>1, <3>1
    <3>2. CASE i = j
      BY <1>4, <2>1, <3>2
    <3>3. CASE i # 0 /\ i # j /\ i \in 1 .. n + 1
      BY <1>2, <1>4, <2>1, <3>3
    <3> QED
      BY <1>5, <3>1, <3>2, <3>3
  <2>2. ASSUME NEW i \in 0 .. n + 1, NEW k \in DOMAIN seg2[i]
        PROVE  ob[seg2[i][k]].is = "live"
    <3>1. PICK p \in 0 .. n + 1 : seg2[i] = seg[p] /\ k \in DOMAIN seg[p]
      BY <2>1, <2>2
    <3>2. ob[seg[p][k]].is = "live"
      BY <1>1, <3>1 DEF Placed
    <3> QED
      BY <3>1, <3>2
  <2>3. ASSUME NEW i \in 0 .. n + 1, NEW h \in 0 .. n + 1, NEW k \in DOMAIN seg2[i],
               NEW l \in DOMAIN seg2[h], seg2[i][k] = seg2[h][l]
        PROVE  i = h /\ k = l
    <3>1. PICK p \in 0 .. n + 1 : /\ seg2[i] = seg[p] /\ k \in DOMAIN seg[p]
                                  /\ (i = 0 /\ p = j) \/ (i # 0 /\ i # j /\ p = i)
      BY <2>1
    <3>2. PICK q \in 0 .. n + 1 : /\ seg2[h] = seg[q] /\ l \in DOMAIN seg[q]
                                  /\ (h = 0 /\ q = j) \/ (h # 0 /\ h # j /\ q = h)
      BY <2>1
    <3>3. p = q /\ k = l
      BY <1>1, <2>3, <3>1, <3>2 DEF Placed
    <3> QED
      BY <3>1, <3>2, <3>3
  <2>4. ASSUME NEW o \in Object, ob[o].is = "live"
        PROVE  \E i \in 0 .. n + 1 : In(seg2, i, o)
    <3>1. PICK p \in 0 .. n + 1 : In(seg, p, o)
      BY <1>1, <2>4 DEF Placed
    <3>2. CASE p = j
      BY <1>2, <1>4, <3>1, <3>2 DEF In
    <3>3. CASE p # j
      <4>1. p # 0
        BY <3>1 DEF In
      <4>2. p \in 1 .. n + 1 /\ seg2[p] = seg[p]
        BY <1>4, <1>5, <3>3, <4>1
      <4> QED
        BY <3>1, <4>2 DEF In
    <3> QED
      BY <3>2, <3>3
  <2> QED
    BY <2>2, <2>3, <2>4 DEF Placed
<1>7. \A k \in DOMAIN seg2[0] : Outlives(seg2, n, k, ob[seg2[0][k]].refers)
  <2> SUFFICES ASSUME NEW k \in DOMAIN seg2[0]
               PROVE  Outlives(seg2, n, k, ob[seg2[0][k]].refers)
    OBVIOUS
  <2>1. PICK r : r = ob[seg[j][k]].refers
    OBVIOUS
  <2>2. Follows(seg, st, j, k, r)
    BY <1>1, <1>4, <2>1 DEF Ordered, SegOrdered
  <2>3. CASE Seen(seg, st, j, r)
    <3>1. PICK h \in 1 .. j - 1 : In(seg, h, r)
      BY <2>3 DEF Seen
    <3>2. h \in 1 .. n + 1 /\ h # j /\ h \in 1 .. n
      BY <1>1
    <3>3. In(seg2, h, r)
      BY <1>4, <3>1, <3>2 DEF In
    <3> QED
      BY <1>4, <2>1, <3>2, <3>3 DEF Outlives
  <2>4. CASE ~Seen(seg, st, j, r)
    BY <1>4, <2>1, <2>2, <2>4 DEF Follows, Outlives
  <2> QED
    BY <2>3, <2>4
<1>8. ASSUME NEW i \in 1 .. n + 1, i < j
      PROVE  SegOrdered(seg2, st2, aim2, ob, i)
  <2>0. n \in Nat
    BY <1>1
  <2>1. i \in Nat \ {0} /\ i # j /\ \A h \in 1 .. i : h \in 1 .. n + 1 /\ h # j
    BY <1>8, <2>0
  <2>2. SameUpTo(i, seg, st, aim, ob, seg2, st2, aim2, ob)
    <3>1. SameBelow(i, seg, st, seg2, st2)
      BY <1>4, <2>1 DEF SameBelow
    <3> QED
      BY <1>4, <2>1, <3>1 DEF SameUpTo
  <2>3. SegOrdered(seg, st, aim, ob, i)
    BY <1>1 DEF Ordered
  <2> QED
    BY <2>1, <2>2, <2>3, OrderedBelow
<1>9. SegOrdered(seg2, st2, aim2, ob, j)
  BY <1>4 DEF SegOrdered, Points
<1>10. ASSUME NEW i \in 1 .. n + 1, i > j
       PROVE  SegOrdered(seg2, st2, aim2, ob, i)
  <2>0. n \in Nat
    BY <1>1
  <2>1. i = n + 1 /\ st[i] /\ i # j
    BY <1>10, <2>0
  <2>2. seg2[i] = seg[i] /\ st2[i] = st[i] /\ aim2[i] = aim[i]
    BY <1>4, <2>1
  <2>3. SegOrdered(seg, st, aim, ob, i)
    BY <1>1 DEF Ordered
  <2>4. ASSUME NEW k \in DOMAIN seg2[i]
        PROVE  Follows(seg2, st2, i, k, ob[seg2[i][k]].refers)
    <3>1. PICK r : r = ob[seg2[i][k]].refers
      OBVIOUS
    <3>2. Follows(seg, st, i, k, r)
      BY <2>2, <2>3, <2>4, <3>1 DEF SegOrdered
    <3> QED
      BY <2>1, <2>2, <3>1, <3>2 DEF Follows
  <2>5. Points(seg2, st2, i, aim2[i])
    BY <2>1, <2>2, <2>3 DEF SegOrdered, Points, In
  <2> QED
    BY <2>4, <2>5 DEF SegOrdered
<1>11. \A i \in 1 .. n + 1 : i < j \/ i = j \/ i > j
  BY <1>1
<1>12. Ordered(n, seg2, st2, aim2, ob)
  BY <1>7, <1>8, <1>9, <1>10, <1>11 DEF Ordered
<1> QED
  BY <1>1, <1>3, <1>6, <1>12 DEF Layout

LEMMA Concatenated ==
    ASSUME NEW a \in Seq(Object), NEW b \in Seq(Object)
    PROVE  /\ a \o b \in Seq(Object)
           /\ \A k \in DOMAIN (a \o b) :
                 \/ k \in DOMAIN a /\ (a \o b)[k] = a[k]
                 \/ /\ k \in Nat /\ k > Len(a) /\ k - Len(a) \in DOMAIN b
                    /\ (a \o b)[k] = b[k - Len(a)]
           /\ \A k \in DOMAIN a :
                 k \in DOMAIN (a \o b) /\ (a \o b)[k] = a[k] /\ k \in 1 .. Len(a)
           /\ \A k \in DOMAIN b :
                 k + Len(a) \in DOMAIN (a \o b) /\ (a \o b)[k + Len(a)] = b[k]
  OBVIOUS

\* The closure returns: the objects of its StateRef are dropped before what map_ref has
\* pinned.
Joined(n, seg, st, aim, seg2, st2, aim2) ==
    /\ n # 0 /\ (seg[0] = <<>> \/ seg[n] = <<>>)
    /\ seg2 = [i \in 0 .. n |-> IF i = n THEN seg[n + 1] \o seg[n] ELSE seg[i]]
    /\ st2 = [i \in 1 .. n |-> st[i]]
    /\ aim2 = [i \in 1 .. n |-> IF i = n THEN aim[n + 1] ELSE aim[i]]

LEMMA LayoutJoined ==
    ASSUME NEW n, NEW seg, NEW st, NEW aim, NEW ob, NEW seg2, NEW st2, NEW aim2,
           Layout(n, seg, st, aim, ob), Joined(n, seg, st, aim, seg2, st2, aim2)
    PROVE  Layout(n - 1, seg2, st2, aim2, ob)
<1> USE DEF Joined
<1> DEFINE a == seg[n + 1]
           b == seg[n]
           c == a \o b
<1>1. /\ n \in Nat /\ seg \in [0 .. n + 1 -> Seq(Object)] /\ st \in [1 .. n + 1 -> BOOLEAN]
      /\ aim \in [1 .. n + 1 -> Object \cup {Outside}] /\ ob \in [Object -> ObjectType]
      /\ Placed(n, seg, ob) /\ Ordered(n, seg, st, aim, ob)
  BY DEF Layout
<1>2. n \in Nat \ {0}
  BY <1>1
<1>3. /\ n - 1 \in Nat /\ (n - 1) + 1 = n /\ 0 \in 0 .. n /\ n \in 0 .. n /\ n \in 1 .. n
      /\ n + 1 \in 0 .. n + 1 /\ n + 1 \in 1 .. n + 1 /\ n \in 0 .. n + 1 /\ n + 1 # n
      /\ (n + 1) - 1 = n /\ n \in 1 .. n + 1
      /\ \A i \in 0 .. n : i \in 0 .. n + 1 /\ i # n + 1
      /\ \A i \in 1 .. n : i \in 0 .. n /\ i \in 1 .. n + 1
      /\ \A i \in 0 .. n + 1 : i \in 0 .. n \/ i = n + 1
      /\ \A i \in 1 .. n : i \in 1 .. n - 1 \/ i = n
      /\ \A i \in 1 .. n - 1 : i \in 1 .. n /\ i # n
  BY <1>2
<1>4. a \in Seq(Object) /\ b \in Seq(Object)
  BY <1>1, <1>3
<1>5. /\ c \in Seq(Object)
      /\ \A k \in DOMAIN c : \/ k \in DOMAIN a /\ c[k] = a[k]
                             \/ /\ k \in Nat /\ k > Len(a) /\ k - Len(a) \in DOMAIN b
                                /\ c[k] = b[k - Len(a)]
      /\ \A k \in DOMAIN a : k \in DOMAIN c /\ c[k] = a[k] /\ k \in 1 .. Len(a)
      /\ \A k \in DOMAIN b : k + Len(a) \in DOMAIN c /\ c[k + Len(a)] = b[k]
  BY <1>4, Concatenated
<1>6. Len(a) \in Nat /\ \A k \in DOMAIN b : k \in Nat \ {0}
  BY <1>4
<1> HIDE DEF c
<1>7. /\ seg2[n] = c /\ aim2[n] = aim[n + 1] /\ st2[n] = st[n]
      /\ \A i \in 0 .. n : i # n => seg2[i] = seg[i]
      /\ \A i \in 1 .. n : st2[i] = st[i] /\ (i # n => aim2[i] = aim[i])
  BY <1>3 DEF c
<1>8. /\ seg2 \in [0 .. n -> Seq(Object)] /\ st2 \in [1 .. n -> BOOLEAN]
      /\ aim2 \in [1 .. n -> Object \cup {Outside}]
  BY <1>1, <1>3, <1>5 DEF c
<1>9. \A t : In(seg2, n, t) <=> In(seg, n, t) \/ In(seg, n + 1, t)
  <2>1. ASSUME NEW t, In(seg2, n, t)
        PROVE  In(seg, n, t) \/ In(seg, n + 1, t)
    <3>1. PICK k \in DOMAIN c : c[k] = t
      BY <1>7, <2>1 DEF In
    <3>2. (\E l \in DOMAIN a : a[l] = t) \/ (\E l \in DOMAIN b : b[l] = t)
      BY <1>5, <3>1
    <3> QED
      BY <3>2 DEF In
  <2>2. ASSUME NEW t, In(seg, n, t) \/ In(seg, n + 1, t)
        PROVE  In(seg2, n, t)
    <3>1. (\E l \in DOMAIN a : a[l] = t) \/ (\E l \in DOMAIN b : b[l] = t)
      BY <2>2 DEF In
    <3>2. \E k \in DOMAIN c : c[k] = t
      BY <1>5, <3>1
    <3> QED
      BY <1>7, <3>2 DEF In
  <2> QED
    BY <2>1, <2>2
<1>10. \A i \in 0 .. n : \A t : i # n => (In(seg2, i, t) <=> In(seg, i, t))
  BY <1>7 DEF In
\* The place that an object had.
<1> DEFINE Was(i, k, p, l) == /\ p \in 0 .. n + 1 /\ l \in DOMAIN seg[p] /\ seg2[i][k] = seg[p][l]
                              /\ \/ i # n /\ p = i /\ l = k
                                 \/ i = n /\ p = n + 1 /\ l = k /\ k \in 1 .. Len(a)
                                 \/ i = n /\ p = n /\ k \in Nat /\ k > Len(a) /\ l = k - Len(a)
<1>11. ASSUME NEW i \in 0 .. n, NEW k \in DOMAIN seg2[i]
       PROVE  \E p, l : Was(i, k, p, l)
  <2>1. CASE i # n
    BY <1>3, <1>7, <1>11, <2>1
  <2>2. CASE i = n
    <3>1. CASE k \in DOMAIN a /\ c[k] = a[k]
      BY <1>3, <1>5, <1>7, <2>2, <3>1
    <3>2. CASE /\ k \in Nat /\ k > Len(a) /\ k - Len(a) \in DOMAIN b
               /\ c[k] = b[k - Len(a)]
      BY <1>3, <1>7, <2>2, <3>2
    <3> QED
      BY <1>5, <1>7, <1>11, <2>2, <3>1, <3>2
  <2> QED
    BY <2>1, <2>2
<1>12. Placed(n - 1, seg2, ob)
  <2>1. ASSUME NEW i \in 0 .. n, NEW k \in DOMAIN seg2[i]
        PROVE  ob[seg2[i][k]].is = "live"
    <3>1. PICK p, l : Was(i, k, p, l)
      BY <1>11, <2>1
    <3>2. ob[seg[p][l]].is = "live"
      BY <1>1, <3>1 DEF Placed
    <3> QED
      BY <3>1, <3>2
  <2>2. ASSUME NEW i \in 0 .. (n - 1) + 1, NEW j \in 0 .. (n - 1) + 1,
               NEW k \in DOMAIN seg2[i], NEW l \in DOMAIN seg2[j], seg2[i][k] = seg2[j][l]
        PROVE  i = j /\ k = l
    <3>0. i \in 0 .. n /\ j \in 0 .. n
      BY <1>3
    <3>1. PICK p, q : Was(i, k, p, q)
      BY <1>11, <2>2, <3>0
    <3>2. PICK u, v : Was(j, l, u, v)
      BY <1>11, <2>2, <3>0
    <3>3. seg[p][q] = seg[u][v] /\ q \in DOMAIN seg[p] /\ v \in DOMAIN seg[u]
      BY <2>2, <3>1, <3>2
    <3>4. p = u /\ q = v
      BY <1>1, <3>1, <3>2, <3>3 DEF Placed
    <3> QED
      BY <1>3, <1>6, <3>0, <3>1, <3>2, <3>4
  <2>3. ASSUME NEW o \in Object, ob[o].is = "live"
        PROVE  \E i \in 0 .. n : In(seg2, i, o)
    <3>1. PICK p \in 0 .. n + 1 : In(seg, p, o)
      BY <1>1, <2>3 DEF Placed
    <3> QED
      BY <1>3, <1>9, <1>10, <3>1
  <2>4. \A i \in 0 .. (n - 1) + 1 : i \in 0 .. n
    BY <1>3
  <2>5. \A i \in 0 .. n : i \in 0 .. (n - 1) + 1
    BY <1>3
  <2>6. \A i \in 0 .. (n - 1) + 1 : \A k \in DOMAIN seg2[i] : ob[seg2[i][k]].is = "live"
    BY <2>1, <2>4
  <2>7. \A o \in Object : ob[o].is = "live" => \E i \in 0 .. (n - 1) + 1 : In(seg2, i, o)
    BY <2>3, <2>5
  <2> QED
    BY <2>2, <2>6, <2>7 DEF Placed
<1>13. \A k \in DOMAIN seg2[0] : Outlives(seg2, n - 1, k, ob[seg2[0][k]].refers)
  <2> SUFFICES ASSUME NEW k \in DOMAIN seg2[0]
               PROVE  Outlives(seg2, n - 1, k, ob[seg2[0][k]].refers)
    OBVIOUS
  <2>1. PICK r : r = ob[seg[0][k]].refers
    OBVIOUS
  <2>2. seg2[0] = seg[0]
    BY <1>2, <1>3, <1>7
  <2>3. Outlives(seg, n, k, r)
    BY <1>1, <2>1, <2>2 DEF Ordered
  <2>4. ~In(seg, n, r)
    <3>1. DOMAIN seg[0] # {}
      BY <2>2
    <3>2. seg[n] = <<>>
      BY <3>1
    <3> QED
      BY <3>2 DEF In
  <2>5. \A j \in 1 .. n : In(seg, j, r) => j \in 1 .. n - 1 /\ In(seg2, j, r)
    BY <1>3, <1>10, <2>4
  <2> QED
    BY <2>1, <2>2, <2>3, <2>5 DEF Outlives
<1>14. SameBelow(n - 1, seg, st, seg2, st2)
  BY <1>3, <1>7 DEF SameBelow
<1>15. ASSUME NEW i \in 1 .. n - 1
       PROVE  SegOrdered(seg2, st2, aim2, ob, i)
  <2>1. i \in Nat \ {0} /\ i # n /\ i \in 1 .. n /\ \A j \in 1 .. i : j \in 1 .. n - 1
    BY <1>2
  <2>2. SameUpTo(i, seg, st, aim, ob, seg2, st2, aim2, ob)
    <3>1. SameBelow(i, seg, st, seg2, st2)
      BY <1>14, <2>1 DEF SameBelow
    <3> QED
      BY <1>3, <1>7, <2>1, <3>1 DEF SameUpTo
  <2>3. SegOrdered(seg, st, aim, ob, i)
    BY <1>1, <1>3, <2>1 DEF Ordered
  <2> QED
    BY <2>1, <2>2, <2>3, OrderedBelow
\* What the last two segments may point to is among the objects of the new one, or it is
\* what that may point to.
<1>16. \A t : Seen(seg2, st2, n, t) <=> Seen(seg, st, n, t)
  <2>1. \A t : Seen(seg2, st2, (n - 1) + 1, t) <=> Seen(seg, st, (n - 1) + 1, t)
    BY <1>3, <1>14, SeenBelow
  <2> QED
    BY <1>3, <2>1
<1>17. ASSUME NEW t, Seen(seg, st, n + 1, t)
       PROVE  In(seg, n, t) \/ (~st2[n] /\ Seen(seg2, st2, n, t))
  <2>1. PICK j \in 1 .. n : Covers(st, j, n + 1) /\ In(seg, j, t)
    BY <1>3, <1>17 DEF Seen
  <2>2. CASE j # n
    <3>1. j \in 1 .. n - 1 /\ n \in j + 1 .. n /\ \A k \in j + 1 .. n - 1 : k \in j + 1 .. n
      BY <1>2, <2>2
    <3>2. ~st[n] /\ Covers(st, j, n)
      BY <1>3, <2>1, <3>1 DEF Covers
    <3> QED
      BY <1>7, <1>16, <2>1, <3>1, <3>2 DEF Seen
  <2> QED
    BY <2>1, <2>2
<1>18. ASSUME NEW k \in DOMAIN seg2[n]
       PROVE  Follows(seg2, st2, n, k, ob[seg2[n][k]].refers)
  <2>1. PICK p, l : Was(n, k, p, l)
    BY <1>3, <1>11, <1>18
  <2>2. PICK r : r = ob[seg[p][l]].refers
    OBVIOUS
  <2>3. ob[seg2[n][k]].refers = r
    BY <2>1, <2>2
  <2>4. CASE p = n + 1
    <3>1. k \in 1 .. Len(a) /\ l = k
      BY <1>3, <2>1, <2>4
    <3>2. Follows(seg, st, n + 1, k, r)
      BY <1>1, <1>3, <2>1, <2>2, <2>4, <3>1 DEF Ordered, SegOrdered
    <3>3. ASSUME NEW m \in DOMAIN a, k < m, a[m] = r
          PROVE  Follows(seg2, st2, n, k, r)
      BY <1>5, <1>7, <3>3 DEF Follows
    <3>4. ASSUME In(seg, n, r)
          PROVE  Follows(seg2, st2, n, k, r)
      <4>1. PICK m \in DOMAIN b : b[m] = r
        BY <3>4 DEF In
      <4>2. k < m + Len(a)
        BY <1>6, <3>1
      <4> QED
        BY <1>5, <1>7, <4>1, <4>2 DEF Follows
    <3>5. ASSUME ~st2[n] /\ Seen(seg2, st2, n, r)
          PROVE  Follows(seg2, st2, n, k, r)
      BY <3>5 DEF Follows
    <3>6. r = Outside => Follows(seg2, st2, n, k, r)
      BY DEF Follows
    <3>7. \/ r = Outside \/ \E m \in DOMAIN a : k < m /\ a[m] = r
          \/ Seen(seg, st, n + 1, r)
      BY <3>2 DEF Follows
    <3> QED
      BY <1>17, <2>3, <3>3, <3>4, <3>5, <3>6, <3>7
  <2>5. CASE p # n + 1
    <3>1. p = n /\ k > Len(a) /\ l = k - Len(a) /\ l \in DOMAIN b
      BY <1>3, <2>1, <2>5
    <3>2. Follows(seg, st, n, l, r)
      BY <1>1, <1>3, <2>1, <2>2, <3>1 DEF Ordered, SegOrdered
    <3>3. ASSUME NEW m \in DOMAIN b, l < m, b[m] = r
          PROVE  Follows(seg2, st2, n, k, r)
      <4>1. k \in Nat
        BY <1>3, <2>1, <3>1
      <4>2. k < m + Len(a)
        BY <1>6, <3>1, <3>3, <4>1
      <4> QED
        BY <1>5, <1>7, <3>3, <4>2 DEF Follows
    <3>4. \/ r = Outside \/ \E m \in DOMAIN b : l < m /\ b[m] = r
          \/ ~st[n] /\ Seen(seg, st, n, r)
      BY <3>2 DEF Follows
    <3>5. r = Outside \/ (~st[n] /\ Seen(seg, st, n, r)) => Follows(seg2, st2, n, k, r)
      BY <1>7, <1>16 DEF Follows
    <3> QED
      BY <2>3, <3>3, <3>4, <3>5
  <2> QED
    BY <2>4, <2>5
<1>19. Points(seg2, st2, n, aim2[n])
  <2>1. PICK t : t = aim[n + 1]
    OBVIOUS
  <2>2. Points(seg, st, n + 1, t)
    BY <1>1, <1>3, <2>1 DEF Ordered, SegOrdered
  <2>3. Points(seg2, st2, n, t)
    BY <1>9, <1>17, <2>2 DEF Points
  <2> QED
    BY <1>7, <2>1, <2>3
<1>20. SegOrdered(seg2, st2, aim2, ob, n)
  BY <1>18, <1>19 DEF SegOrdered
<1>21. Ordered(n - 1, seg2, st2, aim2, ob)
  BY <1>3, <1>13, <1>15, <1>20 DEF Ordered
<1> QED
  BY <1>1, <1>3, <1>8, <1>12, <1>21 DEF Layout

\* The first of the objects that are being dropped is dropped: nothing refers to it.
Dropped(seg, ob, o, seg2, ob2) ==
    /\ seg[0] # <<>> /\ o = Head(seg[0]) /\ seg2 = [seg EXCEPT ![0] = Tail(seg[0])]
    /\ ob2 = [ob EXCEPT ![o].is = "gone"]

LEMMA LayoutDropped ==
    ASSUME NEW n, NEW seg, NEW st, NEW aim, NEW ob, NEW o, NEW seg2, NEW ob2,
           Layout(n, seg, st, aim, ob), Dropped(seg, ob, o, seg2, ob2)
    PROVE  Layout(n, seg2, st, aim, ob2)
<1> USE DEF Dropped
<1>1. /\ n \in Nat /\ seg \in [0 .. n + 1 -> Seq(Object)] /\ st \in [1 .. n + 1 -> BOOLEAN]
      /\ aim \in [1 .. n + 1 -> Object \cup {Outside}] /\ ob \in [Object -> ObjectType]
      /\ Placed(n, seg, ob) /\ Ordered(n, seg, st, aim, ob)
  BY DEF Layout
<1>2. 0 \in 0 .. n + 1 /\ \A i \in 1 .. n + 1 : i \in 0 .. n + 1 /\ i # 0
  BY <1>1
<1>3. seg[0] \in Seq(Object)
  BY <1>1, <1>2
<1>4. /\ 1 \in DOMAIN seg[0] /\ o = seg[0][1] /\ o \in Object /\ Tail(seg[0]) \in Seq(Object)
      /\ \A k \in DOMAIN Tail(seg[0]) :
            k \in Nat \ {0} /\ k + 1 \in DOMAIN seg[0] /\ Tail(seg[0])[k] = seg[0][k + 1]
      /\ \A k \in DOMAIN seg[0] :
            k = 1 \/ (k - 1 \in DOMAIN Tail(seg[0]) /\ Tail(seg[0])[k - 1] = seg[0][k])
      /\ \A k \in DOMAIN seg[0] : k \in Nat \ {0}
  BY <1>3
<1>5. /\ seg2[0] = Tail(seg[0]) /\ \A i \in 0 .. n + 1 : i # 0 => seg2[i] = seg[i]
      /\ seg2 \in [0 .. n + 1 -> Seq(Object)]
  BY <1>1, <1>2, <1>4
<1>6. /\ ob2 \in [Object -> ObjectType] /\ ob2[o].is = "gone"
      /\ \A p \in Object : ob2[p].refers = ob[p].refers /\ (p # o => ob2[p].is = ob[p].is)
  BY <1>1, <1>4 DEF ObjectType
\* The place that an object had.
<1> DEFINE Was(i, k, l) == /\ l \in DOMAIN seg[i] /\ seg2[i][k] = seg[i][l] /\ seg[i][l] \in Object
                           /\ (i # 0 /\ l = k) \/ (i = 0 /\ l = k + 1 /\ k \in Nat \ {0})
<1>7. ASSUME NEW i \in 0 .. n + 1, NEW k \in DOMAIN seg2[i]
      PROVE  \E l : Was(i, k, l)
  <2>1. seg[i] \in Seq(Object)
    BY <1>1
  <2>2. CASE i = 0
    BY <1>4, <1>5, <1>7, <2>1, <2>2
  <2>3. CASE i # 0
    BY <1>5, <1>7, <2>1, <2>3
  <2> QED
    BY <2>2, <2>3
<1>8. Placed(n, seg2, ob2)
  <2>1. ASSUME NEW i \in 0 .. n + 1, NEW k \in DOMAIN seg2[i]
        PROVE  ob2[seg2[i][k]].is = "live"
    <3>1. PICK l : Was(i, k, l)
      BY <1>7, <2>1
    <3>2. ob[seg[i][l]].is = "live"
      BY <1>1, <3>1 DEF Placed
    <3>3. i # 0 \/ l # 1
      BY <3>1
    <3>4. seg[i][l] # o
      BY <1>1, <1>2, <1>4, <3>1, <3>3 DEF Placed
    <3> QED
      BY <1>6, <3>1, <3>2, <3>4
  <2>2. ASSUME NEW i \in 0 .. n + 1, NEW j \in 0 .. n + 1, NEW k \in DOMAIN seg2[i],
               NEW l \in DOMAIN seg2[j], seg2[i][k] = seg2[j][l]
        PROVE  i = j /\ k = l
    <3>1. PICK p : Was(i, k, p)
      BY <1>7, <2>2
    <3>2. PICK q : Was(j, l, q)
      BY <1>7, <2>2
    <3>3. i = j /\ p = q
      BY <1>1, <2>2, <3>1, <3>2 DEF Placed
    <3> QED
      BY <3>1, <3>2, <3>3
  <2>3. ASSUME NEW p \in Object, ob2[p].is = "live"
        PROVE  \E i \in 0 .. n + 1 : In(seg2, i, p)
    <3>1. p # o /\ ob[p].is = "live"
      BY <1>6, <2>3
    <3>2. PICK i \in 0 .. n + 1 : In(seg, i, p)
      BY <1>1, <3>1 DEF Placed
    <3>3. CASE i = 0
      <4>1. PICK k \in DOMAIN seg[0] : seg[0][k] = p
        BY <3>2, <3>3 DEF In
      <4>2. k - 1 \in DOMAIN seg2[0] /\ seg2[0][k - 1] = p
        BY <1>4, <1>5, <3>1, <4>1
      <4> QED
        BY <1>2, <4>2 DEF In
    <3>4. CASE i # 0
      BY <1>5, <3>2, <3>4 DEF In
    <3> QED
      BY <3>3, <3>4
  <2> QED
    BY <2>1, <2>2, <2>3 DEF Placed
<1>9. \A j \in 1 .. n + 1 : \A t : In(seg2, j, t) <=> In(seg, j, t)
  BY <1>2, <1>5 DEF In
<1>10. ASSUME NEW k \in DOMAIN seg2[0]
       PROVE  Outlives(seg2, n, k, ob2[seg2[0][k]].refers)
  <2>1. PICK l : Was(0, k, l)
    BY <1>2, <1>7, <1>10
  <2>2. PICK r : r = ob[seg[0][l]].refers
    OBVIOUS
  <2>3. ob2[seg2[0][k]].refers = r
    BY <1>6, <2>1, <2>2
  <2>4. Outlives(seg, n, l, r)
    BY <1>1, <2>1, <2>2 DEF Ordered
  <2>5. ASSUME NEW m \in DOMAIN seg[0], l < m, seg[0][m] = r
        PROVE  Outlives(seg2, n, k, r)
    <3>1. l = k + 1 /\ k \in Nat \ {0} /\ m \in Nat
      BY <1>4, <2>1
    <3>2. m # 1 /\ k < m - 1
      BY <2>5, <3>1
    <3>3. m - 1 \in DOMAIN seg2[0] /\ seg2[0][m - 1] = r
      BY <1>4, <1>5, <2>5, <3>2
    <3> QED
      BY <3>2, <3>3 DEF Outlives
  <2>6. ASSUME NEW j \in 1 .. n, In(seg, j, r)
        PROVE  Outlives(seg2, n, k, r)
    <3>1. j \in 1 .. n + 1
      BY <1>1
    <3> QED
      BY <1>9, <2>6, <3>1 DEF Outlives
  <2>7. r = Outside => Outlives(seg2, n, k, r)
    BY DEF Outlives
  <2> QED
    BY <2>3, <2>4, <2>5, <2>6, <2>7 DEF Outlives
<1>11. ASSUME NEW i \in 1 .. n + 1
       PROVE  SegOrdered(seg2, st, aim, ob2, i)
  <2>0. n \in Nat
    BY <1>1
  <2>1. i \in Nat \ {0} /\ i \in 0 .. n + 1 /\ \A j \in 1 .. i : j \in 0 .. n + 1 /\ j # 0
    BY <2>0
  <2>2. SameUpTo(i, seg, st, aim, ob, seg2, st, aim, ob2)
    <3>1. SameBelow(i, seg, st, seg2, st)
      BY <1>5, <2>1 DEF SameBelow
    <3>2. seg[i] \in Seq(Object)
      BY <1>1, <2>1
    <3>3. \A k \in DOMAIN seg[i] : seg[i][k] \in Object
      BY <3>2
    <3> QED
      BY <1>6, <3>1, <3>3 DEF SameUpTo
  <2>3. SegOrdered(seg, st, aim, ob, i)
    BY <1>1 DEF Ordered
  <2> QED
    BY <2>1, <2>2, <2>3, OrderedBelow
<1>12. Ordered(n, seg2, st, aim, ob2)
  BY <1>10, <1>11 DEF Ordered
<1> QED
  BY <1>1, <1>5, <1>6, <1>8, <1>12 DEF Layout

-----------------------------------------------------------------------------
(* What the steps do to the layout of a state. *)

LEMMA OwnsType ==
    ASSUME RefsAssumption, NEW t \in StateRef \cup {NoRef}
    PROVE  /\ Owns(t) \in Seq(Object) /\ IsStatic(t) \in BOOLEAN
           /\ AimOf(t) \in Object \cup {Outside}
<1>1. CASE t = NoRef
  BY <1>1 DEF Owns, IsStatic, AimOf
<1>2. CASE t # NoRef
  <2>1. /\ t \in StateRef /\ t.value \in Seq(Object) /\ t.owner \in Seq(Object)
        /\ t.static \in BOOLEAN /\ t.target \in Object \cup {Outside}
    BY <1>2 DEF StateRef
  <2>2. t.value \o t.owner \in Seq(Object)
    BY <2>1, Concatenated
  <2> QED
    BY <1>2, <2>1, <2>2 DEF Owns, Owned, IsStatic, AimOf
<1> QED
  BY <1>1, <1>2

\* The parts of a layout that the running code's StateRef is.
LEMMA TopOf ==
    ASSUME NEW c \in Seq(CallType), NEW d, NEW t
    PROVE  /\ Len(c) \in Nat
           /\ SegsOf(d, c, t)[0] = d /\ SegsOf(d, c, t)[Len(c) + 1] = Owns(t)
           /\ StaticsOf(c, t)[Len(c) + 1] = IsStatic(t)
           /\ AimsOf(c, t)[Len(c) + 1] = AimOf(t)
           /\ \A i \in 1 .. Len(c) : /\ SegsOf(d, c, t)[i] = c[i].handle
                                     /\ StaticsOf(c, t)[i] = c[i].static
                                     /\ AimsOf(c, t)[i] = c[i].target
<1>1. Len(c) \in Nat
  OBVIOUS
<1>2. /\ 0 \in 0 .. Len(c) + 1 /\ Len(c) + 1 \in 0 .. Len(c) + 1 /\ Len(c) + 1 \in 1 .. Len(c) + 1
      /\ Len(c) + 1 # 0
      /\ \A i \in 1 .. Len(c) : /\ i \in 0 .. Len(c) + 1 /\ i \in 1 .. Len(c) + 1
                                /\ i # 0 /\ i # Len(c) + 1
  BY <1>1
<1> QED
  BY <1>1, <1>2 DEF SegsOf, StaticsOf, AimsOf

LEMMA PartsType ==
    ASSUME RefsAssumption, NEW c \in Seq(CallType), NEW d \in Seq(Object),
           NEW t \in StateRef \cup {NoRef}
    PROVE  /\ SegsOf(d, c, t) \in [0 .. Len(c) + 1 -> Seq(Object)]
           /\ StaticsOf(c, t) \in [1 .. Len(c) + 1 -> BOOLEAN]
           /\ AimsOf(c, t) \in [1 .. Len(c) + 1 -> Object \cup {Outside}]
<1>1. Len(c) \in Nat
  OBVIOUS
<1>2. \A i \in 0 .. Len(c) + 1 : i # 0 /\ i # Len(c) + 1 => i \in 1 .. Len(c)
  BY <1>1
<1>3. \A i \in 1 .. Len(c) + 1 : i # Len(c) + 1 => i \in 1 .. Len(c)
  BY <1>1
<1>4. \A i \in 1 .. Len(c) : /\ c[i].handle \in Seq(Object) /\ c[i].static \in BOOLEAN
                             /\ c[i].target \in Object \cup {Outside}
  <2>1. \A i \in 1 .. Len(c) : c[i] \in CallType
    OBVIOUS
  <2> QED
    BY <2>1 DEF CallType
<1>5. SegsOf(d, c, t) \in [0 .. Len(c) + 1 -> Seq(Object)]
  BY <1>2, <1>4, OwnsType DEF SegsOf
<1>6. StaticsOf(c, t) \in [1 .. Len(c) + 1 -> BOOLEAN]
  BY <1>3, <1>4, OwnsType DEF StaticsOf
<1>7. AimsOf(c, t) \in [1 .. Len(c) + 1 -> Object \cup {Outside}]
  BY <1>3, <1>4, OwnsType DEF AimsOf
<1> QED
  BY <1>5, <1>6, <1>7

\* What a new StateRef t owns and points to.
OwnsNew(d, c, ob, t, o, r, ob2) ==
    /\ o \in Object /\ ob[o].is # "live" /\ Owned(t) = <<o>> /\ r \in Object \cup {Outside}
    /\ ob2 = [ob EXCEPT ![o] = [is |-> "live", refers |-> r]]
    /\ \/ r = Outside
       \/ ~t.static /\ Seen(SegsOf(d, c, NoRef), StaticsOf(c, NoRef), Len(c) + 1, r)
    /\ \/ t.target = Outside \/ t.target = o
       \/ ~t.static /\ Seen(SegsOf(d, c, NoRef), StaticsOf(c, NoRef), Len(c) + 1, t.target)

LEMMA LaidMade ==
    ASSUME RefsAssumption, NEW d, NEW c \in Seq(CallType), NEW ob, Laid(d, c, NoRef, ob),
           NEW t \in StateRef, NEW o, NEW r, NEW ob2, OwnsNew(d, c, ob, t, o, r, ob2)
    PROVE  Laid(d, c, t, ob2)
<1> USE DEF OwnsNew
<1> DEFINE n == Len(c)
           seg == SegsOf(d, c, NoRef)
           st == StaticsOf(c, NoRef)
           aim == AimsOf(c, NoRef)
<1>1. t # NoRef /\ n \in Nat /\ t.static \in BOOLEAN /\ t.target \in Object \cup {Outside}
  BY DEF RefsAssumption, StateRef
<1>2. Owns(t) = <<o>> /\ IsStatic(t) = t.static /\ AimOf(t) = t.target
  BY <1>1 DEF Owns, IsStatic, AimOf
<1>3. /\ SegsOf(d, c, t) = [seg EXCEPT ![n + 1] = <<o>>]
      /\ StaticsOf(c, t) = [st EXCEPT ![n + 1] = t.static]
      /\ AimsOf(c, t) = [aim EXCEPT ![n + 1] = t.target]
  <2>1. SegsOf(d, c, t) = [seg EXCEPT ![n + 1] = <<o>>]
    <3>1. PICK s : s = <<o>>
      OBVIOUS
    <3>2. SegsOf(d, c, t) = [i \in 0 .. n + 1 |-> IF i = 0 THEN d ELSE IF i = n + 1 THEN s
                                                 ELSE c[i].handle]
      BY <1>2, <3>1 DEF SegsOf
    <3>3. seg[0] = d /\ \A i \in 1 .. n : seg[i] = c[i].handle
      BY TopOf
    <3>4. seg \in [0 .. n + 1 -> Seq(Object)]
      BY DEF Laid, Layout
    <3>5. /\ n + 1 \in 0 .. n + 1 /\ n + 1 # 0
          /\ \A i \in 0 .. n + 1 : i = 0 \/ i = n + 1 \/ (i \in 1 .. n /\ i # n + 1 /\ i # 0)
      BY <1>1
    <3> HIDE DEF seg, n
    <3>6. SegsOf(d, c, t) = [seg EXCEPT ![n + 1] = s]
      BY <3>2, <3>3, <3>4, <3>5
    <3> QED
      BY <3>1, <3>6
  <2>2. StaticsOf(c, t) = [st EXCEPT ![n + 1] = t.static]
    BY <1>1, <1>2 DEF StaticsOf
  <2>3. AimsOf(c, t) = [aim EXCEPT ![n + 1] = t.target]
    BY <1>1, <1>2 DEF AimsOf
  <2> QED
    BY <2>1, <2>2, <2>3
<1>4. seg[n + 1] = <<>>
  BY TopOf DEF Owns
<1>5. Layout(n, seg, st, aim, ob)
  BY DEF Laid
<1> HIDE DEF n, seg, st, aim
<1>7. Made(n, seg, st, aim, ob, o, r, t.static, t.target,
           SegsOf(d, c, t), StaticsOf(c, t), AimsOf(c, t), ob2)
  BY <1>1, <1>3, <1>4 DEF Made, n, seg, st
<1>8. Layout(n, SegsOf(d, c, t), StaticsOf(c, t), AimsOf(c, t), ob2)
  BY <1>5, <1>7, LayoutMade
<1> QED
  BY <1>8 DEF Laid, n

LEMMA LaidAimed ==
    ASSUME RefsAssumption, NEW d, NEW c \in Seq(CallType), NEW t0 \in StateRef \cup {NoRef},
           NEW ob, Laid(d, c, t0, ob), NEW t \in StateRef, Owned(t) = Owns(t0),
           t.static = IsStatic(t0) \/ (t.static = FALSE /\ t0 = NoRef),
           Points(SegsOf(d, c, t0), StaticsOf(c, t), Len(c) + 1, t.target)
    PROVE  Laid(d, c, t, ob)
<1> DEFINE n == Len(c)
           seg == SegsOf(d, c, t0)
           st == StaticsOf(c, t0)
           aim == AimsOf(c, t0)
<1>1. t # NoRef /\ n \in Nat /\ t.static \in BOOLEAN /\ t.target \in Object \cup {Outside}
  BY DEF RefsAssumption, StateRef
<1>2. Owns(t) = Owns(t0) /\ IsStatic(t) = t.static /\ AimOf(t) = t.target
  BY <1>1 DEF Owns, IsStatic, AimOf
<1>3. /\ SegsOf(d, c, t) = seg /\ StaticsOf(c, t) = [st EXCEPT ![n + 1] = t.static]
      /\ AimsOf(c, t) = [aim EXCEPT ![n + 1] = t.target]
  BY <1>1, <1>2 DEF SegsOf, StaticsOf, AimsOf
<1>4. t.static = st[n + 1] \/ seg[n + 1] = <<>>
  BY TopOf DEF Owns
<1>5. Layout(n, seg, st, aim, ob) /\ Points(seg, StaticsOf(c, t), n + 1, t.target)
  BY DEF Laid
<1> HIDE DEF n, seg, st, aim
<1>6. Aimed(n, seg, st, aim, t.static, t.target, StaticsOf(c, t), AimsOf(c, t))
  BY <1>1, <1>3, <1>4, <1>5 DEF Aimed
<1>7. Layout(n, seg, StaticsOf(c, t), AimsOf(c, t), ob)
  BY <1>5, <1>6, LayoutAimed
<1> QED
  BY <1>3, <1>7 DEF Laid, n

LEMMA LaidCalled ==
    ASSUME RefsAssumption, NEW d, NEW c \in Seq(CallType), NEW t \in StateRef, NEW ob,
           Laid(d, c, t, ob), NEW p \in CallType, p.handle = Owned(t), p.static = t.static,
           p.target = t.target
    PROVE  Laid(d, Append(c, p), NoRef, ob)
<1> DEFINE n == Len(c)
           seg == SegsOf(d, c, t)
           st == StaticsOf(c, t)
           aim == AimsOf(c, t)
           c2 == Append(c, p)
<1>1. t # NoRef /\ n \in Nat
  BY DEF RefsAssumption
<1>2. Owns(t) = p.handle /\ IsStatic(t) = p.static /\ AimOf(t) = p.target
  BY <1>1 DEF Owns, IsStatic, AimOf
<1>3. Owns(NoRef) = <<>> /\ IsStatic(NoRef) = FALSE /\ AimOf(NoRef) = Outside
  BY DEF Owns, IsStatic, AimOf
<1>4. /\ Len(c2) = n + 1 /\ c2[n + 1] = p /\ \A i \in 1 .. n : c2[i] = c[i]
      /\ c2 \in Seq(CallType)
  OBVIOUS
<1>5. /\ n + 1 \in Nat /\ (n + 1) + 1 = n + 2 /\ n + 1 # n + 2 /\ n + 1 # 0 /\ n + 2 # 0
      /\ \A i \in 1 .. n + 2 : i \in 1 .. n \/ i = n + 1 \/ i = n + 2
      /\ \A i \in 0 .. n + 2 : i = 0 \/ i \in 1 .. n \/ i = n + 1 \/ i = n + 2
      /\ \A i \in 1 .. n : i # n + 1 /\ i # n + 2 /\ i # 0 /\ i \in 1 .. n + 1 /\ i \in 0 .. n + 1
  BY <1>1
<1> HIDE DEF c2
<1>6. /\ \A i \in 1 .. n : seg[i] = c[i].handle /\ st[i] = c[i].static /\ aim[i] = c[i].target
      /\ seg[0] = d /\ seg[n + 1] = p.handle /\ st[n + 1] = p.static /\ aim[n + 1] = p.target
  BY <1>2, TopOf
<1>7. SegsOf(d, c2, NoRef) = [i \in 0 .. n + 2 |-> IF i = n + 2 THEN <<>> ELSE seg[i]]
  BY <1>3, <1>4, <1>5, <1>6 DEF SegsOf
<1>8. StaticsOf(c2, NoRef) = [i \in 1 .. n + 2 |-> IF i = n + 2 THEN FALSE ELSE st[i]]
  <2> DEFINE f == [i \in 1 .. n + 2 |-> IF i = n + 2 THEN FALSE ELSE st[i]]
  <2>1. StaticsOf(c2, NoRef) = [i \in 1 .. n + 2 |-> IF i = n + 2 THEN FALSE ELSE c2[i].static]
    BY <1>3, <1>4, <1>5 DEF StaticsOf
  <2>2. \A i \in 1 .. n + 2 : i # n + 2 => c2[i].static = st[i]
    BY <1>4, <1>5, <1>6
  <2> QED
    BY <2>1, <2>2
<1>9. AimsOf(c2, NoRef) = [i \in 1 .. n + 2 |-> IF i = n + 2 THEN Outside ELSE aim[i]]
  BY <1>3, <1>4, <1>5, <1>6 DEF AimsOf
<1>10. Layout(n, seg, st, aim, ob)
  BY DEF Laid
<1> HIDE DEF n, seg, st, aim
<1>11. Called(n, seg, st, aim, SegsOf(d, c2, NoRef), StaticsOf(c2, NoRef), AimsOf(c2, NoRef))
  BY <1>7, <1>8, <1>9 DEF Called
<1>12. Layout(n + 1, SegsOf(d, c2, NoRef), StaticsOf(c2, NoRef), AimsOf(c2, NoRef), ob)
  BY <1>10, <1>11, LayoutCalled
<1> QED
  BY <1>4, <1>12 DEF Laid, c2

\* The calls that are left when the last one returns or is unwound.
LEMMA FrontOf ==
    ASSUME NEW c \in Seq(CallType), c # <<>>
    PROVE  /\ Len(c) \in Nat \ {0} /\ Front(c) \in Seq(CallType) /\ Len(Front(c)) = Len(c) - 1
           /\ \A i \in 1 .. Len(c) - 1 : Front(c)[i] = c[i]
           /\ Last(c) = c[Len(c)] /\ Last(c) \in CallType
<1>1. PICK n, f : n = Len(c) /\ f = Front(c)
  OBVIOUS
<1>2. n \in Nat \ {0} /\ c[n] \in CallType
  BY <1>1
<1>3. f = SubSeq(c, 1, n - 1) /\ Last(c) = c[n]
  BY <1>1 DEF Front, Last
<1>4. f \in Seq(CallType) /\ Len(f) = n - 1 /\ \A i \in 1 .. n - 1 : f[i] = c[i]
  BY <1>1, <1>2, <1>3
<1> QED
  BY <1>1, <1>2, <1>3, <1>4

\* The closure of the last map_ref returns, and what that has pinned is owned by its StateRef.
LEMMA LaidJoined ==
    ASSUME RefsAssumption, NEW d, NEW c \in Seq(CallType), c # <<>>,
           NEW t \in StateRef \cup {NoRef}, NEW t2 \in StateRef \cup {NoRef}, NEW ob,
           Laid(d, c, t, ob), d = <<>>, Owns(t2) = Owns(t) \o Last(c).handle,
           IsStatic(t2) = Last(c).static, AimOf(t2) = AimOf(t)
    PROVE  Laid(d, Front(c), t2, ob)
<1> DEFINE n == Len(c)
           seg == SegsOf(d, c, t)
           st == StaticsOf(c, t)
           aim == AimsOf(c, t)
           c2 == Front(c)
<1>1. /\ n \in Nat \ {0} /\ c2 \in Seq(CallType) /\ Len(c2) = n - 1 /\ (n - 1) + 1 = n
      /\ \A i \in 1 .. n - 1 : c2[i] = c[i]
      /\ Last(c) = c[n]
  BY FrontOf
<1>2. /\ \A i \in 1 .. n : seg[i] = c[i].handle /\ st[i] = c[i].static /\ aim[i] = c[i].target
      /\ seg[0] = d /\ seg[n + 1] = Owns(t) /\ aim[n + 1] = AimOf(t)
  BY TopOf
<1>3. /\ n # 0 /\ n \in 1 .. n
      /\ \A i \in 0 .. n : i = 0 \/ i = n \/ (i \in 1 .. n - 1 /\ i \in 1 .. n /\ i # 0 /\ i # n)
      /\ \A i \in 1 .. n : i = n \/ (i \in 1 .. n - 1 /\ i # n)
  BY <1>1
<1>4. PICK s : s = seg[n + 1] \o seg[n]
  OBVIOUS
<1>5. Owns(t2) = s /\ IsStatic(t2) = st[n] /\ AimOf(t2) = aim[n + 1]
  BY <1>1, <1>2, <1>3, <1>4
<1> HIDE DEF c2
<1>6. SegsOf(d, c2, t2) = [i \in 0 .. n |-> IF i = n THEN s ELSE seg[i]]
  <2>1. SegsOf(d, c2, t2) = [i \in 0 .. n |-> IF i = 0 THEN d ELSE IF i = n THEN s ELSE c2[i].handle]
    BY <1>1, <1>5 DEF SegsOf
  <2>2. \A i \in 0 .. n : i # 0 /\ i # n => c2[i].handle = seg[i]
    BY <1>1, <1>2, <1>3
  <2> HIDE DEF seg
  <2> QED
    BY <1>2, <1>3, <2>1, <2>2
<1>7. StaticsOf(c2, t2) = [i \in 1 .. n |-> st[i]]
  <2>1. StaticsOf(c2, t2) = [i \in 1 .. n |-> IF i = n THEN IsStatic(t2) ELSE c2[i].static]
    BY <1>1 DEF StaticsOf
  <2>2. \A i \in 1 .. n : i # n => c2[i].static = st[i]
    BY <1>1, <1>2, <1>3
  <2> HIDE DEF st
  <2> QED
    BY <1>5, <2>1, <2>2
<1>8. AimsOf(c2, t2) = [i \in 1 .. n |-> IF i = n THEN aim[n + 1] ELSE aim[i]]
  <2>1. AimsOf(c2, t2) = [i \in 1 .. n |-> IF i = n THEN AimOf(t2) ELSE c2[i].target]
    BY <1>1 DEF AimsOf
  <2>2. \A i \in 1 .. n : i # n => c2[i].target = aim[i]
    BY <1>1, <1>2, <1>3
  <2> HIDE DEF aim
  <2> QED
    BY <1>5, <2>1, <2>2
<1>9. Layout(n, seg, st, aim, ob)
  BY DEF Laid
<1> HIDE DEF n, seg, st, aim
<1>10. Joined(n, seg, st, aim, SegsOf(d, c2, t2), StaticsOf(c2, t2), AimsOf(c2, t2))
  BY <1>2, <1>3, <1>4, <1>6, <1>7, <1>8 DEF Joined
<1>11. Layout(n - 1, SegsOf(d, c2, t2), StaticsOf(c2, t2), AimsOf(c2, t2), ob)
  BY <1>9, <1>10, LayoutJoined
<1> QED
  BY <1>1, <1>11 DEF Laid, c2

\* A static StateRef is returned without what the map_ref has pinned, which is dropped.
LEMMA LaidReturned ==
    ASSUME RefsAssumption, NEW c \in Seq(CallType), c # <<>>, NEW t \in StateRef, t.static,
           NEW ob, Laid(<<>>, c, t, ob)
    PROVE  Laid(Last(c).handle, Front(c), t, ob)
<1> DEFINE n == Len(c)
           seg == SegsOf(<<>>, c, t)
           st == StaticsOf(c, t)
           aim == AimsOf(c, t)
           h == Last(c).handle
           c2 == Front(c)
<1>1. /\ n \in Nat \ {0} /\ c2 \in Seq(CallType) /\ Len(c2) = n - 1 /\ (n - 1) + 1 = n
      /\ \A i \in 1 .. n - 1 : c2[i] = c[i]
      /\ Last(c) = c[n]
  BY FrontOf
<1>2. /\ \A i \in 1 .. n : seg[i] = c[i].handle /\ st[i] = c[i].static /\ aim[i] = c[i].target
      /\ seg[0] = <<>> /\ seg[n + 1] = Owns(t) /\ st[n + 1] = IsStatic(t)
      /\ aim[n + 1] = AimOf(t)
  BY TopOf
<1>3. /\ n # 0 /\ n \in 1 .. n /\ 0 \in 0 .. n /\ 0 \in 0 .. n + 1 /\ n \in 0 .. n + 1
      /\ n + 1 \in 0 .. n + 1 /\ n + 1 # n /\ n + 1 # 0 /\ n \in 1 .. n + 1 /\ n + 1 \in 1 .. n + 1
      /\ \A i \in 0 .. n : i = 0 \/ i = n \/ (i \in 1 .. n - 1 /\ i \in 1 .. n /\ i # 0 /\ i # n)
      /\ \A i \in 1 .. n : i = n \/ (i \in 1 .. n - 1 /\ i # n)
      /\ \A i \in 1 .. n : i \in 1 .. n + 1 /\ i \in 0 .. n + 1
      /\ \A i \in 0 .. n : i \in 0 .. n + 1
  BY <1>1
<1>4. t # NoRef /\ IsStatic(t) = TRUE /\ Owns(t) \in Seq(Object)
  <2>1. t.static \in BOOLEAN
    BY DEF StateRef
  <2>2. t # NoRef
    BY DEF RefsAssumption
  <2> QED
    BY <2>1, <2>2, OwnsType DEF IsStatic
<1>5. Layout(n, seg, st, aim, ob)
  BY DEF Laid
<1> HIDE DEF n, seg, st, aim, c2
<1>6. PICK seg2, st2, aim2 : /\ seg2 = [seg EXCEPT ![0] = seg[n], ![n] = <<>>]
                             /\ st2 = [st EXCEPT ![n] = TRUE]
                             /\ aim2 = [aim EXCEPT ![n] = Outside]
  OBVIOUS
<1>7. Cut(n, seg, st, aim, n, TRUE, seg2, st2, aim2)
  BY <1>2, <1>3, <1>4, <1>6 DEF Cut
<1>8. Layout(n, seg2, st2, aim2, ob)
  BY <1>5, <1>7, LayoutCut
<1>9. /\ seg \in [0 .. n + 1 -> Seq(Object)] /\ st \in [1 .. n + 1 -> BOOLEAN]
      /\ aim \in [1 .. n + 1 -> Object \cup {Outside}]
  BY <1>5 DEF Layout
<1>10. /\ seg2[0] = h /\ seg2[n] = <<>> /\ seg2[n + 1] = Owns(t)
       /\ \A i \in 0 .. n : i # 0 /\ i # n => seg2[i] = seg[i]
  BY <1>1, <1>2, <1>3, <1>6, <1>9
<1>11. st2[n] = IsStatic(t) /\ \A i \in 1 .. n : i # n => st2[i] = st[i]
  BY <1>3, <1>4, <1>6, <1>9
<1>12. aim2[n + 1] = AimOf(t) /\ \A i \in 1 .. n : i # n => aim2[i] = aim[i]
  BY <1>2, <1>3, <1>6, <1>9
<1>13. seg2[n + 1] \o seg2[n] = Owns(t)
  BY <1>4, <1>10
<1>14. SegsOf(h, c2, t) = [i \in 0 .. n |-> IF i = n THEN seg2[n + 1] \o seg2[n] ELSE seg2[i]]
  <2>1. SegsOf(h, c2, t) = [i \in 0 .. n |-> IF i = 0 THEN h ELSE IF i = n THEN Owns(t)
                                             ELSE c2[i].handle]
    BY <1>1 DEF SegsOf
  <2>2. \A i \in 0 .. n : i # 0 /\ i # n => c2[i].handle = seg2[i]
    BY <1>1, <1>2, <1>3, <1>10
  <2>3. SegsOf(h, c2, t) = [i \in 0 .. n |-> IF i = n THEN Owns(t) ELSE seg2[i]]
    BY <1>3, <1>10, <2>1, <2>2
  <2> QED
    BY <1>13, <2>3
<1>15. StaticsOf(c2, t) = [i \in 1 .. n |-> st2[i]]
  <2>1. StaticsOf(c2, t) = [i \in 1 .. n |-> IF i = n THEN IsStatic(t) ELSE c2[i].static]
    BY <1>1 DEF StaticsOf
  <2>2. \A i \in 1 .. n : i # n => c2[i].static = st2[i]
    BY <1>1, <1>2, <1>3, <1>11
  <2> QED
    BY <1>11, <2>1, <2>2
<1>16. AimsOf(c2, t) = [i \in 1 .. n |-> IF i = n THEN aim2[n + 1] ELSE aim2[i]]
  <2>1. AimsOf(c2, t) = [i \in 1 .. n |-> IF i = n THEN AimOf(t) ELSE c2[i].target]
    BY <1>1 DEF AimsOf
  <2>2. \A i \in 1 .. n : i # n => c2[i].target = aim2[i]
    BY <1>1, <1>2, <1>3, <1>12
  <2> QED
    BY <1>12, <2>1, <2>2
<1>17. Joined(n, seg2, st2, aim2, SegsOf(h, c2, t), StaticsOf(c2, t), AimsOf(c2, t))
  BY <1>3, <1>10, <1>14, <1>15, <1>16 DEF Joined
<1>18. Layout(n - 1, SegsOf(h, c2, t), StaticsOf(c2, t), AimsOf(c2, t), ob)
  BY <1>8, <1>17, LayoutJoined
<1> QED
  BY <1>1, <1>18 DEF Laid, c2

\* What the running code's StateRef owns is about to be dropped.
LEMMA LaidCut ==
    ASSUME RefsAssumption, NEW c \in Seq(CallType), NEW t \in StateRef \cup {NoRef}, NEW ob,
           Laid(<<>>, c, t, ob)
    PROVE  Laid(Owns(t), c, NoRef, ob)
<1> DEFINE n == Len(c)
           seg == SegsOf(<<>>, c, t)
           st == StaticsOf(c, t)
           aim == AimsOf(c, t)
<1>1. /\ n \in Nat /\ seg[0] = <<>> /\ seg[n + 1] = Owns(t)
      /\ \A i \in 1 .. n : seg[i] = c[i].handle /\ st[i] = c[i].static /\ aim[i] = c[i].target
  BY TopOf
<1>2. /\ n + 1 \in 1 .. n + 1 /\ n + 1 # 0 /\ 0 \in 0 .. n + 1 /\ n + 1 \in 0 .. n + 1
      /\ \A i \in 0 .. n + 1 : i = 0 \/ i = n + 1 \/ i \in 1 .. n
      /\ \A i \in 1 .. n + 1 : i = n + 1 \/ i \in 1 .. n
      /\ \A i \in 1 .. n : i # 0 /\ i # n + 1
  BY <1>1
<1>3. Owns(NoRef) = <<>> /\ IsStatic(NoRef) = FALSE /\ AimOf(NoRef) = Outside
  BY DEF Owns, IsStatic, AimOf
<1>4. Layout(n, seg, st, aim, ob)
  BY DEF Laid
<1> HIDE DEF n, seg, st, aim
<1>5. /\ seg \in [0 .. n + 1 -> Seq(Object)] /\ st \in [1 .. n + 1 -> BOOLEAN]
      /\ aim \in [1 .. n + 1 -> Object \cup {Outside}]
  BY <1>4 DEF Layout
<1>6. SegsOf(Owns(t), c, NoRef) = [seg EXCEPT ![0] = seg[n + 1], ![n + 1] = <<>>]
  <2>1. SegsOf(Owns(t), c, NoRef) = [i \in 0 .. n + 1 |-> IF i = 0 THEN seg[n + 1]
                                        ELSE IF i = n + 1 THEN <<>> ELSE c[i].handle]
    BY <1>1, <1>3 DEF SegsOf, n
  <2> QED
    BY <1>1, <1>2, <1>5, <2>1
<1>7. StaticsOf(c, NoRef) = [st EXCEPT ![n + 1] = FALSE]
  <2>1. StaticsOf(c, NoRef) = [i \in 1 .. n + 1 |-> IF i = n + 1 THEN FALSE ELSE c[i].static]
    BY <1>3 DEF StaticsOf, n
  <2> QED
    BY <1>1, <1>2, <1>5, <2>1
<1>8. AimsOf(c, NoRef) = [aim EXCEPT ![n + 1] = Outside]
  <2>1. AimsOf(c, NoRef) = [i \in 1 .. n + 1 |-> IF i = n + 1 THEN Outside ELSE c[i].target]
    BY <1>3 DEF AimsOf, n
  <2> QED
    BY <1>1, <1>2, <1>5, <2>1
<1>9. Cut(n, seg, st, aim, n + 1, FALSE, SegsOf(Owns(t), c, NoRef), StaticsOf(c, NoRef),
          AimsOf(c, NoRef))
  BY <1>1, <1>2, <1>6, <1>7, <1>8 DEF Cut
<1>10. Layout(n, SegsOf(Owns(t), c, NoRef), StaticsOf(c, NoRef), AimsOf(c, NoRef), ob)
  BY <1>4, <1>9, LayoutCut
<1> QED
  BY <1>10 DEF Laid, n

\* The first of what is being dropped is dropped.
LEMMA LaidDropped ==
    ASSUME NEW d, d # <<>>, NEW c \in Seq(CallType), NEW t, NEW ob, Laid(d, c, t, ob)
    PROVE  Laid(Tail(d), c, t, [ob EXCEPT ![Head(d)].is = "gone"])
<1> DEFINE n == Len(c)
           seg == SegsOf(d, c, t)
           seg2 == SegsOf(Tail(d), c, t)
<1>1. n \in Nat /\ seg[0] = d
  BY TopOf
<1>2. seg2 = [seg EXCEPT ![0] = Tail(seg[0])]
  BY <1>1 DEF SegsOf
<1>3. PICK ob2 : ob2 = [ob EXCEPT ![Head(d)].is = "gone"]
  OBVIOUS
<1> HIDE DEF seg, seg2
<1>4. Dropped(seg, ob, Head(d), seg2, ob2)
  BY <1>1, <1>2, <1>3 DEF Dropped
<1>5. Layout(n, seg, StaticsOf(c, t), AimsOf(c, t), ob)
  BY DEF Laid, seg
<1>6. Layout(n, seg2, StaticsOf(c, t), AimsOf(c, t), ob2)
  BY <1>4, <1>5, LayoutDropped
<1> QED
  BY <1>3, <1>6 DEF Laid, seg2

-----------------------------------------------------------------------------
(* The invariant. *)

\* What the running code can point to and has no StateRef of its own is seen by its segment.
LEMMA LentIsSeen ==
    ASSUME RefsAssumption, RefsInv, NEW r \in Lent
    PROVE  /\ r \in Object \cup {Outside}
           /\ r = Outside \/ Seen(Segs, Statics, Len(calls) + 1, r)
<1> DEFINE n == Len(calls)
<1>1. /\ n \in Nat /\ n + 1 \in 1 .. n + 1 /\ Layout(n, Segs, Statics, Aims, obj)
      /\ calls \in Seq(CallType)
  BY DEF RefsInv, TypeInv, Laid, Segs, Statics, Aims
<1>2. \A i \in 1 .. n : /\ Segs[i] = calls[i].handle /\ Statics[i] = calls[i].static
                         /\ Aims[i] = calls[i].target
  BY <1>1, TopOf DEF Segs, Statics, Aims
<1>3. ASSUME NEW i \in 1 .. n, \A k \in i + 1 .. n : ~calls[k].static,
             r \in Reach(calls[i].target)
      PROVE  /\ r \in Object \cup {Outside}
             /\ r = Outside \/ Seen(Segs, Statics, n + 1, r)
  <2>1. (n + 1) - 1 = n /\ i \in 1 .. n + 1 /\ \A k \in i + 1 .. n : k \in 1 .. n
    BY <1>1
  <2>2. Covers(Statics, i, n + 1)
    BY <1>2, <1>3, <2>1 DEF Covers
  <2>3. PICK t : t = calls[i].target
    OBVIOUS
  <2>4. Points(Segs, Statics, i, t)
    BY <1>1, <1>2, <2>1, <2>3 DEF Layout, Ordered, SegOrdered
  <2>5. t \in Object \cup {Outside}
    BY <1>1, <1>2, <2>1, <2>3 DEF Layout
  <2>6. CASE r = t \/ r = Outside
    BY <1>1, <2>2, <2>4, <2>5, <2>6, SeenThrough
  <2>7. CASE t # Outside /\ r = obj[t].refers
    <3>1. PICK u : u = obj[t].refers
      OBVIOUS
    <3>2. t \in Object /\ Points(Segs, Statics, i, u)
      BY <1>1, <2>1, <2>4, <2>7, <3>1, ReachPoints
    <3>3. r = Outside \/ Seen(Segs, Statics, n + 1, r)
      BY <1>1, <2>2, <2>7, <3>1, <3>2, SeenThrough
    <3>4. r \in Object \cup {Outside}
      BY <1>1, <2>7, <3>2 DEF Layout, ObjectType
    <3> QED
      BY <3>3, <3>4
  <2> QED
    BY <1>3, <2>3, <2>6, <2>7 DEF Reach
<1>4. CASE r = Outside
  BY <1>4
<1>5. CASE r # Outside /\ r \in Captured
  <2>1. PICK i \in 1 .. n - 1 : /\ \A k \in i + 1 .. n : ~calls[k].static
                                /\ r \in Reach(calls[i].target)
    BY <1>5 DEF Captured
  <2>2. i \in 1 .. n
    BY <1>1
  <2> QED
    BY <1>3, <2>1, <2>2
<1>6. CASE calls # <<>> /\ r \in Reach(Last(calls).target)
  <2>1. n \in 1 .. n /\ Last(calls) = calls[n] /\ \A k \in n + 1 .. n : ~calls[k].static
    BY <1>1, <1>6, FrontOf
  <2> QED
    BY <1>3, <1>6, <2>1
<1> QED
  BY <1>4, <1>5, <1>6 DEF Lent, Given

LEMMA CapturedIsLent == Captured \subseteq Lent
  BY DEF Lent

\* What can be reached through the StateRef that the running code has.
LEMMA ReachIsPointed ==
    ASSUME RefsAssumption, RefsInv, top # NoRef, NEW r \in Reach(top.target)
    PROVE  r \in Object \cup {Outside} /\ Points(Segs, Statics, Len(calls) + 1, r)
<1> DEFINE n == Len(calls)
<1>1. /\ n \in Nat /\ n + 1 \in 1 .. n + 1 /\ Layout(n, Segs, Statics, Aims, obj)
      /\ calls \in Seq(CallType) /\ top \in StateRef
  BY DEF RefsInv, TypeInv, Laid, Segs, Statics, Aims
<1>2. PICK t : t = top.target
  OBVIOUS
<1>3. t \in Object \cup {Outside}
  BY <1>1, <1>2 DEF StateRef
<1>4. Aims[n + 1] = t
  BY <1>1, <1>2, TopOf DEF Aims, AimOf
<1>5. Points(Segs, Statics, n + 1, t)
  BY <1>1, <1>4 DEF Layout, Ordered, SegOrdered
<1>6. CASE r = t \/ r = Outside
  BY <1>3, <1>5, <1>6 DEF Points
<1>7. CASE t # Outside /\ r = obj[t].refers
  <2>1. t \in Object /\ Points(Segs, Statics, n + 1, r)
    BY <1>1, <1>5, <1>7, ReachPoints
  <2>2. r \in Object \cup {Outside}
    BY <1>1, <1>7, <2>1 DEF Layout, ObjectType
  <2> QED
    BY <2>1, <2>2
<1> QED
  BY <1>2, <1>6, <1>7 DEF Reach

LEMMA InitRefsInv ==
    ASSUME RefsAssumption, Init
    PROVE  RefsInv
<1>1. /\ calls = <<>> /\ top = NoRef /\ dropping = <<>> /\ unwinding = FALSE
      /\ \A o \in Object : obj[o] = [is |-> "free", refers |-> Outside]
      /\ DOMAIN obj = Object /\ obj = [o \in DOMAIN obj |-> obj[o]]
  BY DEF Init
<1>2. [is |-> "free", refers |-> Outside] \in ObjectType
  BY DEF ObjectType
<1>3. /\ obj \in [Object -> ObjectType] /\ calls \in Seq(CallType) /\ dropping \in Seq(Object)
      /\ Len(calls) = 0 /\ 0 + 1 = 1
  BY <1>1, <1>2
<1>4. TypeInv /\ TopInv /\ DropInv
  BY <1>1, <1>3 DEF TypeInv, TopInv, DropInv
<1>5. /\ Segs \in [0 .. 1 -> Seq(Object)] /\ Statics \in [1 .. 1 -> BOOLEAN]
      /\ Aims \in [1 .. 1 -> Object \cup {Outside}]
  BY <1>1, <1>3, PartsType DEF Segs, Statics, Aims
<1>6. Segs[0] = <<>> /\ Segs[1] = <<>> /\ Statics[1] = FALSE /\ Aims[1] = Outside
  <2>1. Owns(NoRef) = <<>> /\ IsStatic(NoRef) = FALSE /\ AimOf(NoRef) = Outside
    BY DEF Owns, IsStatic, AimOf
  <2>2. /\ Segs[0] = dropping /\ Segs[Len(calls) + 1] = Owns(top)
        /\ Statics[Len(calls) + 1] = IsStatic(top) /\ Aims[Len(calls) + 1] = AimOf(top)
    <3>1. calls \in Seq(CallType)
      BY <1>3
    <3> QED
      BY <3>1, TopOf DEF Segs, Statics, Aims
  <2> QED
    BY <1>1, <1>3, <2>1, <2>2
<1>7. \A i \in 0 .. 0 + 1 : Segs[i] = <<>>
  <2>1. \A i \in 0 .. 0 + 1 : i = 0 \/ i = 1
    OBVIOUS
  <2> QED
    BY <1>6, <2>1
<1>8. Placed(0, Segs, obj)
  BY <1>1, <1>7 DEF Placed
<1>9. Ordered(0, Segs, Statics, Aims, obj)
  <2>1. \A i \in 1 .. 0 + 1 : i = 1
    OBVIOUS
  <2>2. SegOrdered(Segs, Statics, Aims, obj, 1)
    BY <1>6 DEF SegOrdered, Points
  <2> QED
    BY <1>6, <2>1, <2>2 DEF Ordered
<1> QED
  BY <1>3, <1>4, <1>5, <1>8, <1>9 DEF RefsInv, Laid, Layout, Segs, Statics, Aims

\* A new StateRef owns the object that was made with it.
LEMMA MadePreservesInv ==
    ASSUME RefsAssumption, RefsInv, Idle, NEW o \in Fresh, NEW r \in Lent, NEW t \in StateRef,
           obj' = Created(o, r), top' = t, UNCHANGED <<calls, dropping, unwinding>>,
           Owned(t) = <<o>>, t.kind = "ref" => t.value = <<>>,
           t.kind = "guard" => Len(t.value) = 1,
           t.kind \in {"embedded", "static"} => t.value = <<t.target>>,
           t.kind = "static" => t.static /\ t.owner = <<>>,
           t.static => r = Outside,
           t.target = o \/ (~t.static /\ t.target = r)
    PROVE  RefsInv'
<1>1. /\ top = NoRef /\ ~unwinding /\ o \in Object /\ obj[o].is = "free"
      /\ obj \in [Object -> ObjectType] /\ calls \in Seq(CallType) /\ dropping \in Seq(Object)
      /\ unwinding \in BOOLEAN
  BY DEF Idle, Running, Fresh, RefsInv, TypeInv
<1>2. /\ r \in Object \cup {Outside}
      /\ r = Outside \/ Seen(Segs, Statics, Len(calls) + 1, r)
  BY LentIsSeen
<1>3. PICK e : e = [is |-> "live", refers |-> r]
  OBVIOUS
<1>4. obj' = [obj EXCEPT ![o] = e] /\ e \in ObjectType
  BY <1>2, <1>3 DEF Created, ObjectType
<1>5. TypeInv'
  BY <1>1, <1>4 DEF TypeInv
<1>6. TopInv'
  BY DEF TopInv
<1>7. DropInv'
  BY <1>1 DEF DropInv
<1>8. t.static \in BOOLEAN
  BY DEF StateRef
<1>9. Laid(dropping, calls, NoRef, obj)
  BY <1>1 DEF RefsInv
<1>10. Laid(dropping, calls, t, obj')
  <2>1. r = Outside \/ (~t.static /\ Seen(SegsOf(dropping, calls, NoRef),
                                          StaticsOf(calls, NoRef), Len(calls) + 1, r))
    BY <1>1, <1>2, <1>8 DEF Segs, Statics
  <2>2. \/ t.target \in {Outside, o}
        \/ ~t.static /\ Seen(SegsOf(dropping, calls, NoRef), StaticsOf(calls, NoRef),
                             Len(calls) + 1, t.target)
    BY <2>1
  <2>3. OwnsNew(dropping, calls, obj, t, o, r, obj')
    BY <1>1, <1>2, <1>3, <1>4, <2>1, <2>2 DEF OwnsNew
  <2> QED
    BY <1>1, <1>9, <2>3, LaidMade
<1> QED
  BY <1>5, <1>6, <1>7, <1>10 DEF RefsInv

LEMMA FromValuePreservesInv ==
    ASSUME RefsAssumption, RefsInv, NEW o \in Fresh, NEW small \in BOOLEAN, FromValue(o, small)
    PROVE  RefsInv'
<1>1. o \in Object /\ Outside \in Lent
  BY CapturedIsLent DEF Fresh, Captured
<1>2. PICK t : t = IF small THEN [kind |-> "static", static |-> TRUE, value |-> <<o>>,
                                  target |-> o, owner |-> <<>>]
                   ELSE Boxed(o, TRUE)
  OBVIOUS
<1>3. <<o>> \in Seq(Object) /\ <<>> \in Seq(Object) /\ <<o>> \o <<>> = <<o>> /\ <<>> \o <<o>> = <<o>>
  BY <1>1
<1>4. /\ t \in StateRef /\ Owned(t) = <<o>> /\ t.target = o /\ t.static = TRUE
      /\ t.kind \in {"static", "ref"} /\ (t.kind = "ref" => t.value = <<>>)
      /\ t.kind = "static" => t.value = <<o>> /\ t.owner = <<>>
  BY <1>1, <1>2, <1>3 DEF StateRef, Owned, Boxed
<1>5. /\ Idle /\ obj' = Created(o, Outside) /\ top' = t
      /\ UNCHANGED <<calls, dropping, unwinding>>
  BY <1>2 DEF FromValue
<1> QED
  BY <1>1, <1>4, <1>5, MadePreservesInv

LEMMA FromValueNonStaticPreservesInv ==
    ASSUME RefsAssumption, RefsInv, NEW o \in Fresh, NEW small \in BOOLEAN, NEW r \in Captured,
           FromValueNonStatic(o, r, small)
    PROVE  RefsInv'
<1>1. o \in Object /\ r \in Lent
  BY CapturedIsLent DEF Fresh
<1>2. PICK t : t = IF small THEN [kind |-> "embedded", static |-> FALSE, value |-> <<o>>,
                                  target |-> o, owner |-> <<>>]
                   ELSE Boxed(o, FALSE)
  OBVIOUS
<1>3. <<o>> \in Seq(Object) /\ <<>> \in Seq(Object) /\ <<o>> \o <<>> = <<o>> /\ <<>> \o <<o>> = <<o>>
  BY <1>1
<1>4. /\ t \in StateRef /\ Owned(t) = <<o>> /\ t.target = o /\ t.static = FALSE
      /\ t.kind \in {"embedded", "ref"} /\ (t.kind = "ref" => t.value = <<>>)
      /\ t.kind = "embedded" => t.value = <<o>>
  BY <1>1, <1>2, <1>3 DEF StateRef, Owned, Boxed
<1>5. /\ Idle /\ obj' = Created(o, r) /\ top' = t
      /\ UNCHANGED <<calls, dropping, unwinding>>
  BY <1>2 DEF FromValueNonStatic
<1> QED
  BY <1>1, <1>4, <1>5, MadePreservesInv

LEMMA FromGuardPreservesInv ==
    ASSUME RefsAssumption, RefsInv, NEW o \in Fresh, NEW r \in Lent, FromGuard(o, r)
    PROVE  RefsInv'
<1>1. o \in Object /\ r \in Object \cup {Outside}
  BY LentIsSeen DEF Fresh
<1>2. PICK t : t = [kind |-> "guard", static |-> FALSE, value |-> <<o>>, target |-> r,
                    owner |-> <<>>]
  OBVIOUS
<1>3. <<o>> \in Seq(Object) /\ <<>> \in Seq(Object) /\ <<o>> \o <<>> = <<o>> /\ Len(<<o>>) = 1
  BY <1>1
<1>4. /\ t \in StateRef /\ Owned(t) = <<o>> /\ t.target = r /\ t.static = FALSE
      /\ t.kind = "guard" /\ Len(t.value) = 1
  BY <1>1, <1>2, <1>3 DEF StateRef, Owned
<1>5. /\ Idle /\ obj' = Created(o, r) /\ top' = t
      /\ UNCHANGED <<calls, dropping, unwinding>>
  BY <1>2 DEF FromGuard
<1> QED
  BY <1>4, <1>5, MadePreservesInv

LEMMA FromRefPreservesInv ==
    ASSUME RefsAssumption, RefsInv, NEW r \in Lent, FromRef(r)
    PROVE  RefsInv'
<1>1. /\ r \in Object \cup {Outside}
      /\ r = Outside \/ Seen(Segs, Statics, Len(calls) + 1, r)
  BY LentIsSeen
<1>2. PICK t : t = [kind |-> "ref", static |-> FALSE, value |-> <<>>, target |-> r,
                    owner |-> <<>>]
  OBVIOUS
<1>3. <<>> \in Seq(Object) /\ <<>> \o <<>> = <<>>
  OBVIOUS
<1>4. /\ t \in StateRef /\ Owned(t) = <<>> /\ t.target = r /\ t.static = FALSE
      /\ t.kind = "ref" /\ t.value = <<>>
  <2>1. PICK s : s = <<>> /\ s \in Seq(Object) /\ s \o s = <<>>
    BY <1>3
  <2>2. t = [kind |-> "ref", static |-> FALSE, value |-> s, target |-> r, owner |-> s]
    BY <1>2, <2>1
  <2>3. /\ t.value = s /\ t.owner = s /\ t.target = r /\ t.static = FALSE /\ t.kind = "ref"
    BY <2>2
  <2>4. r \in Object \cup {Outside}
    BY <1>1
  <2>5. t \in StateRef
    BY <2>1, <2>2, <2>4 DEF StateRef
  <2> QED
    BY <2>1, <2>3, <2>5 DEF Owned
<1>5. /\ top = NoRef /\ ~unwinding /\ top' = t /\ UNCHANGED <<obj, calls, dropping, unwinding>>
  BY <1>2 DEF FromRef, Idle, Running
<1>6. /\ obj \in [Object -> ObjectType] /\ calls \in Seq(CallType) /\ dropping \in Seq(Object)
      /\ unwinding \in BOOLEAN /\ t # NoRef /\ Laid(dropping, calls, NoRef, obj)
  BY <1>4, <1>5 DEF RefsInv, TypeInv, RefsAssumption
<1>7. TypeInv' /\ TopInv' /\ DropInv'
  BY <1>4, <1>5, <1>6 DEF TypeInv, TopInv, DropInv
<1>8. Laid(dropping, calls, t, obj)
  <2>1. IsStatic(t) = FALSE /\ IsStatic(NoRef) = FALSE /\ Owns(NoRef) = <<>>
    BY <1>4, <1>6 DEF IsStatic, Owns
  <2>2. StaticsOf(calls, t) = Statics
    BY <1>5, <2>1 DEF Statics, StaticsOf
  <2>3. StaticsOf(calls, t)[Len(calls) + 1] = FALSE
    <3>1. Len(calls) + 1 \in 1 .. Len(calls) + 1
      BY <1>6
    <3> QED
      BY <2>1, <3>1 DEF StaticsOf
  <2>4. Points(SegsOf(dropping, calls, NoRef), StaticsOf(calls, t), Len(calls) + 1, t.target)
    BY <1>1, <1>4, <1>5, <2>2, <2>3 DEF Points, Segs
  <2> QED
    BY <1>4, <1>6, <2>1, <2>4, LaidAimed
<1> QED
  BY <1>5, <1>7, <1>8 DEF RefsInv

\* A StateRef, and the call and drop that its parts become.
LEMMA PinnedType ==
    ASSUME RefsAssumption, NEW t \in StateRef
    PROVE  /\ Pinned(t) \in CallType /\ Pinned(t).handle = Owned(t)
           /\ Pinned(t).static = t.static /\ Pinned(t).target = t.target
<1>1. /\ t.value \in Seq(Object) /\ t.owner \in Seq(Object) /\ t.static \in BOOLEAN
      /\ t.target \in Object \cup {Outside}
  BY DEF StateRef
<1>2. PICK h : h = t.value \o t.owner
  OBVIOUS
<1>3. h \in Seq(Object)
  BY <1>1, <1>2
<1>4. PICK p : p = Pinned(t)
  OBVIOUS
<1>5. p = [static |-> t.static, target |-> t.target, handle |-> h]
  BY <1>2, <1>4 DEF Pinned, Chain
<1>6. p.static = t.static /\ p.target = t.target /\ p.handle = h
  BY <1>5
<1>7. p \in CallType
  BY <1>1, <1>3, <1>5 DEF CallType
<1> QED
  BY <1>2, <1>4, <1>6, <1>7 DEF Owned

\* What map makes of a StateRef.
LEMMA MappedType ==
    ASSUME RefsAssumption, TopInv, top \in StateRef, top # NoRef, NEW r \in Object \cup {Outside},
           NEW t, t = top', Map(r)
    PROVE  /\ t \in StateRef /\ t.target = r /\ t.static = top.static /\ Owned(t) = Owned(top)
           /\ t.kind \in {"ref", "guard"} /\ (t.kind = "ref" => t.value = <<>>)
           /\ t.kind = "guard" => Len(t.value) = 1
<1>0. /\ top.kind \in {"ref", "guard", "embedded", "static"} /\ top.static \in BOOLEAN
      /\ top.value \in Seq(Object) /\ top.owner \in Seq(Object)
  BY DEF StateRef
<1>1. CASE top.kind \in {"ref", "guard"}
  <2>1. t = [top EXCEPT !.target = r]
    BY <1>1 DEF Map
  <2>2. /\ t.target = r /\ t.static = top.static /\ t.value = top.value
        /\ t.owner = top.owner /\ t.kind = top.kind
    BY <2>1 DEF StateRef
  <2>3. t \in StateRef
    BY <2>1 DEF StateRef
  <2>4. /\ top.kind = "ref" => top.value = <<>>
        /\ top.kind = "guard" => Len(top.value) = 1
    BY DEF TopInv
  <2> QED
    BY <1>1, <2>2, <2>3, <2>4 DEF Owned
<1>2. CASE top.kind \notin {"ref", "guard"}
  <2>0. PICK h, s : h = Owned(top) /\ s = <<>>
    OBVIOUS
  <2>1. h \in Seq(Object) /\ s \in Seq(Object) /\ s \o h = h
    <3>1. h = top.value \o top.owner
      BY <2>0 DEF Owned
    <3>2. h \in Seq(Object)
      BY <1>0, <3>1
    <3> QED
      BY <2>0, <3>2
  <2>2. t = [kind |-> "ref", static |-> top.static, value |-> s, target |-> r, owner |-> h]
    BY <1>2, <2>0, PinnedType DEF Map
  <2>3. t \in StateRef
    BY <1>0, <2>1, <2>2 DEF StateRef
  <2>4. /\ t.kind = "ref" /\ t.target = r /\ t.static = top.static /\ t.value = s
        /\ t.owner = h
    BY <2>2
  <2> QED
    BY <2>0, <2>1, <2>3, <2>4 DEF Owned
<1> QED
  BY <1>1, <1>2

LEMMA MapPreservesInv ==
    ASSUME RefsAssumption, RefsInv, Ready, NEW r \in Reach(top.target), Map(r)
    PROVE  RefsInv'
<1>1. /\ top # NoRef /\ ~unwinding /\ top \in StateRef /\ obj \in [Object -> ObjectType]
      /\ calls \in Seq(CallType) /\ dropping \in Seq(Object) /\ unwinding \in BOOLEAN
      /\ Laid(dropping, calls, top, obj) /\ UNCHANGED <<obj, calls, dropping, unwinding>>
  BY DEF Ready, Running, RefsInv, TypeInv, Map
<1>2. r \in Object \cup {Outside}
  BY <1>1, ReachIsPointed
<1>3. Points(Segs, Statics, Len(calls) + 1, r)
  BY <1>1, ReachIsPointed
<1>4. PICK t : t = top'
  OBVIOUS
<1>6. /\ t \in StateRef /\ t.target = r /\ t.static = top.static /\ Owned(t) = Owned(top)
      /\ t.kind \in {"ref", "guard"} /\ (t.kind = "ref" => t.value = <<>>)
      /\ t.kind = "guard" => Len(t.value) = 1
  BY <1>1, <1>2, <1>4, MappedType DEF RefsInv
<1>7. t # NoRef
  BY <1>6 DEF RefsAssumption
<1>8. TypeInv' /\ TopInv' /\ DropInv'
  BY <1>1, <1>4, <1>6 DEF TypeInv, TopInv, DropInv
<1>9. Laid(dropping, calls, t, obj)
  <2>1. IsStatic(t) = IsStatic(top) /\ Owns(top) = Owned(top) /\ IsStatic(top) = top.static
    BY <1>1, <1>6, <1>7 DEF IsStatic, Owns
  <2>2. StaticsOf(calls, t) = Statics
    BY <2>1 DEF Statics, StaticsOf
  <2>3. Points(SegsOf(dropping, calls, top), StaticsOf(calls, t), Len(calls) + 1, t.target)
    BY <1>3, <1>6, <2>2 DEF Segs
  <2> QED
    BY <1>1, <1>6, <2>1, <2>3, LaidAimed
<1> QED
  BY <1>1, <1>4, <1>8, <1>9 DEF RefsInv

LEMMA MapRefPreservesInv ==
    ASSUME RefsAssumption, RefsInv, MapRef
    PROVE  RefsInv'
<1>1. /\ top # NoRef /\ ~unwinding /\ top \in StateRef /\ obj \in [Object -> ObjectType]
      /\ calls \in Seq(CallType) /\ dropping \in Seq(Object) /\ unwinding \in BOOLEAN
      /\ Laid(dropping, calls, top, obj) /\ UNCHANGED <<obj, dropping, unwinding>>
      /\ top' = NoRef
  BY DEF Ready, Running, RefsInv, TypeInv, MapRef
<1>2. PICK p : p = Pinned(top)
  OBVIOUS
<1>3. /\ p \in CallType /\ p.handle = Owned(top) /\ p.static = top.static
      /\ p.target = top.target
  BY <1>1, <1>2, PinnedType
<1>4. calls' = Append(calls, p) /\ calls' \in Seq(CallType)
  BY <1>1, <1>2, <1>3 DEF MapRef
<1>5. TypeInv' /\ TopInv' /\ DropInv'
  BY <1>1, <1>4 DEF TypeInv, TopInv, DropInv
<1>6. Laid(dropping, Append(calls, p), NoRef, obj)
  BY <1>1, <1>3, LaidCalled
<1> QED
  BY <1>1, <1>4, <1>5, <1>6 DEF RefsInv

\* What map_ref makes of a StateRef that is not static.
LEMMA ReturnedType ==
    ASSUME NEW r \in StateRef, NEW p \in CallType, NEW t, t = Returned(r, p)
    PROVE  /\ t \in StateRef /\ t.kind = r.kind /\ t.value = r.value /\ t.target = r.target
           /\ t.static = p.static /\ Owned(t) = Owned(r) \o p.handle
<1>1. PICK h : h = r.owner \o p.handle
  OBVIOUS
<1>2. /\ r.value \in Seq(Object) /\ r.owner \in Seq(Object) /\ h \in Seq(Object)
      /\ p.handle \in Seq(Object) /\ p.static \in BOOLEAN
  BY <1>1 DEF StateRef, CallType
<1>3. t = [r EXCEPT !.static = p.static, !.owner = h]
  BY <1>1 DEF Returned, Chain
<1>4. t \in StateRef
  BY <1>2, <1>3 DEF StateRef
<1>5. /\ t.kind = r.kind /\ t.value = r.value /\ t.target = r.target /\ t.static = p.static
      /\ t.owner = h
  BY <1>3 DEF StateRef
<1>6. Owned(t) = Owned(r) \o p.handle
  <2>1. PICK u, v, w : u = r.value /\ v = r.owner /\ w = p.handle
    OBVIOUS
  <2>2. u \in Seq(Object) /\ v \in Seq(Object) /\ w \in Seq(Object)
    BY <1>2, <2>1
  <2>3. (u \o v) \o w = u \o (v \o w)
    BY <2>2, ConcatAssociative
  <2> QED
    BY <1>1, <1>5, <2>1, <2>3 DEF Owned
<1> QED
  BY <1>4, <1>5, <1>6

LEMMA ClosureReturnsPreservesInv ==
    ASSUME RefsAssumption, RefsInv, ClosureReturns
    PROVE  RefsInv'
<1>1. /\ top # NoRef /\ ~unwinding /\ top \in StateRef /\ obj \in [Object -> ObjectType]
      /\ calls \in Seq(CallType) /\ calls # <<>> /\ dropping = <<>> /\ unwinding \in BOOLEAN
      /\ Laid(<<>>, calls, top, obj) /\ UNCHANGED <<obj, unwinding>>
      /\ calls' = Front(calls)
  BY DEF Ready, Running, RefsInv, TypeInv, ClosureReturns
<1>2. Front(calls) \in Seq(CallType) /\ Last(calls) \in CallType
  BY <1>1, FrontOf
<1>3. PICK p : p = Last(calls)
  OBVIOUS
<1>4. p \in CallType /\ p.handle \in Seq(Object) /\ p.static \in BOOLEAN
  BY <1>2, <1>3 DEF CallType
<1>5. CASE top.static
  <2>1. top' = top /\ dropping' = p.handle
    BY <1>3, <1>5 DEF ClosureReturns
  <2>2. TypeInv' /\ TopInv' /\ DropInv'
    BY <1>1, <1>2, <1>4, <2>1 DEF TypeInv, TopInv, DropInv, RefsInv
  <2>3. Laid(Last(calls).handle, Front(calls), top, obj)
    BY <1>1, <1>5, LaidReturned
  <2> QED
    BY <1>1, <1>3, <2>1, <2>2, <2>3 DEF RefsInv
<1>6. CASE ~top.static
  <2>1. dropping' = <<>> /\ top' = Returned(top, p)
    BY <1>3, <1>6 DEF ClosureReturns
  <2>2. PICK t : t = top'
    OBVIOUS
  <2>6. t \in StateRef /\ Owned(t) = Owned(top) \o p.handle
    BY <1>1, <1>4, <2>1, <2>2, ReturnedType
  <2>7. /\ t.kind = top.kind /\ t.value = top.value /\ t.target = top.target
        /\ t.static = p.static
    BY <1>1, <1>4, <2>1, <2>2, ReturnedType
  <2>8. top.kind # "static"
    BY <1>1, <1>6 DEF RefsInv, TopInv
  <2>9. TypeInv' /\ TopInv' /\ DropInv'
    <3>1. TypeInv'
      BY <1>1, <1>2, <2>1, <2>2, <2>6 DEF TypeInv
    <3>2. TopInv'
      BY <1>1, <2>2, <2>7, <2>8 DEF TopInv, RefsInv
    <3> QED
      BY <1>1, <3>1, <3>2 DEF DropInv
  <2>11. /\ t # NoRef /\ Owns(t) = Owns(top) \o Last(calls).handle
         /\ IsStatic(t) = Last(calls).static /\ AimOf(t) = AimOf(top)
    <3>1. t # NoRef
      BY <2>6 DEF RefsAssumption
    <3>2. Owns(t) = Owned(t) /\ Owns(top) = Owned(top)
      BY <1>1, <3>1 DEF Owns
    <3> QED
      BY <1>1, <1>3, <2>6, <2>7, <3>1, <3>2 DEF IsStatic, AimOf
  <2>12. Laid(<<>>, Front(calls), t, obj)
    BY <1>1, <2>6, <2>11, LaidJoined
  <2> QED
    BY <1>1, <2>1, <2>2, <2>9, <2>12 DEF RefsInv
<1> QED
  BY <1>5, <1>6

\* The running code's StateRef is dropped, as it asks for or because it panics.
LEMMA CutPreservesInv ==
    ASSUME RefsAssumption, RefsInv, Running, dropping' = Owns(top), top' = NoRef,
           unwinding' \in BOOLEAN, UNCHANGED <<obj, calls>>
    PROVE  RefsInv'
<1>1. /\ dropping = <<>> /\ obj \in [Object -> ObjectType] /\ calls \in Seq(CallType)
      /\ top \in StateRef \cup {NoRef} /\ Laid(<<>>, calls, top, obj)
  BY DEF Running, RefsInv, TypeInv
<1>2. Owns(top) \in Seq(Object)
  BY <1>1, OwnsType
<1>3. TypeInv' /\ TopInv' /\ DropInv'
  BY <1>1, <1>2 DEF TypeInv, TopInv, DropInv
<1>4. Laid(Owns(top), calls, NoRef, obj)
  BY <1>1, LaidCut
<1> QED
  BY <1>3, <1>4 DEF RefsInv

LEMMA DropPreservesInv ==
    ASSUME RefsAssumption, RefsInv, Drop
    PROVE  RefsInv'
<1>1. dropping' = Owns(top) /\ Running /\ top' = NoRef /\ UNCHANGED <<obj, calls>>
  BY DEF Drop, Ready, Owns
<1>2. unwinding' \in BOOLEAN
  BY DEF Drop, RefsInv, TypeInv
<1> QED
  BY <1>1, <1>2, CutPreservesInv

LEMMA PanicPreservesInv ==
    ASSUME RefsAssumption, RefsInv, Panic
    PROVE  RefsInv'
<1>1. /\ dropping' = Owns(top) /\ Running /\ top' = NoRef /\ UNCHANGED <<obj, calls>>
      /\ unwinding' \in BOOLEAN
  BY DEF Panic, Owns
<1> QED
  BY <1>1, CutPreservesInv

LEMMA IntoOwnedPreservesInv ==
    ASSUME RefsAssumption, RefsInv, IntoOwned
    PROVE  RefsInv'
<1>1. /\ top # NoRef /\ top \in StateRef /\ obj \in [Object -> ObjectType] /\ ~unwinding
      /\ calls \in Seq(CallType) /\ dropping = <<>> /\ unwinding \in BOOLEAN
      /\ Laid(<<>>, calls, top, obj) /\ UNCHANGED <<calls, dropping, unwinding>>
      /\ top' = NoRef /\ top.kind = "static"
  BY DEF Ready, Running, RefsInv, TypeInv, IntoOwned
<1>2. PICK o : o = top.value[1]
  OBVIOUS
<1>3. top.value = <<top.target>> /\ top.owner = <<>> /\ top.value \in Seq(Object)
  BY <1>1 DEF RefsInv, TopInv, StateRef
<1>4. PICK d : d = Owns(top)
  OBVIOUS
<1>5. d = <<o>> /\ o \in Object
  <2>1. o = top.target /\ o \in Object
    BY <1>2, <1>3
  <2>2. Owned(top) = <<o>>
    BY <1>3, <2>1 DEF Owned
  <2> QED
    BY <1>1, <1>4, <2>1, <2>2 DEF Owns
<1>6. d # <<>> /\ Head(d) = o /\ Tail(d) = <<>>
  BY <1>5
<1>7. Laid(d, calls, NoRef, obj)
  BY <1>1, <1>4, LaidCut
<1>8. obj' = [obj EXCEPT ![Head(d)].is = "gone"]
  BY <1>2, <1>6 DEF IntoOwned
<1>9. Laid(<<>>, calls, NoRef, obj')
  <2>1. Laid(Tail(d), calls, NoRef, [obj EXCEPT ![Head(d)].is = "gone"])
    BY <1>1, <1>6, <1>7, LaidDropped
  <2> QED
    BY <1>6, <1>8, <2>1
<1>10. obj' \in [Object -> ObjectType]
  BY <1>9 DEF Laid, Layout
<1>11. TypeInv' /\ TopInv' /\ DropInv'
  BY <1>1, <1>10 DEF TypeInv, TopInv, DropInv
<1> QED
  BY <1>1, <1>9, <1>11 DEF RefsInv

LEMMA DropNextPreservesInv ==
    ASSUME RefsAssumption, RefsInv, DropNext
    PROVE  RefsInv'
<1>1. /\ dropping # <<>> /\ dropping \in Seq(Object) /\ calls \in Seq(CallType)
      /\ Laid(dropping, calls, top, obj) /\ UNCHANGED <<top, calls, unwinding>>
      /\ dropping' = Tail(dropping) /\ obj' = [obj EXCEPT ![Head(dropping)].is = "gone"]
  BY DEF DropNext, RefsInv, TypeInv
<1>2. Laid(dropping', calls, top, obj')
  BY <1>1, LaidDropped
<1>3. obj' \in [Object -> ObjectType]
  BY <1>2 DEF Laid, Layout
<1>4. dropping' \in Seq(Object)
  BY <1>1
<1>5. TypeInv' /\ TopInv' /\ DropInv'
  BY <1>1, <1>3, <1>4 DEF TypeInv, TopInv, DropInv, RefsInv
<1> QED
  BY <1>1, <1>2, <1>5 DEF RefsInv

\* A panic drops what the last map_ref has pinned: as if that returned a reference to the
\* outside first.
LEMMA LaidUnwound ==
    ASSUME RefsAssumption, NEW c \in Seq(CallType), c # <<>>, NEW ob, Laid(<<>>, c, NoRef, ob)
    PROVE  Laid(Last(c).handle, Front(c), NoRef, ob)
<1>1. PICK p : p = Last(c)
  OBVIOUS
<1>2. p.handle \in Seq(Object) /\ p.static \in BOOLEAN /\ Front(c) \in Seq(CallType)
  BY <1>1, FrontOf DEF CallType
<1>3. PICK s : s = <<>>
  OBVIOUS
<1>4. s = <<>> /\ s \in Seq(Object)
  BY <1>3
<1>5. PICK t : t = [kind |-> "ref", static |-> p.static, value |-> s, target |-> Outside,
                    owner |-> p.handle]
  OBVIOUS
<1>6. /\ t \in StateRef /\ t.value = s /\ t.owner = p.handle /\ t.static = p.static
      /\ t.target = Outside
  BY <1>2, <1>4, <1>5 DEF StateRef
<1>7. t # NoRef
  BY <1>6 DEF RefsAssumption
<1>8. /\ Owns(t) = p.handle /\ Owns(NoRef) \o p.handle = p.handle /\ IsStatic(t) = p.static
      /\ AimOf(t) = Outside /\ AimOf(NoRef) = Outside
  <2>1. s \o p.handle = p.handle
    BY <1>2, <1>4
  <2> QED
    BY <1>4, <1>6, <1>7, <2>1 DEF Owns, Owned, IsStatic, AimOf
<1>9. Laid(<<>>, Front(c), t, ob)
  BY <1>1, <1>6, <1>8, LaidJoined
<1> QED
  BY <1>1, <1>2, <1>6, <1>8, <1>9, LaidCut

LEMMA UnwindPreservesInv ==
    ASSUME RefsAssumption, RefsInv, Unwind
    PROVE  RefsInv'
<1>1. /\ top = NoRef /\ unwinding /\ dropping = <<>> /\ calls # <<>> /\ calls \in Seq(CallType)
      /\ obj \in [Object -> ObjectType] /\ Laid(<<>>, calls, NoRef, obj)
      /\ calls' = Front(calls) /\ UNCHANGED <<obj, top, unwinding>>
      /\ dropping' = Last(calls).handle
  BY DEF Unwind, RefsInv, TypeInv, DropInv
<1>2. PICK p : p = Last(calls)
  OBVIOUS
<1>3. p \in CallType /\ Front(calls) \in Seq(CallType)
  BY <1>1, <1>2, FrontOf
<1>4. p.handle \in Seq(Object) /\ p.static \in BOOLEAN
  BY <1>3 DEF CallType
<1>12. Laid(p.handle, Front(calls), NoRef, obj)
  BY <1>1, <1>2, LaidUnwound
<1>13. TypeInv' /\ TopInv' /\ DropInv'
  BY <1>1, <1>2, <1>3, <1>4 DEF TypeInv, TopInv, DropInv, RefsInv
<1> QED
  BY <1>1, <1>2, <1>12, <1>13 DEF RefsInv

LEMMA CatchPreservesInv ==
    ASSUME RefsAssumption, RefsInv, Catch
    PROVE  RefsInv'
<1>1. unwinding' = FALSE /\ UNCHANGED <<obj, top, calls, dropping>>
  BY DEF Catch
<1>2. TypeInv' /\ TopInv' /\ DropInv'
  BY <1>1 DEF TypeInv, TopInv, DropInv, RefsInv
<1>3. Laid(dropping, calls, top, obj)'
  BY <1>1 DEF RefsInv
<1> QED
  BY <1>2, <1>3 DEF RefsInv

\* As long as nothing is borrowed across a static StateRef, what is borrowed is lent.
LEMMA NextRefsInv ==
    ASSUME RefsAssumption, RefsInv, [Next]_vars, ~crossed'
    PROVE  RefsInv'
<1>1. CASE UNCHANGED vars
  BY <1>1 DEF vars, RefsInv, TypeInv, TopInv, DropInv
<1>2. ASSUME NEW o \in Fresh, NEW small \in BOOLEAN,
             \/ FromValue(o, small)
             \/ \E t \in Enclosing : FromValueNonStatic(o, t, small)
      PROVE  RefsInv'
  <2>1. ASSUME NEW t, FromValueNonStatic(o, t, small)
        PROVE  t \in Captured
    BY <2>1 DEF FromValueNonStatic, Borrow
  <2> QED
    BY <1>2, <2>1, FromValuePreservesInv, FromValueNonStaticPreservesInv
<1>3. ASSUME NEW t, FromRef(t) \/ \E o \in Fresh : FromGuard(o, t)
      PROVE  RefsInv'
  <2>1. t \in Lent
    BY <1>3 DEF FromRef, FromGuard, Borrow
  <2> QED
    BY <1>3, <2>1, FromRefPreservesInv, FromGuardPreservesInv
<1>4. ASSUME Ready, NEW t \in Reach(top.target), Map(t)
      PROVE  RefsInv'
  BY <1>4, MapPreservesInv
<1>5. CASE MapRef \/ ClosureReturns
  BY <1>5, MapRefPreservesInv, ClosureReturnsPreservesInv
<1>6. CASE Drop \/ IntoOwned
  BY <1>6, DropPreservesInv, IntoOwnedPreservesInv
<1>7. CASE Panic \/ Unwind \/ Catch
  BY <1>7, PanicPreservesInv, UnwindPreservesInv, CatchPreservesInv
<1>8. CASE DropNext
  BY <1>8, DropNextPreservesInv
<1> QED
  BY <1>1, <1>2, <1>3, <1>4, <1>5, <1>6, <1>7, <1>8 DEF Next

-----------------------------------------------------------------------------
(* Who drops what, whatever is borrowed. *)

\* The calls c0, the StateRef t0 and the objects ob0 are owned and live as c, t and ob.
OwnLike(c, t, ob, c0, t0, ob0) ==
    /\ c0 \in Seq(CallType) /\ Len(c0) = Len(c)
    /\ \A i \in 1 .. Len(c) : c0[i].handle = c[i].handle /\ c0[i].static = c[i].static
    /\ t0 \in StateRef \cup {NoRef} /\ (t0 = NoRef <=> t = NoRef)
    /\ Owns(t0) = Owns(t) /\ IsStatic(t0) = IsStatic(t)
    /\ \A o \in Object : ob0[o].is = ob[o].is

Shape == TypeInv /\ TopInv /\ DropInv
OwnInv ==
    /\ Shape
    /\ \E c0, t0, ob0 : OwnLike(calls, top, obj, c0, t0, ob0) /\ Laid(dropping, c0, t0, ob0)

LEMMA ReachType ==
    ASSUME TypeInv, NEW t \in Object \cup {Outside}, NEW r \in Reach(t)
    PROVE  r \in Object \cup {Outside}
<1>1. CASE t = Outside
  BY <1>1 DEF Reach
<1>2. CASE t # Outside
  BY <1>2 DEF Reach, TypeInv, ObjectType
<1> QED
  BY <1>1, <1>2

LEMMA BorrowType ==
    ASSUME TypeInv, NEW r \in Enclosing \cup Given
    PROVE  r \in Object \cup {Outside}
<1>1. ASSUME NEW i \in 1 .. Len(calls), r \in Reach(calls[i].target)
      PROVE  r \in Object \cup {Outside}
  <2>1. calls \in Seq(CallType)
    BY DEF TypeInv
  <2>2. PICK q : q = calls[i]
    OBVIOUS
  <2>3. q \in CallType
    BY <2>1, <2>2
  <2>4. q.target \in Object \cup {Outside}
    BY <2>3 DEF CallType
  <2> QED
    BY <1>1, <2>2, <2>4, ReachType
<1>2. CASE r \in Enclosing
  <2>1. Len(calls) \in Nat
    BY DEF TypeInv
  <2>2. \A i \in 1 .. Len(calls) - 1 : i \in 1 .. Len(calls)
    BY <2>1
  <2> QED
    BY <1>1, <1>2, <2>2 DEF Enclosing
<1>3. CASE r \in Given /\ calls # <<>>
  <2>1. Len(calls) \in 1 .. Len(calls) /\ Last(calls) = calls[Len(calls)]
    BY <1>3, FrontOf DEF TypeInv
  <2> QED
    BY <1>1, <1>3, <2>1 DEF Given
<1> QED
  BY <1>2, <1>3 DEF Given

LEMMA MadeKeepsOwn ==
    ASSUME RefsAssumption, OwnInv, Idle, NEW o \in Fresh, NEW r \in Object \cup {Outside},
           NEW t \in StateRef, obj' = Created(o, r), top' = t,
           UNCHANGED <<calls, dropping, unwinding>>,
           Owned(t) = <<o>>, t.kind = "ref" => t.value = <<>>,
           t.kind = "guard" => Len(t.value) = 1,
           t.kind \in {"embedded", "static"} => t.value = <<t.target>>,
           t.kind = "static" => t.static /\ t.owner = <<>>
    PROVE  OwnInv'
<1>1. /\ top = NoRef /\ ~unwinding /\ o \in Object /\ obj[o].is = "free"
      /\ obj \in [Object -> ObjectType] /\ calls \in Seq(CallType) /\ dropping \in Seq(Object)
      /\ unwinding \in BOOLEAN
  BY DEF Idle, Running, Fresh, OwnInv, Shape, TypeInv
<1>2. PICK e : e = [is |-> "live", refers |-> r]
  OBVIOUS
<1>3. obj' = [obj EXCEPT ![o] = e] /\ e \in ObjectType /\ e.is = "live"
  BY <1>2 DEF Created, ObjectType
<1>4. Shape'
  BY <1>1, <1>3 DEF Shape, TypeInv, TopInv, DropInv
<1>5. PICK c0, t0, ob0 : OwnLike(calls, top, obj, c0, t0, ob0) /\ Laid(dropping, c0, t0, ob0)
  BY DEF OwnInv
<1>6. PICK t1 : t1 = [t EXCEPT !.target = Outside]
  OBVIOUS
<1>7. /\ t1 \in StateRef /\ t1.target = Outside /\ t1.static = t.static /\ t1.value = t.value
      /\ t1.owner = t.owner
  BY <1>6 DEF StateRef
<1>8. Owned(t1) = <<o>> /\ t1 # NoRef /\ t # NoRef
  BY <1>7 DEF Owned, RefsAssumption
<1>9. PICK ob1 : ob1 = [ob0 EXCEPT ![o] = [is |-> "live", refers |-> Outside]]
  OBVIOUS
<1>10. ob0 \in [Object -> ObjectType] /\ ob0[o].is # "live" /\ t0 = NoRef
  BY <1>1, <1>5 DEF OwnLike, Laid, Layout
<1>11. OwnsNew(dropping, c0, ob0, t1, o, Outside, ob1)
  BY <1>1, <1>7, <1>8, <1>9, <1>10 DEF OwnsNew
<1>12. Laid(dropping, c0, t1, ob1)
  BY <1>5, <1>7, <1>10, <1>11, LaidMade DEF OwnLike
<1>13. \A p \in Object : ob1[p].is = obj'[p].is
  BY <1>1, <1>3, <1>5, <1>9, <1>10 DEF OwnLike
<1>14. Owns(t1) = Owns(t) /\ IsStatic(t1) = IsStatic(t)
  BY <1>7, <1>8 DEF Owns, IsStatic
<1>15. OwnLike(calls, t, obj', c0, t1, ob1)
  BY <1>5, <1>7, <1>8, <1>13, <1>14 DEF OwnLike
<1> QED
  BY <1>4, <1>12, <1>15 DEF OwnInv

LEMMA FromValueKeepsOwn ==
    ASSUME RefsAssumption, OwnInv, NEW o \in Fresh, NEW small \in BOOLEAN,
           NEW r \in Object \cup {Outside},
           (FromValue(o, small) /\ r = Outside) \/ FromValueNonStatic(o, r, small)
    PROVE  OwnInv'
<1>1. o \in Object
  BY DEF Fresh
<1>2. PICK b \in BOOLEAN : b <=> FromValue(o, small) /\ r = Outside
  OBVIOUS
<1>3. PICK t : t = IF small THEN [kind |-> IF b THEN "static" ELSE "embedded", static |-> b,
                                  value |-> <<o>>, target |-> o, owner |-> <<>>]
                   ELSE Boxed(o, b)
  OBVIOUS
<1>4. <<o>> \in Seq(Object) /\ <<>> \in Seq(Object) /\ <<o>> \o <<>> = <<o>> /\ <<>> \o <<o>> = <<o>>
  BY <1>1
<1>5. /\ t \in StateRef /\ Owned(t) = <<o>> /\ t.target = o /\ t.static = b
      /\ t.kind \in {"static", "embedded", "ref"} /\ (t.kind = "ref" => t.value = <<>>)
      /\ t.kind \in {"static", "embedded"} => t.value = <<o>> /\ t.owner = <<>>
      /\ t.kind = "static" => b
  BY <1>1, <1>3, <1>4 DEF StateRef, Owned, Boxed
<1>6. /\ Idle /\ obj' = Created(o, r) /\ top' = t
      /\ UNCHANGED <<calls, dropping, unwinding>>
  BY <1>2, <1>3 DEF FromValue, FromValueNonStatic
<1> QED
  BY <1>5, <1>6, MadeKeepsOwn

LEMMA FromGuardKeepsOwn ==
    ASSUME RefsAssumption, OwnInv, NEW o \in Fresh, NEW r \in Object \cup {Outside},
           FromGuard(o, r)
    PROVE  OwnInv'
<1>1. o \in Object
  BY DEF Fresh
<1>2. PICK t : t = [kind |-> "guard", static |-> FALSE, value |-> <<o>>, target |-> r,
                    owner |-> <<>>]
  OBVIOUS
<1>3. <<o>> \in Seq(Object) /\ <<>> \in Seq(Object) /\ <<o>> \o <<>> = <<o>> /\ Len(<<o>>) = 1
  BY <1>1
<1>4. /\ t \in StateRef /\ Owned(t) = <<o>> /\ t.target = r /\ t.static = FALSE
      /\ t.kind = "guard" /\ Len(t.value) = 1
  BY <1>1, <1>2, <1>3 DEF StateRef, Owned
<1>5. /\ Idle /\ obj' = Created(o, r) /\ top' = t
      /\ UNCHANGED <<calls, dropping, unwinding>>
  BY <1>2 DEF FromGuard
<1> QED
  BY <1>4, <1>5, MadeKeepsOwn

LEMMA FromRefKeepsOwn ==
    ASSUME RefsAssumption, OwnInv, NEW r \in Object \cup {Outside}, FromRef(r)
    PROVE  OwnInv'
<1>1. PICK s : s = <<>>
  OBVIOUS
<1>2. s \in Seq(Object) /\ s \o s = <<>> /\ s = <<>>
  BY <1>1
<1>3. PICK t : t = [kind |-> "ref", static |-> FALSE, value |-> s, target |-> r, owner |-> s]
  OBVIOUS
<1>4. PICK t1 : t1 = [kind |-> "ref", static |-> FALSE, value |-> s, target |-> Outside,
                      owner |-> s]
  OBVIOUS
<1>5. /\ t \in StateRef /\ t.kind = "ref" /\ t.value = s /\ t.owner = s /\ t.static = FALSE
      /\ t1 \in StateRef /\ t1.value = s /\ t1.owner = s /\ t1.static = FALSE
      /\ t1.target = Outside
  BY <1>2, <1>3, <1>4 DEF StateRef
<1>6. t # NoRef /\ t1 # NoRef
  BY <1>5 DEF RefsAssumption
<1>7. /\ top = NoRef /\ ~unwinding /\ top' = t /\ UNCHANGED <<obj, calls, dropping, unwinding>>
  BY <1>1, <1>3 DEF FromRef, Idle, Running
<1>8. Shape'
  BY <1>2, <1>5, <1>7 DEF OwnInv, Shape, TypeInv, TopInv, DropInv
<1>9. /\ Owns(t) = <<>> /\ Owns(t1) = <<>> /\ Owns(NoRef) = <<>> /\ AimOf(t1) = Outside
      /\ IsStatic(t) = FALSE /\ IsStatic(t1) = FALSE /\ IsStatic(NoRef) = FALSE
  BY <1>2, <1>5, <1>6 DEF Owns, Owned, IsStatic, AimOf
<1>10. PICK c0, t0, ob0 : OwnLike(calls, top, obj, c0, t0, ob0) /\ Laid(dropping, c0, t0, ob0)
  BY DEF OwnInv
<1>11. Laid(dropping, c0, t1, ob0)
  <2>1. t0 = NoRef /\ c0 \in Seq(CallType)
    BY <1>7, <1>10 DEF OwnLike
  <2>2. Points(SegsOf(dropping, c0, t0), StaticsOf(c0, t1), Len(c0) + 1, t1.target)
    BY <1>5 DEF Points
  <2>3. Owned(t1) = Owns(t0) /\ t1.static = FALSE
    BY <1>2, <1>5, <1>9, <2>1 DEF Owned
  <2> QED
    BY <1>5, <1>10, <2>1, <2>2, <2>3, LaidAimed
<1>12. OwnLike(calls, t, obj, c0, t1, ob0)
  BY <1>5, <1>6, <1>9, <1>10 DEF OwnLike
<1> QED
  BY <1>7, <1>8, <1>11, <1>12 DEF OwnInv

\* A StateRef that owns the same, wherever it points.
LEMMA MapKeepsOwn ==
    ASSUME RefsAssumption, OwnInv, Ready, NEW r \in Reach(top.target), Map(r)
    PROVE  OwnInv'
<1>1. /\ top # NoRef /\ ~unwinding /\ top \in StateRef
      /\ TypeInv /\ TopInv /\ DropInv /\ UNCHANGED <<obj, calls, dropping, unwinding>>
  BY DEF Ready, Running, OwnInv, Shape, TypeInv, Map
<1>2. r \in Object \cup {Outside}
  <2>1. top.target \in Object \cup {Outside}
    BY <1>1 DEF StateRef
  <2> QED
    BY <1>1, <2>1, ReachType
<1>3. PICK t : t = top'
  OBVIOUS
<1>4. /\ t \in StateRef /\ t.target = r /\ t.static = top.static /\ Owned(t) = Owned(top)
      /\ t.kind \in {"ref", "guard"} /\ (t.kind = "ref" => t.value = <<>>)
      /\ t.kind = "guard" => Len(t.value) = 1
  BY <1>1, <1>2, <1>3, MappedType
<1>5. t # NoRef
  BY <1>4 DEF RefsAssumption
<1>6. Shape'
  BY <1>1, <1>3, <1>4 DEF Shape, TypeInv, TopInv, DropInv
<1>7. Owns(t) = Owns(top) /\ IsStatic(t) = IsStatic(top)
  BY <1>1, <1>4, <1>5 DEF Owns, IsStatic
<1>8. PICK c0, t0, ob0 : OwnLike(calls, top, obj, c0, t0, ob0) /\ Laid(dropping, c0, t0, ob0)
  BY DEF OwnInv
<1>9. OwnLike(calls, t, obj, c0, t0, ob0)
  BY <1>1, <1>5, <1>7, <1>8 DEF OwnLike
<1> QED
  BY <1>1, <1>3, <1>6, <1>8, <1>9 DEF OwnInv

LEMMA MapRefKeepsOwn ==
    ASSUME RefsAssumption, OwnInv, MapRef
    PROVE  OwnInv'
<1>1. /\ top # NoRef /\ ~unwinding /\ top \in StateRef /\ TypeInv /\ calls \in Seq(CallType)
      /\ UNCHANGED <<obj, dropping, unwinding>> /\ top' = NoRef
  BY DEF Ready, Running, OwnInv, Shape, TypeInv, MapRef
<1>2. PICK p : p = Pinned(top)
  OBVIOUS
<1>3. p \in CallType /\ p.handle = Owned(top) /\ p.static = top.static
  BY <1>1, <1>2, PinnedType
<1>4. calls' = Append(calls, p) /\ calls' \in Seq(CallType)
  BY <1>1, <1>2, <1>3 DEF MapRef
<1>5. Shape'
  BY <1>1, <1>4 DEF Shape, TypeInv, TopInv, DropInv
<1>6. PICK c0, t0, ob0 : OwnLike(calls, top, obj, c0, t0, ob0) /\ Laid(dropping, c0, t0, ob0)
  BY DEF OwnInv
<1>7. PICK p0 : p0 = Pinned(t0)
  OBVIOUS
<1>8. /\ t0 \in StateRef /\ t0 # NoRef /\ c0 \in Seq(CallType) /\ Len(c0) = Len(calls)
      /\ \A i \in 1 .. Len(calls) : c0[i].handle = calls[i].handle /\ c0[i].static = calls[i].static
  BY <1>1, <1>6 DEF OwnLike
<1>9. /\ p0 \in CallType /\ p0.handle = Owned(t0) /\ p0.static = t0.static
      /\ p0.target = t0.target
  BY <1>7, <1>8, PinnedType
<1>10. p0.handle = p.handle /\ p0.static = p.static
  BY <1>1, <1>3, <1>6, <1>8, <1>9 DEF OwnLike, Owns, IsStatic
<1>11. PICK c1, c2 : c1 = Append(c0, p0) /\ c2 = Append(calls, p)
  OBVIOUS
<1>12. Laid(dropping, c1, NoRef, ob0)
  BY <1>6, <1>8, <1>9, <1>11, LaidCalled
<1>13. /\ c1 \in Seq(CallType) /\ Len(c1) = Len(c2)
       /\ \A i \in 1 .. Len(c2) : c1[i].handle = c2[i].handle /\ c1[i].static = c2[i].static
  <2>1. Len(c1) = Len(calls) + 1 /\ Len(c2) = Len(calls) + 1 /\ c1 \in Seq(CallType)
    BY <1>1, <1>3, <1>8, <1>9, <1>11
  <2>2. c1[Len(calls) + 1] = p0 /\ c2[Len(calls) + 1] = p
    BY <1>1, <1>3, <1>8, <1>9, <1>11
  <2>3. \A i \in 1 .. Len(calls) : c1[i] = c0[i] /\ c2[i] = calls[i]
    BY <1>1, <1>3, <1>8, <1>9, <1>11
  <2>4. \A i \in 1 .. Len(calls) + 1 : i \in 1 .. Len(calls) \/ i = Len(calls) + 1
    BY <1>1
  <2> QED
    BY <1>8, <1>10, <2>1, <2>2, <2>3, <2>4
<1>14. OwnLike(c2, NoRef, obj, c1, NoRef, ob0)
  BY <1>6, <1>13 DEF OwnLike
<1> QED
  BY <1>1, <1>4, <1>5, <1>11, <1>12, <1>14 DEF OwnInv

\* The shadows of the calls that are left when the last one ends.
LEMMA LikeFront ==
    ASSUME NEW c \in Seq(CallType), c # <<>>, NEW t, NEW ob, NEW c0, NEW t0, NEW ob0,
           OwnLike(c, t, ob, c0, t0, ob0)
    PROVE  /\ c0 \in Seq(CallType) /\ c0 # <<>> /\ Last(c0) \in CallType
           /\ Last(c0).handle = Last(c).handle /\ Last(c0).static = Last(c).static
           /\ Front(c0) \in Seq(CallType) /\ Len(Front(c0)) = Len(Front(c))
           /\ \A i \in 1 .. Len(Front(c)) : /\ Front(c0)[i].handle = Front(c)[i].handle
                                            /\ Front(c0)[i].static = Front(c)[i].static
<1>1. /\ c0 \in Seq(CallType) /\ Len(c0) = Len(c) /\ c0 # <<>> /\ Len(c) \in Nat \ {0}
      /\ \A i \in 1 .. Len(c) : c0[i].handle = c[i].handle /\ c0[i].static = c[i].static
  BY DEF OwnLike
<1>2. /\ Front(c) \in Seq(CallType) /\ Len(Front(c)) = Len(c) - 1 /\ Last(c) = c[Len(c)]
      /\ \A i \in 1 .. Len(c) - 1 : Front(c)[i] = c[i]
  BY FrontOf
<1>3. /\ Front(c0) \in Seq(CallType) /\ Len(Front(c0)) = Len(c) - 1 /\ Last(c0) = c0[Len(c)]
      /\ \A i \in 1 .. Len(c) - 1 : Front(c0)[i] = c0[i]
      /\ Last(c0) \in CallType
  BY <1>1, FrontOf
<1>4. Len(c) \in 1 .. Len(c) /\ \A i \in 1 .. Len(c) - 1 : i \in 1 .. Len(c)
  BY <1>1
<1> QED
  BY <1>1, <1>2, <1>3, <1>4

LEMMA ClosureReturnsKeepsOwn ==
    ASSUME RefsAssumption, OwnInv, ClosureReturns
    PROVE  OwnInv'
<1>1. /\ top # NoRef /\ ~unwinding /\ top \in StateRef /\ TypeInv /\ TopInv /\ DropInv
      /\ calls \in Seq(CallType) /\ calls # <<>> /\ dropping = <<>>
      /\ UNCHANGED <<obj, unwinding>> /\ calls' = Front(calls)
  BY DEF Ready, Running, OwnInv, Shape, TypeInv, ClosureReturns
<1>2. PICK p, c : p = Last(calls) /\ c = Front(calls)
  OBVIOUS
<1>3. c \in Seq(CallType) /\ p \in CallType /\ p.handle \in Seq(Object) /\ p.static \in BOOLEAN
  BY <1>1, <1>2, FrontOf DEF CallType
<1>4. PICK c0, t0, ob0 : OwnLike(calls, top, obj, c0, t0, ob0) /\ Laid(<<>>, c0, t0, ob0)
  BY <1>1 DEF OwnInv
<1>5. PICK p0, c1 : p0 = Last(c0) /\ c1 = Front(c0)
  OBVIOUS
<1>6. /\ c0 \in Seq(CallType) /\ c0 # <<>> /\ p0 \in CallType /\ p0.handle = p.handle
      /\ p0.static = p.static /\ c1 \in Seq(CallType) /\ Len(c1) = Len(c)
      /\ \A i \in 1 .. Len(c) : c1[i].handle = c[i].handle /\ c1[i].static = c[i].static
  BY <1>1, <1>2, <1>4, <1>5, LikeFront
<1>7. /\ t0 \in StateRef /\ t0 # NoRef /\ Owned(t0) = Owned(top) /\ t0.static = top.static
      /\ \A o \in Object : ob0[o].is = obj[o].is
  BY <1>1, <1>4 DEF OwnLike, Owns, IsStatic
<1>8. CASE top.static
  <2>1. top' = top /\ dropping' = p.handle
    BY <1>2, <1>8 DEF ClosureReturns
  <2>2. Shape'
    BY <1>1, <1>2, <1>3, <2>1 DEF Shape, TypeInv, TopInv, DropInv
  <2>3. Laid(p.handle, c1, t0, ob0)
    BY <1>4, <1>5, <1>6, <1>7, <1>8, LaidReturned
  <2>4. OwnLike(c, top, obj, c1, t0, ob0)
    BY <1>4, <1>6 DEF OwnLike
  <2> QED
    BY <1>1, <1>2, <2>1, <2>2, <2>3, <2>4 DEF OwnInv
<1>9. CASE ~top.static
  <2>1. dropping' = <<>> /\ top' = Returned(top, p)
    BY <1>2, <1>9 DEF ClosureReturns
  <2>2. PICK t, t1 : t = top' /\ t1 = Returned(t0, p0)
    OBVIOUS
  <2>3. /\ t \in StateRef /\ t.kind = top.kind /\ t.value = top.value /\ t.target = top.target
        /\ t.static = p.static /\ Owned(t) = Owned(top) \o p.handle
    BY <1>1, <1>3, <2>1, <2>2, ReturnedType
  <2>4. /\ t1 \in StateRef /\ t1.target = t0.target /\ t1.static = p.static
        /\ Owned(t1) = Owned(top) \o p.handle
    <3>1. /\ t1 \in StateRef /\ t1.target = t0.target /\ t1.static = p0.static
          /\ Owned(t1) = Owned(t0) \o p0.handle
      <4>1. t0 \in StateRef /\ p0 \in CallType /\ t1 = Returned(t0, p0)
        BY <1>6, <1>7, <2>2
      <4> QED
        BY <4>1, ReturnedType
    <3> QED
      BY <1>6, <1>7, <3>1
  <2>5. t # NoRef /\ t1 # NoRef
    BY <2>3, <2>4 DEF RefsAssumption
  <2>6. top.kind # "static"
    BY <1>1, <1>9 DEF TopInv
  <2>7. Shape'
    <3>1. TypeInv'
      BY <1>1, <1>2, <1>3, <2>1, <2>2, <2>3 DEF TypeInv
    <3>2. TopInv'
      BY <1>1, <2>2, <2>3, <2>6 DEF TopInv
    <3> QED
      BY <1>1, <3>1, <3>2 DEF Shape, DropInv
  <2>8. /\ Owns(t) = Owns(t0) \o p.handle /\ Owns(t1) = Owns(t0) \o p.handle
        /\ IsStatic(t) = p.static /\ IsStatic(t1) = p.static /\ AimOf(t1) = AimOf(t0)
    BY <1>7, <2>3, <2>4, <2>5 DEF Owns, IsStatic, AimOf
  <2>9. Laid(<<>>, c1, t1, ob0)
    BY <1>4, <1>5, <1>6, <1>7, <2>4, <2>8, LaidJoined
  <2>10. OwnLike(c, t, obj, c1, t1, ob0)
    BY <1>6, <1>7, <2>4, <2>5, <2>8 DEF OwnLike
  <2> QED
    BY <1>1, <1>2, <2>1, <2>2, <2>7, <2>9, <2>10 DEF OwnInv
<1> QED
  BY <1>8, <1>9

LEMMA CutKeepsOwn ==
    ASSUME RefsAssumption, OwnInv, Running, dropping' = Owns(top), top' = NoRef,
           unwinding' \in BOOLEAN, UNCHANGED <<obj, calls>>
    PROVE  OwnInv'
<1>1. /\ dropping = <<>> /\ TypeInv /\ calls \in Seq(CallType) /\ top \in StateRef \cup {NoRef}
  BY DEF Running, OwnInv, Shape, TypeInv
<1>2. Owns(top) \in Seq(Object)
  BY <1>1, OwnsType
<1>3. Shape'
  BY <1>1, <1>2 DEF Shape, TypeInv, TopInv, DropInv
<1>4. PICK c0, t0, ob0 : OwnLike(calls, top, obj, c0, t0, ob0) /\ Laid(<<>>, c0, t0, ob0)
  BY <1>1 DEF OwnInv
<1>5. Laid(Owns(top), c0, NoRef, ob0)
  BY <1>4, LaidCut DEF OwnLike
<1>6. OwnLike(calls, NoRef, obj, c0, NoRef, ob0)
  BY <1>4 DEF OwnLike
<1> QED
  BY <1>3, <1>5, <1>6 DEF OwnInv

LEMMA IntoOwnedKeepsOwn ==
    ASSUME RefsAssumption, OwnInv, IntoOwned
    PROVE  OwnInv'
<1>1. /\ top # NoRef /\ top \in StateRef /\ obj \in [Object -> ObjectType] /\ ~unwinding
      /\ TypeInv /\ TopInv /\ dropping = <<>> /\ UNCHANGED <<calls, dropping, unwinding>>
      /\ top' = NoRef /\ top.kind = "static"
  BY DEF Ready, Running, OwnInv, Shape, TypeInv, IntoOwned
<1>2. PICK o : o = top.value[1]
  OBVIOUS
<1>3. top.value = <<top.target>> /\ top.owner = <<>> /\ top.value \in Seq(Object)
  BY <1>1 DEF TopInv, StateRef
<1>4. PICK d : d = <<o>>
  OBVIOUS
<1>5. o = top.target /\ o \in Object
  BY <1>2, <1>3
<1>6. Owns(top) = d /\ d # <<>> /\ Head(d) = o /\ Tail(d) = <<>>
  BY <1>1, <1>3, <1>4, <1>5 DEF Owns, Owned
<1>7. PICK c0, t0, ob0 : OwnLike(calls, top, obj, c0, t0, ob0) /\ Laid(<<>>, c0, t0, ob0)
  BY <1>1 DEF OwnInv
<1>8. Laid(d, c0, NoRef, ob0)
  BY <1>6, <1>7, LaidCut DEF OwnLike
<1>9. PICK ob1 : ob1 = [ob0 EXCEPT ![o].is = "gone"]
  OBVIOUS
<1>10. Laid(<<>>, c0, NoRef, ob1)
  <2>1. c0 \in Seq(CallType)
    BY <1>7 DEF OwnLike
  <2>2. Laid(Tail(d), c0, NoRef, [ob0 EXCEPT ![Head(d)].is = "gone"])
    BY <1>6, <1>8, <2>1, LaidDropped
  <2> QED
    BY <1>6, <1>9, <2>2
<1>11. obj' = [obj EXCEPT ![o].is = "gone"] /\ obj' \in [Object -> ObjectType]
  <2>1. obj' = [obj EXCEPT ![o].is = "gone"]
    BY <1>2 DEF IntoOwned
  <2> QED
    BY <1>1, <1>5, <2>1 DEF ObjectType
<1>12. Shape'
  BY <1>1, <1>11 DEF Shape, TypeInv, TopInv, DropInv
<1>13. OwnLike(calls, NoRef, obj', c0, NoRef, ob1)
  <2>1. ob0 \in [Object -> ObjectType]
    BY <1>7 DEF Laid, Layout
  <2>2. \A q \in Object : ob1[q].is = obj'[q].is
    BY <1>1, <1>7, <1>9, <1>11, <2>1 DEF OwnLike, ObjectType
  <2> QED
    BY <1>7, <2>2 DEF OwnLike
<1> QED
  BY <1>1, <1>10, <1>12, <1>13 DEF OwnInv

LEMMA DropNextKeepsOwn ==
    ASSUME OwnInv, DropNext
    PROVE  OwnInv'
<1>1. /\ dropping # <<>> /\ dropping \in Seq(Object) /\ UNCHANGED <<top, calls, unwinding>>
      /\ obj \in [Object -> ObjectType] /\ TypeInv /\ TopInv /\ DropInv
  BY DEF DropNext, OwnInv, Shape, TypeInv
<1>2. PICK o, d : o = Head(dropping) /\ d = Tail(dropping)
  OBVIOUS
<1>3. o \in Object /\ d \in Seq(Object) /\ dropping' = d /\ obj' = [obj EXCEPT ![o].is = "gone"]
  BY <1>1, <1>2 DEF DropNext
<1>4. obj' \in [Object -> ObjectType]
  BY <1>1, <1>3 DEF ObjectType
<1>5. Shape'
  BY <1>1, <1>3, <1>4 DEF Shape, TypeInv, TopInv, DropInv
<1>6. PICK c0, t0, ob0 : OwnLike(calls, top, obj, c0, t0, ob0) /\ Laid(dropping, c0, t0, ob0)
  BY DEF OwnInv
<1>7. PICK ob1 : ob1 = [ob0 EXCEPT ![o].is = "gone"]
  OBVIOUS
<1>8. Laid(d, c0, t0, ob1)
  BY <1>1, <1>2, <1>6, <1>7, LaidDropped DEF OwnLike
<1>9. OwnLike(calls, top, obj', c0, t0, ob1)
  <2>1. ob0 \in [Object -> ObjectType]
    BY <1>6 DEF Laid, Layout
  <2>2. \A q \in Object : ob1[q].is = obj'[q].is
    BY <1>1, <1>3, <1>6, <1>7, <2>1 DEF OwnLike, ObjectType
  <2> QED
    BY <1>6, <2>2 DEF OwnLike
<1> QED
  BY <1>1, <1>3, <1>5, <1>8, <1>9 DEF OwnInv

LEMMA UnwindKeepsOwn ==
    ASSUME RefsAssumption, OwnInv, Unwind
    PROVE  OwnInv'
<1>1. /\ top = NoRef /\ unwinding /\ dropping = <<>> /\ calls # <<>> /\ calls \in Seq(CallType)
      /\ TypeInv /\ TopInv /\ DropInv /\ UNCHANGED <<obj, top, unwinding>>
  BY DEF Unwind, OwnInv, Shape, TypeInv, DropInv
<1>2. PICK p, c : p = Last(calls) /\ c = Front(calls)
  OBVIOUS
<1>3. /\ c \in Seq(CallType) /\ p \in CallType /\ p.handle \in Seq(Object)
      /\ calls' = c /\ dropping' = p.handle
  BY <1>1, <1>2, FrontOf DEF CallType, Unwind
<1>4. Shape'
  BY <1>1, <1>3 DEF Shape, TypeInv, TopInv, DropInv
<1>5. PICK c0, t0, ob0 : OwnLike(calls, top, obj, c0, t0, ob0) /\ Laid(<<>>, c0, t0, ob0)
  BY <1>1 DEF OwnInv
<1>6. PICK p0, c1 : p0 = Last(c0) /\ c1 = Front(c0)
  OBVIOUS
<1>7. /\ c0 \in Seq(CallType) /\ c0 # <<>> /\ p0 \in CallType /\ p0.handle = p.handle
      /\ c1 \in Seq(CallType) /\ Len(c1) = Len(c) /\ t0 = NoRef
      /\ \A i \in 1 .. Len(c) : c1[i].handle = c[i].handle /\ c1[i].static = c[i].static
  <2>1. t0 = NoRef
    BY <1>1, <1>5 DEF OwnLike
  <2>2. OwnLike(calls, top, obj, c0, t0, ob0)
    BY <1>5
  <2> QED
    BY <1>1, <1>2, <1>6, <2>1, <2>2, LikeFront
<1>8. Laid(p.handle, c1, NoRef, ob0)
  BY <1>5, <1>6, <1>7, LaidUnwound
<1>9. OwnLike(c, NoRef, obj, c1, NoRef, ob0)
  BY <1>1, <1>5, <1>7 DEF OwnLike
<1> QED
  BY <1>1, <1>3, <1>4, <1>8, <1>9 DEF OwnInv

\* A layout is like itself.
LEMMA InvOwnInv ==
    ASSUME RefsInv
    PROVE  OwnInv
<1>1. OwnLike(calls, top, obj, calls, top, obj)
  BY DEF OwnLike, RefsInv, TypeInv
<1> QED
  BY <1>1 DEF OwnInv, Shape, RefsInv

LEMMA NextOwnInv ==
    ASSUME RefsAssumption, OwnInv, [Next]_vars
    PROVE  OwnInv'
<1>0. TypeInv
  BY DEF OwnInv, Shape
<1>1. CASE UNCHANGED <<obj, top, calls, dropping>> /\ (unwinding' = unwinding \/ Catch)
  <2>1. Shape'
    <3>1. TypeInv /\ TopInv /\ DropInv /\ unwinding' \in {unwinding, FALSE}
      BY <1>1 DEF OwnInv, Shape, Catch
    <3>2. TypeInv'
      BY <1>1, <3>1 DEF TypeInv
    <3>3. TopInv'
      BY <1>1, <3>1 DEF TopInv
    <3>4. DropInv'
      BY <1>1, <3>1 DEF DropInv
    <3> QED
      BY <3>2, <3>3, <3>4 DEF Shape
  <2> QED
    BY <1>1, <2>1 DEF OwnInv
<1>2. ASSUME NEW o \in Fresh, NEW small \in BOOLEAN,
             \/ FromValue(o, small)
             \/ \E t \in Enclosing : FromValueNonStatic(o, t, small)
      PROVE  OwnInv'
  BY <1>0, <1>2, BorrowType, FromValueKeepsOwn
<1>3. ASSUME NEW t \in Enclosing \cup Given, FromRef(t) \/ \E o \in Fresh : FromGuard(o, t)
      PROVE  OwnInv'
  BY <1>0, <1>3, BorrowType, FromRefKeepsOwn, FromGuardKeepsOwn
<1>4. ASSUME Ready, NEW t \in Reach(top.target), Map(t)
      PROVE  OwnInv'
  BY <1>4, MapKeepsOwn
<1>5. CASE MapRef \/ ClosureReturns
  BY <1>5, MapRefKeepsOwn, ClosureReturnsKeepsOwn
<1>6. CASE Drop \/ Panic
  <2>1. dropping' = Owns(top) /\ Running /\ top' = NoRef /\ UNCHANGED <<obj, calls>>
    BY <1>6 DEF Drop, Panic, Ready, Owns
  <2>2. unwinding' \in BOOLEAN
    BY <1>0, <1>6 DEF Drop, Panic, TypeInv
  <2> QED
    BY <2>1, <2>2, CutKeepsOwn
<1>7. CASE IntoOwned \/ Unwind \/ DropNext
  BY <1>7, IntoOwnedKeepsOwn, UnwindKeepsOwn, DropNextKeepsOwn
<1>8. CASE Catch \/ UNCHANGED vars
  BY <1>1, <1>8 DEF Catch, vars
<1> QED
  BY <1>2, <1>3, <1>4, <1>5, <1>6, <1>7, <1>8 DEF Next

-----------------------------------------------------------------------------
(* What the invariant says of the properties. *)

\* The first part of NoDangling: what anything but a StateRef of the running code points to.
LEMMA TargetsAreLive ==
    ASSUME RefsAssumption, RefsInv
    PROVE  Targets \subseteq Live \cup {Outside}
<1> DEFINE n == Len(calls)
<1>1. /\ n \in Nat /\ Layout(n, Segs, Statics, Aims, obj) /\ calls \in Seq(CallType)
  BY DEF RefsInv, TypeInv, Laid, Segs, Statics, Aims
<1>2. ASSUME NEW i \in 0 .. n + 1, NEW t, In(Segs, i, t)
      PROVE  t \in Live
  BY <1>1, <1>2, PlacesLive DEF Live
<1>3. ASSUME NEW i \in 1 .. n + 1, NEW t, Points(Segs, Statics, i, t)
      PROVE  t \in Live \cup {Outside}
  <2>1. i \in 0 .. n + 1 /\ \A j \in 1 .. i - 1 : j \in 0 .. n + 1
    BY <1>1
  <2> QED
    BY <1>2, <1>3, <2>1 DEF Points, Seen
<1>4. ASSUME NEW i \in DOMAIN calls
      PROVE  calls[i].target \in Live \cup {Outside}
  <2>1. i \in 1 .. n /\ i \in 1 .. n + 1
    BY <1>1
  <2>2. Segs[i] = calls[i].handle /\ Statics[i] = calls[i].static /\ Aims[i] = calls[i].target
    BY <1>1, <2>1, TopOf DEF Segs, Statics, Aims
  <2>3. Points(Segs, Statics, i, calls[i].target)
    BY <1>1, <2>1, <2>2 DEF Layout, Ordered, SegOrdered
  <2> QED
    BY <1>3, <2>1, <2>3
<1>5. ASSUME NEW o \in Live
      PROVE  obj[o].refers \in Live \cup {Outside}
  <2>1. PICK r : r = obj[o].refers
    OBVIOUS
  <2>2. PICK i \in 0 .. n + 1 : In(Segs, i, o)
    BY <1>1 DEF Live, Layout, Placed
  <2>3. PICK k \in DOMAIN Segs[i] : Segs[i][k] = o
    BY <2>2 DEF In
  <2>4. CASE i = 0
    <3>1. Outlives(Segs, n, k, r)
      BY <1>1, <2>1, <2>3, <2>4 DEF Layout, Ordered
    <3>2. 0 \in 0 .. n + 1 /\ \A j \in 1 .. n : j \in 0 .. n + 1
      BY <1>1
    <3>3. r = Outside \/ \E j \in 0 .. n + 1 : In(Segs, j, r)
      BY <3>1, <3>2 DEF Outlives, In
    <3> QED
      BY <1>2, <2>1, <3>3
  <2>5. CASE i # 0
    <3>1. i \in 1 .. n + 1
      BY <2>5
    <3>2. Follows(Segs, Statics, i, k, r)
      BY <1>1, <2>1, <2>3, <3>1 DEF Layout, Ordered, SegOrdered
    <3>3. Points(Segs, Statics, i, r)
      BY <3>2 DEF Follows, Points, In
    <3> QED
      BY <1>3, <2>1, <3>1, <3>3
  <2> QED
    BY <2>4, <2>5
<1> QED
  BY <1>4, <1>5 DEF Targets

\* The second part: nothing but the running code's StateRef points to what moves with it.
LEMMA NothingPointsToTheTop ==
    ASSUME RefsAssumption, RefsInv, top # NoRef, top.kind \in {"embedded", "static"}
    PROVE  top.target \notin Targets
<1> DEFINE n == Len(calls)
<1>1. /\ n \in Nat /\ Layout(n, Segs, Statics, Aims, obj) /\ calls \in Seq(CallType)
      /\ n + 1 \in 0 .. n + 1
  BY DEF RefsInv, TypeInv, Laid, Segs, Statics, Aims
<1>2. PICK v : v = top.target
  OBVIOUS
<1>3. top \in StateRef /\ top.value = <<v>> /\ top.value \in Seq(Object) /\ top.owner \in Seq(Object)
  BY <1>2 DEF RefsInv, TopInv, TypeInv, StateRef
<1>4. v \in Object
  BY <1>3
\* Its place is the first of the last segment.
<1>5. 1 \in DOMAIN Segs[n + 1] /\ Segs[n + 1][1] = v
  <2>1. Segs[n + 1] = <<v>> \o top.owner
    <3>1. Segs[n + 1] = Owns(top)
      BY <1>1, TopOf DEF Segs
    <3> QED
      BY <1>3, <3>1 DEF Owns, Owned
  <2> QED
    BY <1>3, <1>4, <2>1
<1>6. ASSUME NEW i \in 0 .. n, NEW t, In(Segs, i, t)
      PROVE  t # v
  <2>1. i \in 0 .. n + 1 /\ i # n + 1
    BY <1>1
  <2> QED
    BY <1>1, <1>5, <1>6, <2>1 DEF Layout, Placed, In
<1>7. v # Outside
  BY <1>4 DEF RefsAssumption
<1>8. ASSUME NEW i \in 1 .. n, NEW t, Points(Segs, Statics, i, t)
      PROVE  t # v
  <2>1. i \in 0 .. n /\ \A j \in 1 .. i - 1 : j \in 0 .. n
    BY <1>1
  <2> QED
    BY <1>6, <1>7, <1>8, <2>1 DEF Points, Seen
<1>9. ASSUME NEW i \in DOMAIN calls
      PROVE  calls[i].target # v
  <2>1. i \in 1 .. n /\ i \in 1 .. n + 1
    BY <1>1
  <2>2. Segs[i] = calls[i].handle /\ Statics[i] = calls[i].static /\ Aims[i] = calls[i].target
    BY <1>1, <2>1, TopOf DEF Segs, Statics, Aims
  <2>3. Points(Segs, Statics, i, calls[i].target)
    BY <1>1, <2>1, <2>2 DEF Layout, Ordered, SegOrdered
  <2> QED
    BY <1>8, <2>1, <2>3
<1>10. ASSUME NEW o \in Live
       PROVE  obj[o].refers # v
  <2>1. PICK r : r = obj[o].refers
    OBVIOUS
  <2>2. PICK i \in 0 .. n + 1 : In(Segs, i, o)
    BY <1>1 DEF Live, Layout, Placed
  <2>3. PICK k \in DOMAIN Segs[i] : Segs[i][k] = o
    BY <2>2 DEF In
  <2>4. CASE i = 0
    <3>1. Outlives(Segs, n, k, r)
      BY <1>1, <2>1, <2>3, <2>4 DEF Layout, Ordered
    <3>2. 0 \in 0 .. n /\ \A j \in 1 .. n : j \in 0 .. n
      BY <1>1
    <3>3. r = Outside \/ \E j \in 0 .. n : In(Segs, j, r)
      BY <3>1, <3>2 DEF Outlives, In
    <3> QED
      BY <1>6, <1>7, <2>1, <3>3
  <2>5. CASE i \in 1 .. n
    <3>1. Follows(Segs, Statics, i, k, r)
      BY <1>1, <2>1, <2>3, <2>5 DEF Layout, Ordered, SegOrdered
    <3>2. Points(Segs, Statics, i, r)
      BY <3>1 DEF Follows, Points, In
    <3> QED
      BY <1>8, <2>1, <2>5, <3>2
  <2>6. CASE i = n + 1
    <3>0. Segs[n + 1] \in Seq(Object) /\ n + 1 \in 1 .. n + 1 /\ (n + 1) - 1 = n
      BY <1>1 DEF Layout
    <3>1. Follows(Segs, Statics, n + 1, k, r)
      BY <1>1, <2>1, <2>3, <2>6, <3>0 DEF Layout, Ordered, SegOrdered
    <3>2. ASSUME NEW l \in DOMAIN Segs[n + 1], k < l, Segs[n + 1][l] = r
          PROVE  r # v
      <4>1. l # 1
        BY <2>3, <2>6, <3>0, <3>2
      <4>2. \A a \in DOMAIN Segs[n + 1], b \in DOMAIN Segs[n + 1] :
                Segs[n + 1][a] = Segs[n + 1][b] => a = b
        BY <1>1 DEF Layout, Placed
      <4> QED
        BY <1>5, <3>2, <4>1, <4>2
    <3>3. ASSUME Seen(Segs, Statics, n + 1, r)
          PROVE  r # v
      <4>1. \A j \in 1 .. n : j \in 0 .. n
        OBVIOUS
      <4> QED
        BY <1>6, <3>0, <3>3, <4>1 DEF Seen
    <3> QED
      BY <1>7, <2>1, <3>1, <3>2, <3>3 DEF Follows
  <2> QED
    BY <1>1, <2>4, <2>5, <2>6
<1> QED
  BY <1>2, <1>9, <1>10 DEF Targets

LEMMA InvNoDangling ==
    ASSUME RefsAssumption, RefsInv
    PROVE  NoDangling
<1>1. ASSUME top # NoRef
      PROVE  top.target \in Live \cup {Outside}
  <2> DEFINE n == Len(calls)
  <2>1. /\ n \in Nat /\ Layout(n, Segs, Statics, Aims, obj) /\ top.target \in Reach(top.target)
    BY DEF RefsInv, TypeInv, Laid, Segs, Statics, Aims, Reach
  <2>2. Points(Segs, Statics, n + 1, top.target)
    BY <1>1, <2>1, ReachIsPointed
  <2>3. n + 1 \in 0 .. n + 1 /\ \A j \in 1 .. (n + 1) - 1 : j \in 0 .. n + 1
    BY <2>1
  <2>4. top.target = Outside \/ \E j \in 0 .. n + 1 : In(Segs, j, top.target)
    BY <2>2, <2>3 DEF Points, Seen
  <2> QED
    BY <2>1, <2>4, PlacesLive DEF Live
<1> QED
  BY <1>1, TargetsAreLive, NothingPointsToTheTop DEF NoDangling

LEMMA CrossedStays ==
    ASSUME [Next]_vars, ~crossed'
    PROVE  ~crossed
<1>1. CASE UNCHANGED crossed
  BY <1>1
<1>2. CASE \E t, s : Borrow(t, s)
  BY <1>2 DEF Borrow
<1> QED
  BY <1>1, <1>2 DEF Next, vars, FromValue, FromValueNonStatic, FromRef, FromGuard, Map, MapRef,
     ClosureReturns, Drop, IntoOwned, Panic, Unwind, Catch, DropNext

LEMMA InvOwnedOnce ==
    ASSUME RefsAssumption, OwnInv
    PROVE  OwnedOnce
<1> DEFINE n == Len(calls)
<1>0. PICK c0, t0, ob0 : OwnLike(calls, top, obj, c0, t0, ob0) /\ Laid(dropping, c0, t0, ob0)
  BY DEF OwnInv
<1>1. /\ n \in Nat /\ Placed(n, Segs, obj) /\ calls \in Seq(CallType)
      /\ n + 1 \in 0 .. n + 1
  <2>1. n \in Nat /\ calls \in Seq(CallType)
    BY DEF OwnInv, Shape, TypeInv
  <2>2. \A i \in 0 .. n + 1 : i = 0 \/ i = n + 1 \/ i \in 1 .. n
    BY <2>1
  <2>3. SegsOf(dropping, c0, t0) = Segs
    BY <1>0, <2>1, <2>2 DEF OwnLike, SegsOf, Segs
  <2>4. Placed(n, Segs, ob0) /\ Segs \in [0 .. n + 1 -> Seq(Object)]
    BY <1>0, <2>3 DEF OwnLike, Laid, Layout
  <2>5. \A i \in 0 .. n + 1 : \A k \in DOMAIN Segs[i] : Segs[i][k] \in Object
    <3> SUFFICES ASSUME NEW i \in 0 .. n + 1, NEW k \in DOMAIN Segs[i]
                 PROVE  Segs[i][k] \in Object
      OBVIOUS
    <3>1. Segs[i] \in Seq(Object)
      BY <2>4
    <3> QED
      BY <3>1
  <2>6. Placed(n, Segs, obj)
    BY <1>0, <2>4, <2>5 DEF OwnLike, Placed
  <2> QED
    BY <2>1, <2>6
<1>2. ASSUME NEW i \in 0 .. n + 1
      PROVE  Seg(i) = Segs[i]
  <2>1. /\ DOMAIN calls = 1 .. n /\ Segs[0] = dropping /\ Segs[n + 1] = Owns(top)
        /\ \A j \in 1 .. n : Segs[j] = calls[j].handle
    BY <1>1, TopOf DEF Segs
  <2>2. CASE i = 0
    BY <2>1, <2>2 DEF Seg
  <2>3. CASE i \in 1 .. n
    <3>1. i # 0 /\ i \in DOMAIN calls
      BY <2>1, <2>3
    <3> QED
      BY <2>1, <2>3, <3>1 DEF Seg
  <2>4. CASE i = n + 1
    <3>1. i # 0 /\ i \notin DOMAIN calls
      BY <1>1, <2>1, <2>4
    <3> QED
      BY <2>1, <2>4, <3>1 DEF Seg, Owns
  <2> QED
    BY <1>1, <2>2, <2>3, <2>4
<1>3. SUFFICES ASSUME NEW o \in Object
               PROVE  Cardinality(Places(o)) = IF o \in Live THEN 1 ELSE 0
  BY DEF OwnedOnce
<1>4. \A x : x \in Places(o) <=>
             \E i \in 0 .. n + 1 : \E k \in DOMAIN Segs[i] : x = <<i, k>> /\ Segs[i][k] = o
  BY <1>2 DEF Places
<1> HIDE DEF n
<1>5. CASE o \in Live
  <2>1. PICK i \in 0 .. n + 1 : In(Segs, i, o)
    BY <1>1, <1>5 DEF Live, Placed
  <2>2. PICK k \in DOMAIN Segs[i] : Segs[i][k] = o
    BY <2>1 DEF In
  <2>3. \A x \in Places(o) : x = <<i, k>>
    BY <1>1, <1>4, <2>2 DEF Placed
  <2>4. <<i, k>> \in Places(o)
    BY <1>4, <2>2
  <2>5. Places(o) = {<<i, k>>}
    BY <2>3, <2>4
  <2> QED
    BY <1>5, <2>5, FS_Singleton
<1>6. CASE o \notin Live
  <2>1. \A x : x \notin Places(o)
    BY <1>1, <1>4, <1>6 DEF Live, Placed
  <2>2. Places(o) = {}
    BY <2>1
  <2> QED
    BY <1>6, <2>2, FS_EmptySet
<1> QED
  BY <1>5, <1>6

-----------------------------------------------------------------------------
(* Theorems. *)

\* Everything that is made is owned in one place.
THEOREM SpecOwnInv == RefsAssumption /\ Spec => []OwnInv
<1> SUFFICES ASSUME RefsAssumption
             PROVE  Spec => []OwnInv
  OBVIOUS
<1>1. Init => OwnInv
  BY InitRefsInv, InvOwnInv
<1>2. OwnInv /\ [Next]_vars => OwnInv'
  BY NextOwnInv
<1> QED
  BY <1>1, <1>2, PTL DEF Spec

\* As long as nothing is borrowed across a static StateRef, the layout of what is owned is in
\* the order it may be dropped in.
THEOREM SpecRefsInv == RefsAssumption /\ Spec => [](~crossed => RefsInv)
<1> SUFFICES ASSUME RefsAssumption
             PROVE  Spec => [](~crossed => RefsInv)
  OBVIOUS
<1>1. Init => RefsInv
  BY InitRefsInv
<1>2. ASSUME ~crossed => RefsInv, [Next]_vars, ~crossed'
      PROVE  RefsInv'
  <2>1. ~crossed
    BY <1>2, CrossedStays
  <2> QED
    BY <1>2, <2>1, NextRefsInv
<1> QED
  BY <1>1, <1>2, PTL DEF Spec

\* NoDangling, for every number of objects and calls, as long as no closure over a static
\* StateRef has borrowed from the closures around it: neither a StateRef, nor what a closure
\* of map_ref was given, nor an object that is still to be dropped refers to what was dropped.
THEOREM SpecNoDangling == RefsAssumption /\ Spec => [](~crossed => NoDangling)
<1> SUFFICES ASSUME RefsAssumption
             PROVE  Spec => [](~crossed => NoDangling)
  OBVIOUS
<1>1. Spec => [](~crossed => RefsInv)
  BY SpecRefsInv
<1>2. RefsInv => NoDangling
  BY InvNoDangling
<1> QED
  BY <1>1, <1>2, PTL

\* OwnedOnce, for every number of objects and calls, whatever is borrowed: what lives is
\* dropped by exactly one StateRef, map_ref or drop under way, panics included.
THEOREM SpecOwnedOnce == RefsAssumption /\ Spec => []OwnedOnce
<1> SUFFICES ASSUME RefsAssumption
             PROVE  Spec => []OwnedOnce
  OBVIOUS
<1>1. Spec => []OwnInv
  BY SpecOwnInv
<1>2. OwnInv => OwnedOnce
  BY InvOwnedOnce
<1> QED
  BY <1>1, <1>2, PTL

\* RefsStayValid, for every number of objects and calls.
THEOREM SpecRefsStayValid == RefsAssumption /\ Spec => []RefsStayValid
<1> SUFFICES ASSUME RefsAssumption
             PROVE  Spec => []RefsStayValid
  OBVIOUS
<1>1. (~crossed => NoDangling) /\ OwnedOnce => RefsStayValid
  BY DEF RefsStayValid
<1> QED
  BY <1>1, SpecNoDangling, SpecOwnedOnce, PTL
=============================================================================
