----------------------------- MODULE PartsProofs -----------------------------
(***************************************************************************)
(* Theorems about the parts: what was proved of the nodes of change feeds  *)
(* and of references to state holds here too, queues keep order, contexts  *)
(* are lent once, and who waits has left a waker.                          *)
(*                                                                         *)
(* The names of FeedNodesProofs and of FeedNodes stand for the same        *)
(* formulas here, but the provers have to be shown that they do.           *)
(*                                                                         *)
(* ContextChannel, for any channels and contexts, any depth of calls and   *)
(* any panics: a channel is in the state its innermost call gave it        *)
(* (ChannelFollowsCalls), and no two try_with callbacks have one context   *)
(* at a time unless the first has passed it on (LentOnce).                 *)
(* LentOnce alone is not inductive: that try_with finds a context in a     *)
(* channel does not say that nobody has it.  What does is that a try_with  *)
(* has borrowed from the very scope that was the last to have the context, *)
(* and through the same channel (Nested), so that a scope with a later     *)
(* call with its context is hidden by a later call on its channel.         *)
(*                                                                         *)
(* PhaseQueues, for any phases and items.  What a call does to one queue   *)
(* is seen in the whole order by splitting the array there: the items      *)
(* before, in and behind a phase, put together, are the order, and the     *)
(* filters of PhaseOrder find the three again (OrderParts).  Where the     *)
(* array starts and ends makes no difference (SameQueues).                 *)
(***************************************************************************)
EXTENDS Parts, CommonLemmas

FeedTheorems == INSTANCE FeedNodesProofs
RefTheorems == INSTANCE StateRefsProofs

-----------------------------------------------------------------------------
(* Least and greatest numbers. *)

LEMMA MinOfPair ==
    ASSUME NEW x \in Int, NEW y \in Int
    PROVE  /\ Queues!Min({x, y}) \in {x, y}
           /\ Queues!Min({x, y}) <= x /\ Queues!Min({x, y}) <= y
<1>1. \E i \in {x, y} : \A j \in {x, y} : i <= j
  OBVIOUS
<1> QED
  BY <1>1 DEF Queues!Min

LEMMA MaxOfPair ==
    ASSUME NEW x \in Int, NEW y \in Int
    PROVE  /\ Queues!Max({x, y}) \in {x, y}
           /\ x <= Queues!Max({x, y}) /\ y <= Queues!Max({x, y})
<1>1. \E i \in {x, y} : \A j \in {x, y} : i >= j
  OBVIOUS
<1>2. /\ Queues!Max({x, y}) \in {x, y}
      /\ Queues!Max({x, y}) >= x /\ Queues!Max({x, y}) >= y
  BY <1>1 DEF Queues!Max
<1> QED
  BY <1>2

LEMMA MinOfRange ==
    ASSUME NEW a \in Int, NEW b \in Int, NEW S \in SUBSET (a .. b), S # {}
    PROVE  Queues!Min(S) \in S /\ \A x \in S : Queues!Min(S) <= x
<1> DEFINE T == {x - a : x \in S}
<1>1. T \in SUBSET Nat /\ T # {}
  <2>1. \A x \in S : x - a \in Nat
    OBVIOUS
  <2> QED
    BY <2>1
<1>2. PICK t \in T : \A u \in T : t <= u
  <2> HIDE DEF T
  <2> QED
    BY <1>1, LeastNat
<1>3. PICK i \in S : t = i - a
  OBVIOUS
<1>4. \A j \in S : i <= j
  <2> SUFFICES ASSUME NEW j \in S
               PROVE  i <= j
    OBVIOUS
  <2>1. i - a <= j - a
    BY <1>2, <1>3
  <2>2. i \in Int /\ j \in Int
    OBVIOUS
  <2> QED
    BY <2>1, <2>2
<1> QED
  BY <1>4 DEF Queues!Min

LEMMA MaxOfRange ==
    ASSUME NEW a \in Int, NEW b \in Int, NEW S \in SUBSET (a .. b), S # {}
    PROVE  Queues!Max(S) \in S /\ \A x \in S : x <= Queues!Max(S)
<1> DEFINE T == {b - x : x \in S}
<1>1. T \in SUBSET Nat /\ T # {}
  <2>1. \A x \in S : b - x \in Nat
    OBVIOUS
  <2> QED
    BY <2>1
<1>2. PICK t \in T : \A u \in T : t <= u
  <2> HIDE DEF T
  <2> QED
    BY <1>1, LeastNat
<1>3. PICK i \in S : t = b - i
  OBVIOUS
<1>4. \A j \in S : i >= j
  <2> SUFFICES ASSUME NEW j \in S
               PROVE  i >= j
    OBVIOUS
  <2>1. b - i <= b - j
    BY <1>2, <1>3
  <2>2. i \in Int /\ j \in Int
    OBVIOUS
  <2> QED
    BY <2>1, <2>2
<1>5. Queues!Max(S) \in S /\ \A x \in S : Queues!Max(S) >= x
  BY <1>4 DEF Queues!Max
<1> QED
  BY <1>5

\* There is one of each.
LEMMA MinIs ==
    ASSUME NEW S \in SUBSET Int, NEW i \in S, \A j \in S : i <= j
    PROVE  i = Queues!Min(S)
<1>1. Queues!Min(S) \in S /\ \A j \in S : Queues!Min(S) <= j
  BY DEF Queues!Min
<1>2. PICK k \in Int : k = Queues!Min(S)
  BY <1>1
<1>3. i <= k /\ k <= i /\ i \in Int
  BY <1>1, <1>2
<1> QED
  BY <1>2, <1>3

LEMMA MaxIs ==
    ASSUME NEW S \in SUBSET Int, NEW i \in S, \A j \in S : j <= i
    PROVE  i = Queues!Max(S)
<1>0. \A j \in S : i >= j
  OBVIOUS
<1>1. Queues!Max(S) \in S /\ \A j \in S : Queues!Max(S) >= j
  BY <1>0 DEF Queues!Max
<1>2. PICK k \in Int : k = Queues!Max(S)
  BY <1>1
<1>3. i <= k /\ k <= i /\ i \in Int
  BY <1>1, <1>2
<1> QED
  BY <1>2, <1>3

-----------------------------------------------------------------------------
(* Frames of context channels. *)

StateType == {Channels!Inactive, Channels!Borrowed}
                \cup {Channels!Available(c) : c \in Context}
FrameType == [on : Channel, call : {"scope", "try_with"}, ptr : Context, restore : StateType]

\* Frame i is the last on channel ch, or with context c, of the first d frames of s.
LastOn(s, d, ch, i) ==
    i \in 1 .. d /\ s[i].on = ch /\ \A m \in i + 1 .. d : s[m].on # ch
LastWith(s, d, c, i) ==
    i \in 1 .. d /\ s[i].ptr = c /\ \A m \in i + 1 .. d : s[m].ptr # c

\* The state v of channel ch when the first d frames of s are running.
Shows(s, d, ch, v) ==
    \/ v = Channels!Inactive /\ \A m \in 1 .. d : s[m].on # ch
    \/ \E i \in 1 .. d : LastOn(s, d, ch, i) /\ v = Channels!Given(s[i])

\* Frame j was entered as scope and try_with allow, and its guard has what there was.
Nested(s, j) ==
    /\ Shows(s, j - 1, s[j].on, s[j].restore)
    /\ s[j].call = "scope" =>
          \/ \A m \in 1 .. j - 1 : s[m].ptr # s[j].ptr
          \/ \E i \in 1 .. j - 1 : LastWith(s, j - 1, s[j].ptr, i) /\ s[i].call = "try_with"
    /\ s[j].call = "try_with" =>
          \E i \in 1 .. j - 1 : /\ LastWith(s, j - 1, s[j].ptr, i) /\ LastOn(s, j - 1, s[j].on, i)
                                /\ s[i].call = "scope"

StackInv ==
    /\ stack \in Seq(FrameType)
    /\ \A j \in DOMAIN stack : Nested(stack, j)

\* What each channel's state is.
StateInv ==
    /\ state \in [Channel -> StateType]
    /\ \A ch \in Channel : Shows(stack, Len(stack), ch, state[ch])

ChannelInv == StackInv /\ StateInv /\ panicking \in BOOLEAN

-----------------------------------------------------------------------------
(* The last element of a sequence that passes a test. *)

LEMMA GreatestIs ==
    ASSUME NEW n \in Nat, NEW I \in SUBSET (1 .. n), I # {}
    PROVE  Channels!Max(I) \in I /\ \A k \in I : k <= Channels!Max(I)
<1>1. Channels!Max(I) = Queues!Max(I)
  BY DEF Channels!Max, Queues!Max
<1>2. 1 \in Int /\ n \in Int
  OBVIOUS
<1> QED
  BY <1>1, <1>2, MaxOfRange

\* What CallOn and CallWith find, in terms of LastOn and LastWith.
LEMMA LastOnIs ==
    ASSUME stack \in Seq(FrameType), NEW ch
    PROVE  LET i == Channels!CallOn(ch)
           IN  \/ i = 0 /\ \A m \in 1 .. Len(stack) : stack[m].on # ch
               \/ i # 0 /\ LastOn(stack, Len(stack), ch, i)
<1> DEFINE I == {i \in 1 .. Len(stack) : stack[i].on = ch}
           i == Channels!CallOn(ch)
<1>1. i = IF I # {} THEN Channels!Max(I) ELSE 0
  BY DEF Channels!CallOn, Channels!SelectLastInSeq
<1>2. CASE I = {}
  BY <1>1, <1>2
<1>3. CASE I # {}
  <2>1. Len(stack) \in Nat /\ I \in SUBSET (1 .. Len(stack))
    OBVIOUS
  <2>2. Channels!Max(I) \in I /\ \A k \in I : k <= Channels!Max(I)
    <3> HIDE DEF I
    <3> QED
      BY <1>3, <2>1, GreatestIs
  <2>3. PICK m : m = Channels!Max(I)
    OBVIOUS
  <2>4. m \in 1 .. Len(stack) /\ stack[m].on = ch /\ \A k \in I : k <= m
    BY <2>2, <2>3
  <2>5. ASSUME NEW k \in m + 1 .. Len(stack)
        PROVE  stack[k].on # ch
    <3>1. k \in 1 .. Len(stack) /\ ~(k <= m)
      BY <2>1, <2>4
    <3> QED
      BY <2>4, <3>1
  <2>6. LastOn(stack, Len(stack), ch, m) /\ m # 0
    BY <2>1, <2>4, <2>5 DEF LastOn
  <2> QED
    BY <1>1, <1>3, <2>3, <2>6
<1> QED
  BY <1>2, <1>3

LEMMA LastWithIs ==
    ASSUME stack \in Seq(FrameType), NEW c, NEW d \in 0 .. Len(stack)
    PROVE  LET i == Channels!CallWith(c, d)
           IN  \/ i = 0 /\ \A m \in 1 .. d : stack[m].ptr # c
               \/ i # 0 /\ LastWith(stack, d, c, i)
<1> DEFINE I == {i \in 1 .. d : stack[i].ptr = c}
           i == Channels!CallWith(c, d)
<1>1. i = IF I # {} THEN Channels!Max(I) ELSE 0
  BY DEF Channels!CallWith, Channels!SelectLastInSubSeq
<1>2. CASE I = {}
  BY <1>1, <1>2
<1>3. CASE I # {}
  <2>1. d \in Nat /\ I \in SUBSET (1 .. d)
    OBVIOUS
  <2>2. Channels!Max(I) \in I /\ \A k \in I : k <= Channels!Max(I)
    <3> HIDE DEF I
    <3> QED
      BY <1>3, <2>1, GreatestIs
  <2>3. PICK m : m = Channels!Max(I)
    OBVIOUS
  <2>4. m \in 1 .. d /\ stack[m].ptr = c /\ \A k \in I : k <= m
    BY <2>2, <2>3
  <2>5. ASSUME NEW k \in m + 1 .. d
        PROVE  stack[k].ptr # c
    <3>1. k \in 1 .. d /\ ~(k <= m)
      BY <2>1, <2>4
    <3> QED
      BY <2>4, <3>1
  <2>6. LastWith(stack, d, c, m) /\ m # 0
    BY <2>1, <2>4, <2>5 DEF LastWith
  <2> QED
    BY <1>1, <1>3, <2>3, <2>6
<1> QED
  BY <1>2, <1>3

-----------------------------------------------------------------------------
(* Stacks. *)

SamePrefix(t, s, d) == \A m \in 1 .. d : t[m] = s[m]

\* What is said of the first d frames depends on them only.
LEMMA PrefixShows ==
    ASSUME NEW s, NEW t, NEW d \in Nat, SamePrefix(t, s, d), NEW ch, NEW v, Shows(s, d, ch, v)
    PROVE  Shows(t, d, ch, v)
BY DEF SamePrefix, Shows, LastOn

LEMMA PrefixNested ==
    ASSUME NEW s, NEW t, NEW j \in Nat \ {0}, SamePrefix(t, s, j), Nested(s, j)
    PROVE  Nested(t, j)
<1>1. SamePrefix(t, s, j - 1) /\ j - 1 \in Nat /\ t[j] = s[j]
  BY DEF SamePrefix
<1>2. Shows(t, j - 1, t[j].on, t[j].restore)
  BY <1>1, PrefixShows DEF Nested
<1>3. t[j].call = "scope" =>
          \/ \A m \in 1 .. j - 1 : t[m].ptr # t[j].ptr
          \/ \E i \in 1 .. j - 1 : LastWith(t, j - 1, t[j].ptr, i) /\ t[i].call = "try_with"
  BY <1>1 DEF Nested, SamePrefix, LastWith
<1>4. t[j].call = "try_with" =>
          \E i \in 1 .. j - 1 : /\ LastWith(t, j - 1, t[j].ptr, i) /\ LastOn(t, j - 1, t[j].on, i)
                                /\ t[i].call = "scope"
  BY <1>1 DEF Nested, SamePrefix, LastWith, LastOn
<1> QED
  BY <1>2, <1>3, <1>4 DEF Nested

\* A channel shows one state.
LEMMA ShowsOne ==
    ASSUME NEW s, NEW d \in Nat, NEW ch, NEW v, NEW w, Shows(s, d, ch, v), Shows(s, d, ch, w)
    PROVE  v = w
<1>1. ASSUME NEW i \in 1 .. d, NEW k \in 1 .. d, LastOn(s, d, ch, i), LastOn(s, d, ch, k)
      PROVE  i = k
  BY <1>1 DEF LastOn
<1>2. CASE \A m \in 1 .. d : s[m].on # ch
  BY <1>2 DEF Shows, LastOn
<1>3. CASE ~ \A m \in 1 .. d : s[m].on # ch
  <2>1. PICK i \in 1 .. d : LastOn(s, d, ch, i) /\ v = Channels!Given(s[i])
    BY <1>3 DEF Shows
  <2>2. PICK k \in 1 .. d : LastOn(s, d, ch, k) /\ w = Channels!Given(s[k])
    BY <1>3 DEF Shows
  <2> QED
    BY <1>1, <2>1, <2>2
<1> QED
  BY <1>2, <1>3

\* What a channel lends, its scope was the last to have.
LEMMA LenderIsLast ==
    ASSUME StackInv, NEW ch, NEW k, LastOn(stack, Len(stack), ch, k), stack[k].call = "scope"
    PROVE  LastWith(stack, Len(stack), stack[k].ptr, k)
<1>1. Len(stack) \in Nat /\ k \in 1 .. Len(stack)
  BY DEF StackInv, LastOn
<1> SUFFICES ASSUME NEW l \in k + 1 .. Len(stack), stack[l].ptr = stack[k].ptr
             PROVE  FALSE
  BY <1>1 DEF LastWith
<1> DEFINE T == {m \in k + 1 .. Len(stack) : stack[m].ptr = stack[k].ptr}
<1>2. PICK j \in T : \A m \in T : j <= m
  <2>1. T \in SUBSET Nat /\ T # {}
    BY <1>1
  <2> HIDE DEF T
  <2> QED
    BY <2>1, LeastNat
<1>3. j \in 1 .. Len(stack) /\ k \in 1 .. j - 1 /\ stack[j].ptr = stack[k].ptr
  BY <1>1
<1>4. \A m \in k + 1 .. j - 1 : stack[m].ptr # stack[k].ptr
  BY <1>1, <1>2
<1>5. ASSUME NEW i, LastWith(stack, j - 1, stack[j].ptr, i)
      PROVE  i = k
  <2>1. i \in 1 .. j - 1 /\ stack[i].ptr = stack[k].ptr
    BY <1>3, <1>5 DEF LastWith
  <2>2. ~(i < k)
    BY <1>3, <1>5, <2>1 DEF LastWith
  <2>3. ~(k < i)
    BY <1>3, <1>4, <2>1
  <2> QED
    BY <1>3, <2>1, <2>2, <2>3
<1>6. Nested(stack, j)
  BY <1>3 DEF StackInv
<1>7. CASE stack[j].call = "scope"
  <2>1. PICK i \in 1 .. j - 1 : LastWith(stack, j - 1, stack[j].ptr, i) /\ stack[i].call = "try_with"
    BY <1>3, <1>6, <1>7 DEF Nested
  <2> QED
    BY <1>5, <2>1
<1>8. CASE stack[j].call = "try_with"
  <2>1. PICK i \in 1 .. j - 1 : /\ LastWith(stack, j - 1, stack[j].ptr, i)
                                /\ LastOn(stack, j - 1, stack[j].on, i)
    BY <1>6, <1>8 DEF Nested
  <2>2. stack[j].on = stack[k].on
    BY <1>5, <2>1 DEF LastOn
  <2> QED
    BY <1>3, <2>2 DEF LastOn
<1>9. stack[j] \in FrameType
  BY <1>3 DEF StackInv
<1> QED
  BY <1>7, <1>8, <1>9 DEF FrameType

-----------------------------------------------------------------------------
(* Steps. *)

LEMMA EnterPreservesInv ==
    ASSUME ChannelInv, NEW ch \in Channel, NEW call \in {"scope", "try_with"}, NEW c \in Context,
           Channels!Enter(ch, call, c),
           call = "scope" =>
              \/ \A m \in 1 .. Len(stack) : stack[m].ptr # c
              \/ \E i \in 1 .. Len(stack) : /\ LastWith(stack, Len(stack), c, i)
                                            /\ stack[i].call = "try_with",
           call = "try_with" =>
              \E i \in 1 .. Len(stack) : /\ LastWith(stack, Len(stack), c, i)
                                         /\ LastOn(stack, Len(stack), ch, i)
                                         /\ stack[i].call = "scope"
    PROVE  ChannelInv'
<1>1. PICK f, t, n : /\ f = [on |-> ch, call |-> call, ptr |-> c, restore |-> state[ch]]
                     /\ t = Append(stack, f) /\ n = Len(stack)
  OBVIOUS
<1>2. /\ stack' = t /\ state' = [state EXCEPT ![ch] = Channels!Given(f)] /\ panicking' = panicking
  BY <1>1 DEF Channels!Enter
<1>3. stack \in Seq(FrameType) /\ n \in Nat /\ state \in [Channel -> StateType]
  BY <1>1 DEF ChannelInv, StackInv, StateInv, StateType
<1>4. f \in FrameType /\ f.on = ch /\ f.call = call /\ f.ptr = c /\ f.restore = state[ch]
  BY <1>1, <1>3 DEF FrameType, StateType
<1>5. /\ t \in Seq(FrameType) /\ Len(t) = n + 1 /\ t[n + 1] = f
      /\ \A m \in 1 .. n : t[m] = stack[m]
  BY <1>1, <1>3, <1>4
<1>6. SamePrefix(t, stack, n)
  BY <1>5 DEF SamePrefix
<1>7. ASSUME NEW j \in 1 .. n
      PROVE  Nested(t, j)
  <2>1. SamePrefix(t, stack, j) /\ j \in Nat \ {0}
    BY <1>3, <1>5 DEF SamePrefix
  <2>2. Nested(stack, j)
    BY <1>1, <1>3 DEF ChannelInv, StackInv
  <2> QED
    BY <2>1, <2>2, PrefixNested
<1>8. Nested(t, n + 1)
  <2>1. Shows(t, n, ch, f.restore)
    <3>1. Shows(stack, n, ch, f.restore)
      BY <1>1, <1>4 DEF ChannelInv, StateInv
    <3> QED
      BY <1>3, <1>6, <3>1, PrefixShows
  <2>2. call = "scope" =>
           \/ \A m \in 1 .. n : t[m].ptr # c
           \/ \E i \in 1 .. n : LastWith(t, n, c, i) /\ t[i].call = "try_with"
    BY <1>1, <1>3, <1>5 DEF LastWith
  <2>3. call = "try_with" =>
           \E i \in 1 .. n : LastWith(t, n, c, i) /\ LastOn(t, n, ch, i) /\ t[i].call = "scope"
    <3>1. ASSUME NEW i \in 1 .. n, LastWith(stack, n, c, i), LastOn(stack, n, ch, i)
          PROVE  LastWith(t, n, c, i) /\ LastOn(t, n, ch, i) /\ t[i] = stack[i]
      BY <1>3, <1>5, <3>1 DEF LastWith, LastOn
    <3> QED
      BY <1>1, <3>1
  <2>4. (n + 1) - 1 = n
    BY <1>3
  <2> QED
    BY <1>4, <1>5, <2>1, <2>2, <2>3, <2>4 DEF Nested
<1>9. StackInv'
  <2>1. \A j \in 1 .. n + 1 : Nested(t, j)
    <3>1. \A j \in 1 .. n + 1 : j \in 1 .. n \/ j = n + 1
      BY <1>3
    <3> QED
      BY <1>7, <1>8, <3>1
  <2>2. DOMAIN t = 1 .. n + 1
    BY <1>5
  <2> QED
    BY <1>2, <1>5, <2>1, <2>2 DEF StackInv
<1>10. ASSUME NEW p \in Channel
       PROVE  Shows(t, n + 1, p, state'[p])
  <2>1. CASE p = ch
    <3>1. LastOn(t, n + 1, ch, n + 1)
      BY <1>3, <1>4, <1>5 DEF LastOn
    <3>2. state'[p] = Channels!Given(t[n + 1]) /\ n + 1 \in 1 .. n + 1
      BY <1>2, <1>3, <1>5, <2>1
    <3> QED
      BY <2>1, <3>1, <3>2 DEF Shows
  <2>2. CASE p # ch
    <3>1. PICK v : v = state[p]
      OBVIOUS
    <3>2. Shows(stack, n, p, v) /\ state'[p] = v
      BY <1>1, <1>2, <1>3, <2>2, <3>1 DEF ChannelInv, StateInv
    <3>3. Shows(t, n, p, v)
      BY <1>3, <1>6, <3>2, PrefixShows
    <3>4. \A m \in 1 .. n + 1 : m \in 1 .. n \/ (m = n + 1 /\ t[m].on # p)
      BY <1>3, <1>4, <1>5, <2>2
    <3>5. CASE v = Channels!Inactive /\ \A m \in 1 .. n : t[m].on # p
      BY <3>2, <3>4, <3>5 DEF Shows
    <3>6. ASSUME NEW i \in 1 .. n, LastOn(t, n, p, i), v = Channels!Given(t[i])
          PROVE  Shows(t, n + 1, p, v)
      <4>1. i \in 1 .. n + 1 /\ t[i].on = p
        BY <1>3, <3>6 DEF LastOn
      <4>2. \A m \in i + 1 .. n + 1 : t[m].on # p
        <5>1. \A m \in i + 1 .. n + 1 : m \in i + 1 .. n \/ m = n + 1
          BY <1>3
        <5> QED
          BY <1>4, <1>5, <2>2, <3>6, <5>1 DEF LastOn
      <4>3. LastOn(t, n + 1, p, i)
        BY <4>1, <4>2 DEF LastOn
      <4> QED
        BY <3>6, <4>1, <4>3 DEF Shows
    <3> QED
      BY <3>2, <3>3, <3>5, <3>6 DEF Shows
  <2> QED
    BY <2>1, <2>2
<1>11. StateInv'
  <2>1. Channels!Given(f) \in StateType
    BY <1>4 DEF Channels!Given, StateType
  <2>2. state' \in [Channel -> StateType]
    BY <1>2, <1>3, <2>1
  <2> QED
    BY <1>2, <1>5, <1>10, <2>2 DEF StateInv, StateType
<1> QED
  BY <1>2, <1>9, <1>11 DEF ChannelInv

LEMMA LeavePreservesInv ==
    ASSUME ChannelInv, Channels!Leave
    PROVE  ChannelInv'
<1>1. PICK f, t, n : f = Channels!Last(stack) /\ t = Channels!Front(stack) /\ n = Len(stack)
  OBVIOUS
<1>2. /\ stack # <<>> /\ stack' = t /\ panicking' = panicking
      /\ state' = [state EXCEPT ![f.on] = f.restore]
  BY <1>1 DEF Channels!Leave, Channels!Restored
<1>3. stack \in Seq(FrameType) /\ n \in Nat \ {0} /\ state \in [Channel -> StateType]
  BY <1>1, <1>2 DEF ChannelInv, StackInv, StateInv, StateType
<1>4. f = stack[n] /\ f \in FrameType /\ t = SubSeq(stack, 1, n - 1)
  BY <1>1, <1>3 DEF Channels!Last, Channels!Front
<1>5. /\ t \in Seq(FrameType) /\ Len(t) = n - 1 /\ n - 1 \in Nat
      /\ \A m \in 1 .. n - 1 : t[m] = stack[m]
  BY <1>1, <1>3, <1>4
<1>6. StackInv'
  <2>1. ASSUME NEW j \in 1 .. n - 1
        PROVE  Nested(t, j)
    <3>1. SamePrefix(t, stack, j) /\ j \in Nat \ {0} /\ j \in DOMAIN stack
      BY <1>1, <1>3, <1>5 DEF SamePrefix
    <3>2. Nested(stack, j)
      BY <3>1 DEF ChannelInv, StackInv
    <3> QED
      BY <3>1, <3>2, PrefixNested
  <2>2. DOMAIN t = 1 .. n - 1
    BY <1>5
  <2> QED
    BY <1>2, <1>5, <2>1, <2>2 DEF StackInv
<1>7. ASSUME NEW p \in Channel
      PROVE  Shows(t, n - 1, p, state'[p])
  <2>1. SamePrefix(t, stack, n - 1)
    BY <1>5 DEF SamePrefix
  <2>2. PICK v : v = state'[p]
    OBVIOUS
  <2>3. Shows(stack, n - 1, p, v)
    <3>1. CASE p = f.on
      <4>1. Nested(stack, n) /\ v = f.restore
        BY <1>1, <1>2, <1>3, <2>2, <3>1 DEF ChannelInv, StackInv
      <4> QED
        BY <1>4, <3>1, <4>1 DEF Nested
    <3>2. CASE p # f.on
      <4>1. Shows(stack, n, p, v)
        BY <1>1, <1>2, <1>3, <2>2, <3>2 DEF ChannelInv, StateInv
      <4>2. CASE v = Channels!Inactive /\ \A m \in 1 .. n : stack[m].on # p
        BY <1>3, <4>2 DEF Shows
      <4>3. ASSUME NEW i \in 1 .. n, LastOn(stack, n, p, i), v = Channels!Given(stack[i])
            PROVE  Shows(stack, n - 1, p, v)
        <5>1. i # n
          BY <1>4, <3>2, <4>3 DEF LastOn
        <5>2. i \in 1 .. n - 1 /\ LastOn(stack, n - 1, p, i)
          BY <1>3, <4>3, <5>1 DEF LastOn
        <5> QED
          BY <4>3, <5>2 DEF Shows
      <4> QED
        BY <4>1, <4>2, <4>3 DEF Shows
    <3> QED
      BY <3>1, <3>2
  <2> QED
    BY <1>5, <2>1, <2>2, <2>3, PrefixShows
<1>8. StateInv'
  <2>1. f.restore \in StateType
    BY <1>4 DEF FrameType, StateType
  <2>2. state' \in [Channel -> StateType]
    BY <1>2, <1>3, <2>1
  <2> QED
    BY <1>2, <1>5, <1>7, <2>2 DEF StateInv, StateType
<1> QED
  BY <1>2, <1>6, <1>8 DEF ChannelInv

LEMMA ScopePreservesInv ==
    ASSUME ChannelInv, NEW ch \in Channel, NEW c \in Context, Channels!Scope(ch, c)
    PROVE  ChannelInv'
<1>1. stack \in Seq(FrameType)
  BY DEF ChannelInv, StackInv
<1>2. PICK i : i = Channels!CallWith(c, Len(stack))
  OBVIOUS
<1>3. Channels!Enter(ch, "scope", c) /\ (i # 0 => stack[i].call = "try_with")
  BY <1>2 DEF Channels!Scope, Channels!Mine
<1>4. \/ i = 0 /\ \A m \in 1 .. Len(stack) : stack[m].ptr # c
      \/ i # 0 /\ LastWith(stack, Len(stack), c, i)
  <2>1. Len(stack) \in 0 .. Len(stack)
    BY <1>1
  <2> QED
    BY <1>1, <1>2, <2>1, LastWithIs
<1>5. \/ \A m \in 1 .. Len(stack) : stack[m].ptr # c
      \/ \E k \in 1 .. Len(stack) : LastWith(stack, Len(stack), c, k) /\ stack[k].call = "try_with"
  BY <1>3, <1>4 DEF LastWith
<1> QED
  BY <1>3, <1>5, EnterPreservesInv

LEMMA TryWithPreservesInv ==
    ASSUME ChannelInv, NEW ch \in Channel, Channels!TryWith(ch)
    PROVE  ChannelInv'
<1>1. PICK v, n : v = state[ch] /\ n = Len(stack)
  OBVIOUS
<1>2. v.is = "Available" /\ Channels!Enter(ch, "try_with", v.ptr)
  BY <1>1 DEF Channels!TryWith
<1>3. v \in StateType /\ Shows(stack, n, ch, v) /\ stack \in Seq(FrameType) /\ n \in Nat
  BY <1>1 DEF ChannelInv, StackInv, StateInv, StateType
<1>4. v # Channels!Inactive /\ v # Channels!Borrowed
  BY <1>2 DEF Channels!Inactive, Channels!Borrowed
<1>5. PICK i \in 1 .. n : LastOn(stack, n, ch, i) /\ v = Channels!Given(stack[i])
  BY <1>3, <1>4 DEF Shows
<1>6. stack[i].call = "scope" /\ v.ptr = stack[i].ptr /\ stack[i].ptr \in Context
  <2>1. stack[i] \in FrameType
    BY <1>1, <1>3
  <2> QED
    BY <1>4, <1>5, <2>1 DEF Channels!Given, FrameType, Channels!Available
<1>7. LastWith(stack, n, v.ptr, i)
  BY <1>1, <1>5, <1>6, LenderIsLast DEF ChannelInv
<1> QED
  BY <1>1, <1>2, <1>5, <1>6, <1>7, EnterPreservesInv

-----------------------------------------------------------------------------
(* The theorems. *)

LEMMA InitChannelInv == Channels!Init => ChannelInv
<1> SUFFICES ASSUME Channels!Init
             PROVE  ChannelInv
  OBVIOUS
<1>1. stack = <<>> /\ state = [ch \in Channel |-> Channels!Inactive] /\ panicking = FALSE
  BY DEF Channels!Init
<1>2. Len(stack) = 0 /\ DOMAIN stack = {} /\ 1 .. 0 = {}
  BY <1>1
<1>3. StackInv
  BY <1>1, <1>2 DEF StackInv
<1>4. StateInv
  BY <1>1, <1>2 DEF StateInv, StateType, Shows
<1> QED
  BY <1>1, <1>3, <1>4 DEF ChannelInv

LEMMA NextChannelInv == ChannelInv /\ [Channels!Next]_(Channels!vars) => ChannelInv'
<1> SUFFICES ASSUME ChannelInv, [Channels!Next]_(Channels!vars)
             PROVE  ChannelInv'
  OBVIOUS
<1>1. ASSUME NEW ch \in Channel, NEW c \in Context, Channels!Scope(ch, c)
      PROVE  ChannelInv'
  BY <1>1, ScopePreservesInv
<1>2. ASSUME NEW ch \in Channel, Channels!TryWith(ch)
      PROVE  ChannelInv'
  BY <1>2, TryWithPreservesInv
<1>3. ASSUME state' = state, stack' = stack, panicking' \in BOOLEAN
      PROVE  ChannelInv'
  BY <1>3 DEF ChannelInv, StackInv, StateInv
<1>4. ASSUME NEW ch \in Channel, Channels!TryWithBorrowed(ch)
      PROVE  ChannelInv'
  BY <1>3, <1>4 DEF Channels!TryWithBorrowed
<1>5. CASE Channels!Panic \/ Channels!Catch
  BY <1>3, <1>5 DEF Channels!Panic, Channels!Catch
<1>6. CASE Channels!Leave
  BY <1>6, LeavePreservesInv
<1>7. CASE UNCHANGED Channels!vars
  BY <1>3, <1>7 DEF Channels!vars, ChannelInv
<1> QED
  BY <1>1, <1>2, <1>4, <1>5, <1>6, <1>7 DEF Channels!Next

THEOREM SpecChannelInv == Channels!Spec => []ChannelInv
  BY InitChannelInv, NextChannelInv, PTL DEF Channels!Spec

\* A channel is in the state its innermost call gave it, and inactive outside of all calls
\* (StateGuard), however calls nest, return and unwind.
THEOREM SpecChannelFollowsCalls == Channels!Spec => []Channels!ChannelFollowsCalls
<1>1. ASSUME ChannelInv
      PROVE  Channels!ChannelFollowsCalls
  <2> SUFFICES ASSUME NEW ch \in Channel,
                      NEW i, i = Channels!CallOn(ch)
               PROVE  state[ch] = IF i = 0 THEN Channels!Inactive ELSE Channels!Given(stack[i])
    BY DEF Channels!ChannelFollowsCalls
  <2>1. /\ Shows(stack, Len(stack), ch, state[ch]) /\ Len(stack) \in Nat
        /\ stack \in Seq(FrameType)
    BY <1>1 DEF ChannelInv, StackInv, StateInv
  <2>2. \/ i = 0 /\ \A m \in 1 .. Len(stack) : stack[m].on # ch
        \/ i # 0 /\ LastOn(stack, Len(stack), ch, i)
    BY <2>1, LastOnIs
  <2>3. Shows(stack, Len(stack), ch, IF i = 0 THEN Channels!Inactive ELSE Channels!Given(stack[i]))
    BY <2>2 DEF Shows, LastOn
  <2> QED
    BY <2>1, <2>3, ShowsOne
<1> QED
  BY <1>1, SpecChannelInv, PTL

\* The calls with one context take turns, a scope first: no two try_with callbacks have it
\* at a time, unless the first has passed it on.
THEOREM SpecLentOnce == Channels!Spec => []Channels!LentOnce
<1>1. ASSUME ChannelInv
      PROVE  Channels!LentOnce
  <2> SUFFICES ASSUME NEW i \in DOMAIN stack, NEW j,
                      j = Channels!CallWith(stack[i].ptr, i - 1)
               PROVE  stack[i].call = IF j # 0 /\ stack[j].call = "scope" THEN "try_with"
                                      ELSE "scope"
    BY DEF Channels!LentOnce
  <2>1. /\ stack \in Seq(FrameType) /\ Nested(stack, i) /\ i - 1 \in 0 .. Len(stack)
        /\ stack[i] \in FrameType
    BY <1>1 DEF ChannelInv, StackInv
  <2>2. \/ j = 0 /\ \A m \in 1 .. i - 1 : stack[m].ptr # stack[i].ptr
        \/ j # 0 /\ LastWith(stack, i - 1, stack[i].ptr, j)
    BY <2>1, LastWithIs
  <2>3. ASSUME NEW k, LastWith(stack, i - 1, stack[i].ptr, k)
        PROVE  j # 0 /\ j = k
    <3>1. j # 0 /\ LastWith(stack, i - 1, stack[i].ptr, j)
      BY <2>2, <2>3 DEF LastWith
    <3>2. PICK d : d = i - 1 /\ d \in Nat
      BY <2>1
    <3>3. /\ j \in 1 .. d /\ stack[j].ptr = stack[i].ptr
          /\ \A m \in j + 1 .. d : stack[m].ptr # stack[i].ptr
          /\ k \in 1 .. d /\ stack[k].ptr = stack[i].ptr
          /\ \A m \in k + 1 .. d : stack[m].ptr # stack[i].ptr
      BY <2>3, <3>1, <3>2 DEF LastWith
    <3>4. ~(j < k) /\ ~(k < j)
      BY <3>2, <3>3
    <3> QED
      BY <3>1, <3>2, <3>3, <3>4
  <2>4. CASE stack[i].call = "try_with"
    BY <2>1, <2>3, <2>4 DEF Nested
  <2>5. CASE stack[i].call = "scope"
    BY <2>1, <2>2, <2>3, <2>5 DEF Nested, LastWith
  <2> QED
    BY <2>1, <2>4, <2>5 DEF FrameType
<1> QED
  BY <1>1, SpecChannelInv, PTL

-----------------------------------------------------------------------------
(* The instances of FeedNodes and StateRefs, and those that the theorems are about. *)

LEMMA FeedSteps == Feed!Next <=> FeedTheorems!Next
<1>1. /\ Feed!Slots = FeedTheorems!Slots /\ Feed!Scanned = FeedTheorems!Scanned
      /\ Feed!Running = FeedTheorems!Running /\ Feed!Node = FeedTheorems!Node
      /\ Feed!EditKeys = FeedTheorems!EditKeys /\ Feed!DirtyLevel = FeedTheorems!DirtyLevel
      /\ \A slot : Feed!Cell(slot) = FeedTheorems!Cell(slot)
      /\ \A keys : Feed!Touched(keys) = FeedTheorems!Touched(keys)
      /\ \A d : Feed!NeedsNotify(d) = FeedTheorems!NeedsNotify(d)
      /\ \A d, l : Feed!ApplyNotify(d, l) = FeedTheorems!ApplyNotify(d, l)
      /\ \A b : Feed!FromIsDirty(b) = FeedTheorems!FromIsDirty(b)
      /\ \A n : Feed!Becomes(n) = FeedTheorems!Becomes(n)
  BY DEF Feed!Slots, FeedTheorems!Slots, Feed!Scanned, FeedTheorems!Scanned,
         Feed!Running, FeedTheorems!Running, Feed!Node, FeedTheorems!Node,
         Feed!EditKeys, FeedTheorems!EditKeys, Feed!DirtyLevel, FeedTheorems!DirtyLevel,
         Feed!Cell, FeedTheorems!Cell, Feed!Touched, FeedTheorems!Touched,
         Feed!NeedsNotify, FeedTheorems!NeedsNotify, Feed!ApplyNotify, FeedTheorems!ApplyNotify,
         Feed!FromIsDirty, FeedTheorems!FromIsDirty, Feed!Becomes, FeedTheorems!Becomes
<1>2. /\ Feed!ScanOutcome = FeedTheorems!ScanOutcome
      /\ \A s : Feed!FirstUnclean(s) = FeedTheorems!FirstUnclean(s)
      /\ \A s, n : Feed!BoundedSeq(s, n) = FeedTheorems!BoundedSeq(s, n)
  BY <1>1, Zenon DEF Feed!ScanOutcome, FeedTheorems!ScanOutcome, Feed!FirstUnclean, FeedTheorems!FirstUnclean,
     Feed!SelectInSeq, FeedTheorems!SelectInSeq, Feed!Min, FeedTheorems!Min,
     Feed!BoundedSeq, FeedTheorems!BoundedSeq, Feed!SeqOf, FeedTheorems!SeqOf
<1>3. /\ \A f, s : Feed!Stale(f, s) = FeedTheorems!Stale(f, s)
      /\ \A f, s, l : Feed!Notified(f, s, l) = FeedTheorems!Notified(f, s, l)
      /\ \A f, s, b : Feed!SinksUpdated(f, s, b) = FeedTheorems!SinksUpdated(f, s, b)
  BY Zenon DEF Feed!Stale, FeedTheorems!Stale, Feed!Notified, FeedTheorems!Notified,
         Feed!NeedsNotify, FeedTheorems!NeedsNotify, Feed!ApplyNotify, FeedTheorems!ApplyNotify,
         Feed!FromIsDirty, FeedTheorems!FromIsDirty,
     Feed!SinksUpdated, FeedTheorems!SinksUpdated
<1>4. \A n, o : Feed!Updated(n, o) = FeedTheorems!Updated(n, o)
  BY <1>1, <1>3 DEF Feed!Updated, FeedTheorems!Updated, Feed!Resolved, FeedTheorems!Resolved,
     Feed!SetUpdated, FeedTheorems!SetUpdated
<1>5. /\ \A e, n : Feed!Asks(e, n) = FeedTheorems!Asks(e, n)
      /\ \A s, r : Feed!Rebinds(s, r) = FeedTheorems!Rebinds(s, r)
      /\ \A s, r : Feed!Bound(s, r) = FeedTheorems!Bound(s, r)
  BY <1>1, <1>2 DEF Feed!Asks, FeedTheorems!Asks, Feed!Rebinds, FeedTheorems!Rebinds,
     Feed!Bound, FeedTheorems!Bound
<1>6. /\ \A l : Feed!SourceNotifies(l) <=> FeedTheorems!SourceNotifies(l)
      /\ \A o : Feed!Watch(o) <=> FeedTheorems!Watch(o)
      /\ \A o, k : Feed!Edit(o, k) <=> FeedTheorems!Edit(o, k)
      /\ \A o, k : Feed!LooseEdit(o, k) <=> FeedTheorems!LooseEdit(o, k)
      /\ Feed!Deliver <=> FeedTheorems!Deliver
  BY <1>1, <1>3, <1>4
     DEF Feed!SourceNotifies, FeedTheorems!SourceNotifies, Feed!Watch, FeedTheorems!Watch,
         Feed!Edit, FeedTheorems!Edit, Feed!LooseEdit, FeedTheorems!LooseEdit,
         Feed!Deliver, FeedTheorems!Deliver
<1>7. \A e, o, r : Feed!RunEffect(e, o, r) <=> FeedTheorems!RunEffect(e, o, r)
  <2> SUFFICES ASSUME NEW e, NEW o, NEW r
               PROVE  Feed!RunEffect(e, o, r) <=> FeedTheorems!RunEffect(e, o, r)
    OBVIOUS
  <2>1. PICK n : n = IF effect[e].dirty = "MaybeDirty"
                     THEN Feed!Updated(Feed!Node, o) ELSE Feed!Node
    OBVIOUS
  <2>2. PICK m : m = IF r # <<>> THEN Feed!Updated(n, o) ELSE n
    OBVIOUS
  <2>3. /\ n = IF effect[e].dirty = "MaybeDirty"
               THEN FeedTheorems!Updated(FeedTheorems!Node, o) ELSE FeedTheorems!Node
        /\ m = IF r # <<>> THEN FeedTheorems!Updated(n, o) ELSE n
    BY <1>1, <1>4, <2>1, <2>2
  <2> QED
    BY <1>1, <1>5, <2>1, <2>2, <2>3 DEF Feed!RunEffect, FeedTheorems!RunEffect
<1> QED
  BY <1>1, <1>2, <1>6, <1>7, Zenon DEF Feed!Next, FeedTheorems!Next

LEMMA RefSteps == Refs!Next <=> RefTheorems!Next
<1>1. /\ Refs!Fresh = RefTheorems!Fresh /\ Refs!Lent = RefTheorems!Lent
      /\ Refs!Running = RefTheorems!Running /\ Refs!Idle = RefTheorems!Idle
      /\ Refs!Ready = RefTheorems!Ready /\ Refs!Captured = RefTheorems!Captured
      /\ Refs!Enclosing = RefTheorems!Enclosing /\ Refs!Given = RefTheorems!Given
      /\ \A t, c : Refs!Borrow(t, c) = RefTheorems!Borrow(t, c)
      /\ \A t : Refs!Reach(t) = RefTheorems!Reach(t)
      /\ \A o, t : Refs!Created(o, t) = RefTheorems!Created(o, t)
      /\ \A o, b : Refs!Boxed(o, b) = RefTheorems!Boxed(o, b)
      /\ \A r : Refs!Owned(r) = RefTheorems!Owned(r) /\ Refs!Pinned(r) = RefTheorems!Pinned(r)
      /\ \A r, p : Refs!Returned(r, p) = RefTheorems!Returned(r, p)
      /\ \A s : Refs!Last(s) = RefTheorems!Last(s) /\ Refs!Front(s) = RefTheorems!Front(s)
  BY Zenon
     DEF Refs!Fresh, RefTheorems!Fresh, Refs!Lent, RefTheorems!Lent,
         Refs!Running, RefTheorems!Running, Refs!Idle, RefTheorems!Idle,
         Refs!Ready, RefTheorems!Ready, Refs!Captured, RefTheorems!Captured,
         Refs!Enclosing, RefTheorems!Enclosing, Refs!Given, RefTheorems!Given,
         Refs!Borrow, RefTheorems!Borrow,
         Refs!Reach, RefTheorems!Reach, Refs!Created, RefTheorems!Created,
         Refs!Boxed, RefTheorems!Boxed, Refs!Owned, RefTheorems!Owned,
         Refs!Pinned, RefTheorems!Pinned, Refs!Returned, RefTheorems!Returned,
         Refs!Chain, RefTheorems!Chain, Refs!Object, RefTheorems!Object,
         Refs!Last, RefTheorems!Last, Refs!Front, RefTheorems!Front
<1>2. /\ \A o, b : Refs!FromValue(o, b) <=> RefTheorems!FromValue(o, b)
      /\ \A o, t, b : Refs!FromValueNonStatic(o, t, b) <=> RefTheorems!FromValueNonStatic(o, t, b)
      /\ \A t : Refs!FromRef(t) <=> RefTheorems!FromRef(t)
      /\ \A o, t : Refs!FromGuard(o, t) <=> RefTheorems!FromGuard(o, t)
  BY <1>1
     DEF Refs!FromValue, RefTheorems!FromValue,
         Refs!FromValueNonStatic, RefTheorems!FromValueNonStatic,
         Refs!FromRef, RefTheorems!FromRef, Refs!FromGuard, RefTheorems!FromGuard
<1>3. /\ \A t : Refs!Map(t) <=> RefTheorems!Map(t)
      /\ Refs!MapRef <=> RefTheorems!MapRef
  BY <1>1
     DEF Refs!Map, RefTheorems!Map, Refs!MapRef, RefTheorems!MapRef
<1>4. Refs!ClosureReturns <=> RefTheorems!ClosureReturns
  <2>1. Refs!Object = RefTheorems!Object
    BY DEF Refs!Object, RefTheorems!Object
  <2> QED
    BY <1>1, <2>1 DEF Refs!ClosureReturns, RefTheorems!ClosureReturns
<1>5. /\ Refs!Drop <=> RefTheorems!Drop
      /\ Refs!IntoOwned <=> RefTheorems!IntoOwned
      /\ Refs!Panic <=> RefTheorems!Panic
      /\ Refs!Unwind <=> RefTheorems!Unwind
      /\ Refs!Catch <=> RefTheorems!Catch
      /\ Refs!DropNext <=> RefTheorems!DropNext
  BY <1>1
     DEF Refs!Drop, RefTheorems!Drop, Refs!IntoOwned, RefTheorems!IntoOwned,
         Refs!Panic, RefTheorems!Panic, Refs!Unwind, RefTheorems!Unwind,
         Refs!Catch, RefTheorems!Catch, Refs!DropNext, RefTheorems!DropNext
<1> QED
  BY <1>1, <1>2, <1>3, <1>4, <1>5, Zenon DEF Refs!Next, RefTheorems!Next

-----------------------------------------------------------------------------
(* Sequences of queues, put together. *)

\* The results for the first i of them.
Flattens(v, f) ==
    f = [i \in 1 .. Len(v) |-> IF i = 1 THEN v[i] ELSE f[i - 1] \o v[i]]

\* The function in FlattenSeq exists.
LEMMA FlattenUnfold ==
    ASSUME NEW X, NEW v \in Seq(Seq(X)), v # <<>>
    PROVE  \E f \in [1 .. Len(v) -> Seq(X)] : Flattens(v, f) /\ Queues!FlattenSeq(v) = f[Len(v)]
<1> DEFINE n == Len(v)
           F == [p \in Seq(X) \X (1 .. n - 1) |-> p[1] \o v[p[2] + 1]]
           G == CHOOSE f : Flattens(v, f)
<1>1. n \in Nat \ {0} /\ n - 1 \in Nat /\ \A i \in 1 .. n : v[i] \in Seq(X)
  OBVIOUS
<1>2. F \in [Seq(X) \X (1 .. n - 1) -> Seq(X)]
  <2>1. \A s \in Seq(X), i \in 1 .. n - 1 : s \o v[i + 1] \in Seq(X)
    <3>1. \A i \in 1 .. n - 1 : i + 1 \in 1 .. n
      BY <1>1
    <3> QED
      BY <1>1, <3>1
  <2> QED
    BY <2>1
<1>3. PICK h : Recursive(h, Seq(X), v[1], n - 1, F)
  <2>1. v[1] \in Seq(X)
    BY <1>1
  <2> HIDE DEF F, n
  <2> QED
    BY <1>1, <1>2, <2>1, NatRecursion, Zenon
<1>4. /\ h \in [0 .. n - 1 -> Seq(X)] /\ h[0] = v[1]
      /\ \A i \in 1 .. n - 1 : h[i] = F[<<h[i - 1], i>>]
  BY <1>3 DEF Recursive
<1>5. \A i \in 1 .. n - 1 : h[i] = h[i - 1] \o v[i + 1]
  <2> SUFFICES ASSUME NEW i \in 1 .. n - 1
               PROVE  h[i] = h[i - 1] \o v[i + 1]
    OBVIOUS
  <2>0. i - 1 \in 0 .. n - 1
    BY <1>1
  <2>1. h[i - 1] \in Seq(X)
    BY <1>4, <2>0
  <2>2. F[<<h[i - 1], i>>] = h[i - 1] \o v[i + 1]
    BY <2>1
  <2> QED
    BY <1>4, <2>2
<1>6. PICK f : f = [i \in 1 .. n |-> h[i - 1]]
  OBVIOUS
<1>7. Flattens(v, f)
  <2> HIDE DEF F
  <2>1. \A i \in 1 .. n : f[i] = IF i = 1 THEN v[i] ELSE f[i - 1] \o v[i]
    <3> SUFFICES ASSUME NEW i \in 1 .. n
                 PROVE  f[i] = IF i = 1 THEN v[i] ELSE f[i - 1] \o v[i]
      OBVIOUS
    <3>1. CASE i = 1
      BY <1>1, <1>4, <1>6, <3>1
    <3>2. CASE i # 1
      <4>1. i - 1 \in 1 .. n /\ i - 1 \in 1 .. n - 1 /\ (i - 1) + 1 = i
        BY <1>1, <3>2
      <4>2. f[i] = h[i - 1] /\ f[i - 1] = h[(i - 1) - 1]
        BY <1>6, <4>1
      <4>3. h[i - 1] = h[(i - 1) - 1] \o v[(i - 1) + 1]
        BY <1>5, <4>1
      <4> QED
        BY <3>2, <4>1, <4>2, <4>3
    <3> QED
      BY <3>1, <3>2
  <2>2. f = [i \in 1 .. n |-> f[i]]
    BY <1>6
  <2> QED
    BY <2>1, <2>2 DEF Flattens
<1>8. Flattens(v, G)
  BY <1>7
<1>9. Queues!FlattenSeq(v) = G[n]
  BY <1>1 DEF Queues!FlattenSeq, Flattens
<1>10. \A i \in 1 .. n : G[i] = IF i = 1 THEN v[i] ELSE G[i - 1] \o v[i]
  <2> HIDE DEF G
  <2> QED
    BY <1>8 DEF Flattens
<1>11. G \in [1 .. n -> Seq(X)]
  <2> HIDE DEF G
  <2> DEFINE T == {i \in Nat : i + 1 <= n => G[i + 1] \in Seq(X)}
  <2>1. 0 \in T
    <3>1. G[1] = v[1] /\ 0 + 1 = 1
      BY <1>1, <1>10
    <3> QED
      BY <1>1, <3>1
  <2>2. ASSUME NEW k \in T
        PROVE  k + 1 \in T
    <3>1. CASE (k + 1) + 1 <= n
      <4>1. /\ k + 1 <= n /\ (k + 1) + 1 \in 1 .. n /\ (k + 1) + 1 # 1
            /\ ((k + 1) + 1) - 1 = k + 1
        BY <1>1, <3>1
      <4>2. G[k + 1] \in Seq(X) /\ v[(k + 1) + 1] \in Seq(X)
        BY <1>1, <4>1
      <4>3. G[(k + 1) + 1] = G[k + 1] \o v[(k + 1) + 1]
        BY <1>10, <4>1
      <4>4. G[(k + 1) + 1] \in Seq(X)
        BY <4>2, <4>3
      <4> QED
        BY <4>4
    <3> QED
      BY <3>1
  <2>3. T = Nat
    <3> HIDE DEF T
    <3>1. T \in SUBSET Nat
      BY DEF T
    <3> QED
      BY <2>1, <2>2, <3>1, NatSetInduction
  <2>4. \A i \in 1 .. n : G[i] \in Seq(X)
    <3> SUFFICES ASSUME NEW i \in 1 .. n
                 PROVE  G[i] \in Seq(X)
      OBVIOUS
    <3>1. i - 1 \in Nat /\ (i - 1) + 1 = i /\ i <= n
      BY <1>1
    <3>2. \A k \in Nat : k + 1 <= n => G[k + 1] \in Seq(X)
      BY <2>3
    <3> QED
      BY <3>1, <3>2
  <2> QED
    BY <1>8, <2>4 DEF Flattens
<1> QED
  BY <1>8, <1>9, <1>11

\* Of no queues, and with one more queue at the end.
LEMMA FlattenEmpty == Queues!FlattenSeq(<<>>) = <<>>
  BY DEF Queues!FlattenSeq

LEMMA FlattenAppend ==
    ASSUME NEW X, NEW v \in Seq(Seq(X)), NEW s \in Seq(X)
    PROVE  /\ Queues!FlattenSeq(v) \in Seq(X)
           /\ Queues!FlattenSeq(Append(v, s)) = Queues!FlattenSeq(v) \o s
<1>1. PICK w, n : w = Append(v, s) /\ n = Len(v)
  OBVIOUS
<1>2. /\ n \in Nat /\ w \in Seq(Seq(X)) /\ Len(w) = n + 1 /\ w[n + 1] = s /\ w # <<>>
      /\ \A i \in 1 .. n : w[i] = v[i]
  BY <1>1
<1>3. PICK g \in [1 .. n + 1 -> Seq(X)] : Flattens(w, g) /\ Queues!FlattenSeq(w) = g[n + 1]
  BY <1>2, FlattenUnfold
<1>4. \A i \in 1 .. n + 1 : g[i] = IF i = 1 THEN w[i] ELSE g[i - 1] \o w[i]
  BY <1>2, <1>3 DEF Flattens
<1>5. CASE v = <<>>
  <2>1. n = 0 /\ Queues!FlattenSeq(v) = <<>> /\ <<>> \in Seq(X) /\ <<>> \o s = s
    BY <1>1, <1>5, FlattenEmpty
  <2>2. g[n + 1] = s
    BY <1>2, <1>4, <2>1
  <2> QED
    BY <1>1, <1>3, <2>1, <2>2
<1>6. CASE v # <<>>
  <2>1. PICK f \in [1 .. n -> Seq(X)] : Flattens(v, f) /\ Queues!FlattenSeq(v) = f[n]
    BY <1>1, <1>6, FlattenUnfold
  <2>2. \A i \in 1 .. n : f[i] = IF i = 1 THEN v[i] ELSE f[i - 1] \o v[i]
    BY <1>1, <2>1 DEF Flattens
  <2>3. n \in Nat \ {0}
    BY <1>1, <1>6
  <2> DEFINE T == {i \in Nat : i + 1 <= n => g[i + 1] = f[i + 1]}
  <2>4. 0 \in T
    <3>1. 1 \in 1 .. n /\ 1 \in 1 .. n + 1
      BY <2>3
    <3>2. g[1] = w[1] /\ f[1] = v[1] /\ w[1] = v[1]
      BY <1>2, <1>4, <2>2, <3>1
    <3>3. 0 + 1 = 1 /\ 0 \in Nat
      OBVIOUS
    <3>4. g[0 + 1] = f[0 + 1]
      BY <3>2, <3>3
    <3> QED
      BY <3>3, <3>4
  <2>5. ASSUME NEW k \in T
        PROVE  k + 1 \in T
    <3>1. CASE (k + 1) + 1 <= n
      <4>1. /\ k + 1 <= n /\ (k + 1) + 1 \in 1 .. n /\ (k + 1) + 1 \in 1 .. n + 1
            /\ (k + 1) + 1 # 1 /\ ((k + 1) + 1) - 1 = k + 1
        BY <1>2, <3>1
      <4>2. g[(k + 1) + 1] = g[k + 1] \o w[(k + 1) + 1] /\ f[(k + 1) + 1] = f[k + 1] \o v[(k + 1) + 1]
        BY <1>4, <2>2, <4>1
      <4>3. w[(k + 1) + 1] = v[(k + 1) + 1] /\ g[k + 1] = f[k + 1]
        BY <1>2, <4>1
      <4>4. g[(k + 1) + 1] = f[(k + 1) + 1]
        BY <4>2, <4>3
      <4> QED
        BY <4>4
    <3> QED
      BY <3>1
  <2>6. T = Nat
    <3> HIDE DEF T
    <3>1. T \in SUBSET Nat
      BY DEF T
    <3> QED
      BY <2>4, <2>5, <3>1, NatSetInduction
  <2>7. g[n] = f[n]
    <3>1. n - 1 \in Nat /\ (n - 1) + 1 = n /\ n <= n
      BY <2>3
    <3>2. \A k \in Nat : k + 1 <= n => g[k + 1] = f[k + 1]
      BY <2>6
    <3> QED
      BY <3>1, <3>2
  <2>8. g[n + 1] = g[n] \o s
    <3>1. n + 1 \in 1 .. n + 1 /\ n + 1 # 1 /\ (n + 1) - 1 = n
      BY <2>3
    <3> QED
      BY <1>2, <1>4, <3>1
  <2>9. f[n] \in Seq(X)
    BY <2>1, <2>3
  <2> QED
    BY <1>1, <1>3, <2>1, <2>7, <2>8, <2>9
<1> QED
  BY <1>5, <1>6

\* The queues of two sequences of them, one behind the other.
LEMMA FlattenConcat ==
    ASSUME NEW X, NEW v \in Seq(Seq(X)), NEW w \in Seq(Seq(X))
    PROVE  Queues!FlattenSeq(v \o w) = Queues!FlattenSeq(v) \o Queues!FlattenSeq(w)
<1> DEFINE Q == {t \in Seq(Seq(X)) :
                    Queues!FlattenSeq(v \o t) = Queues!FlattenSeq(v) \o Queues!FlattenSeq(t)}
<1>0. PICK a \in Seq(X) : a = Queues!FlattenSeq(v)
  <2>1. <<>> \in Seq(X)
    OBVIOUS
  <2> QED
    BY <2>1, FlattenAppend
<1>1. <<>> \in Q
  <2>1. v \o <<>> = v /\ a \o <<>> = a /\ <<>> \in Seq(Seq(X))
    OBVIOUS
  <2> QED
    BY <1>0, <2>1, FlattenEmpty
<1>2. ASSUME NEW t \in Q, NEW s \in Seq(X)
      PROVE  Append(t, s) \in Q
  <2>1. PICK u : u = v \o t
    OBVIOUS
  <2>2. /\ t \in Seq(Seq(X)) /\ u \in Seq(Seq(X)) /\ Append(t, s) \in Seq(Seq(X))
        /\ v \o Append(t, s) = Append(u, s)
    <3>1. t \in Seq(Seq(X))
      OBVIOUS
    <3>2. Append(t, s) \in Seq(Seq(X))
      BY <3>1, AppendProperties
    <3>3. u \in Seq(Seq(X))
      BY <2>1, <3>1, ConcatIs
    <3>4. v \o Append(t, s) = Append(v \o t, s)
      BY <3>1, ConcatAppend
    <3> QED
      BY <2>1, <3>1, <3>2, <3>3, <3>4
  <2>3. PICK b \in Seq(X) : b = Queues!FlattenSeq(t)
    BY <2>2, FlattenAppend
  <2>4. Queues!FlattenSeq(u) = a \o b
    BY <1>0, <2>1, <2>3
  <2>5. Queues!FlattenSeq(Append(u, s)) = (a \o b) \o s
    <3>1. Queues!FlattenSeq(Append(u, s)) = Queues!FlattenSeq(u) \o s
      BY <2>2, FlattenAppend
    <3> QED
      BY <2>4, <3>1
  <2>6. Queues!FlattenSeq(Append(t, s)) = b \o s
    BY <2>2, <2>3, FlattenAppend
  <2>7. (a \o b) \o s = a \o (b \o s)
    <3> HIDE DEF Q
    <3> QED
      BY ConcatAssociative, SMTT(20)
  <2> QED
    BY <1>0, <2>2, <2>5, <2>6, <2>7
<1>3. Q = Seq(Seq(X))
  <2> HIDE DEF Q
  <2>1. Q \in SUBSET Seq(Seq(X))
    BY DEF Q
  <2> QED
    BY <1>1, <1>2, <2>1, SeqSetInduction
<1> QED
  BY <1>3

\* Empty queues, and empty queues around others.
LEMMA FlattenNothing ==
    ASSUME NEW v \in Seq({<<>>})
    PROVE  Queues!FlattenSeq(v) = <<>>
<1>1. v \in Seq(Seq({}))
  <2>1. {<<>>} \subseteq Seq({})
    OBVIOUS
  <2> QED
    BY <2>1, SeqMonotonic
<1>2. <<>> \in Seq({})
  OBVIOUS
<1>3. Queues!FlattenSeq(v) \in Seq({})
  BY <1>1, <1>2, FlattenAppend
<1>4. \A s \in Seq({}) : s = <<>>
  <2> SUFFICES ASSUME NEW s \in Seq({})
               PROVE  s = <<>>
    OBVIOUS
  <2>1. Len(s) = 0
    <3>1. ASSUME Len(s) # 0
          PROVE  FALSE
      <4>1. 1 \in 1 .. Len(s)
        BY <3>1
      <4> QED
        BY <4>1
    <3> QED
      BY <3>1
  <2> QED
    BY <2>1
<1> QED
  BY <1>3, <1>4

-----------------------------------------------------------------------------
(* What PhaseOrder finds in a sequence that is in the order of phases. *)

QueuedType == [phase : Id, of : Item]
InPhase(p) == {x \in QueuedType : x.phase = p}
BeforePhase(p) == {x \in QueuedType : x.phase < p}
AfterPhase(p) == {x \in QueuedType : x.phase > p}

LEMMA QueueKept == \A q, S : Queues!Kept(q, S) = Kept(q, S)
  BY DEF Queues!Kept, Kept

\* The elements of a sequence say which set it is over.
LEMMA SeqOver ==
    ASSUME NEW X, NEW t \in Seq(X), NEW S, \A i \in 1 .. Len(t) : t[i] \in S
    PROVE  t \in Seq(S)
OBVIOUS

\* a, b and c are the parts of q before, in and behind phase p.
AreParts(q, p, a, b, c) ==
    /\ a \in Seq(BeforePhase(p)) /\ b \in Seq(InPhase(p)) /\ c \in Seq(AfterPhase(p))
    /\ q = (a \o b) \o c

LEMMA OrderParts ==
    ASSUME NEW q, NEW p \in Int, NEW a, NEW b, NEW c, AreParts(q, p, a, b, c)
    PROVE  /\ Queues!Below(q, p) = a
           /\ Queues!OfPhase(q, p) = b
           /\ Queues!Above(q, p) = c
<1> DEFINE X == QueuedType
           E == {q[i] : i \in 1 .. Len(q)}
           SB == {y \in E : y.phase < p}
           SO == {y \in E : y.phase = p}
           SA == {y \in E : y.phase > p}
<1>0. /\ a \in Seq(BeforePhase(p)) /\ b \in Seq(InPhase(p)) /\ c \in Seq(AfterPhase(p))
      /\ q = (a \o b) \o c
  BY DEF AreParts
<1>1. a \in Seq(X) /\ b \in Seq(X) /\ c \in Seq(X)
  <2>1. BeforePhase(p) \subseteq X /\ InPhase(p) \subseteq X /\ AfterPhase(p) \subseteq X
    BY DEF BeforePhase, InPhase, AfterPhase
  <2> QED
    BY <1>0, <2>1, SeqMonotonic
<1>2. PICK u \in Seq(X) : u = a \o b
  <2> HIDE DEF X
  <2> QED
    BY <1>1, ConcatIs
<1>3. /\ Len(u) = Len(a) + Len(b) /\ q = u \o c /\ q \in Seq(X) /\ Len(q) = Len(u) + Len(c)
      /\ Len(a) \in Nat /\ Len(b) \in Nat /\ Len(c) \in Nat
  BY <1>0, <1>1, <1>2
<1>4. Queues!ToSet(q) = E
  <2>1. DOMAIN q = 1 .. Len(q)
    BY <1>3
  <2> QED
    BY <2>1 DEF Queues!ToSet
<1>5. \A i \in 1 .. Len(a) : a[i] \in E
  <2> SUFFICES ASSUME NEW i \in 1 .. Len(a)
               PROVE  a[i] \in E
    OBVIOUS
  <2>1. i \in 1 .. Len(u) /\ i \in 1 .. Len(q) /\ u[i] = a[i]
    BY <1>1, <1>2, <1>3
  <2>2. q[i] = u[i]
    BY <1>1, <1>3, <2>1
  <2> QED
    BY <2>1, <2>2
<1>6. \A i \in 1 .. Len(b) : b[i] \in E
  <2> SUFFICES ASSUME NEW i \in 1 .. Len(b)
               PROVE  b[i] \in E
    OBVIOUS
  <2>1. PICK k : k = Len(a) + i
    OBVIOUS
  <2>2. k \in 1 .. Len(u) /\ k \in 1 .. Len(q) /\ u[k] = b[i]
    BY <1>1, <1>2, <1>3, <2>1
  <2>3. q[k] = u[k]
    BY <1>1, <1>3, <2>2
  <2> QED
    BY <2>2, <2>3
<1>7. \A i \in 1 .. Len(c) : c[i] \in E
  <2> SUFFICES ASSUME NEW i \in 1 .. Len(c)
               PROVE  c[i] \in E
    OBVIOUS
  <2>1. PICK k : k = Len(u) + i
    OBVIOUS
  <2>2. k \in 1 .. Len(q) /\ q[k] = c[i]
    BY <1>1, <1>2, <1>3, <2>1
  <2> QED
    BY <2>2
<1>8. a \in Seq(SB) /\ b \in Seq(SO) /\ c \in Seq(SA)
  <2> HIDE DEF E
  <2>1. \A i \in 1 .. Len(a) : a[i] \in SB
    BY <1>0, <1>5 DEF BeforePhase
  <2>2. \A i \in 1 .. Len(b) : b[i] \in SO
    BY <1>0, <1>6 DEF InPhase
  <2>3. \A i \in 1 .. Len(c) : c[i] \in SA
    BY <1>0, <1>7 DEF AfterPhase
  <2> HIDE DEF X, SB, SO, SA
  <2>4. a \in Seq(SB)
    BY <1>1, <2>1, SeqOver
  <2>5. b \in Seq(SO)
    BY <1>1, <2>2, SeqOver
  <2>6. c \in Seq(SA)
    BY <1>1, <2>3, SeqOver
  <2> QED
    BY <2>4, <2>5, <2>6
<1>9. Kept(a, SB) = a /\ Kept(b, SO) = b /\ Kept(c, SA) = c
  <2> HIDE DEF SB, SO, SA
  <2> QED
    BY <1>8, KeptWhole
<1>10. /\ BeforePhase(p) \cap SO = {} /\ BeforePhase(p) \cap SA = {}
       /\ InPhase(p) \cap SB = {} /\ InPhase(p) \cap SA = {}
       /\ AfterPhase(p) \cap SB = {} /\ AfterPhase(p) \cap SO = {}
  <2> HIDE DEF E
  <2>1. \A x \in QueuedType : x.phase \in Int
    BY PartsAssumption DEF Queues!QueuesAssumption, QueuedType
  <2> QED
    BY <2>1 DEF BeforePhase, InPhase, AfterPhase
<1>11. /\ Kept(a, SO) = <<>> /\ Kept(a, SA) = <<>> /\ Kept(b, SB) = <<>>
       /\ Kept(b, SA) = <<>> /\ Kept(c, SB) = <<>> /\ Kept(c, SO) = <<>>
  <2> HIDE DEF SB, SO, SA
  <2>1. Kept(a, SO) = <<>> /\ Kept(a, SA) = <<>>
    BY <1>0, <1>10, KeptNothing
  <2>2. Kept(b, SB) = <<>> /\ Kept(b, SA) = <<>>
    BY <1>0, <1>10, KeptNothing
  <2>3. Kept(c, SB) = <<>> /\ Kept(c, SO) = <<>>
    BY <1>0, <1>10, KeptNothing
  <2> QED
    BY <2>1, <2>2, <2>3
<1>12. \A S : Kept(q, S) = (Kept(a, S) \o Kept(b, S)) \o Kept(c, S)
  <2> TAKE S
  <2> HIDE DEF X
  <2>1. Kept(u, S) = Kept(a, S) \o Kept(b, S)
    BY <1>1, <1>2, KeptConcat
  <2>2. Kept(q, S) = Kept(u, S) \o Kept(c, S)
    <3>1. Kept(u \o c, S) = Kept(u, S) \o Kept(c, S)
      BY <1>1, KeptConcat, SMTT(20)
    <3> QED
      BY <1>3, <3>1
  <2> QED
    BY <2>1, <2>2
<1>13. Kept(q, SB) = a /\ Kept(q, SO) = b /\ Kept(q, SA) = c
  <2> HIDE DEF SB, SO, SA
  <2>1. /\ Kept(q, SB) = (a \o <<>>) \o <<>>
        /\ Kept(q, SO) = (<<>> \o b) \o <<>>
        /\ Kept(q, SA) = (<<>> \o <<>>) \o c
    BY <1>9, <1>11, <1>12
  <2> QED
    BY <1>1, <2>1
<1>14. /\ Queues!Below(q, p) = Kept(q, SB)
       /\ Queues!OfPhase(q, p) = Kept(q, SO)
       /\ Queues!Above(q, p) = Kept(q, SA)
  <2> HIDE DEF E
  <2> QED
    BY <1>4, QueueKept DEF Queues!Below, Queues!OfPhase, Queues!Above
<1> QED
  BY <1>13, <1>14

LEMMA BelowType ==
    ASSUME NEW q \in Seq(QueuedType), NEW p
    PROVE  Queues!Below(q, p) \in Seq(QueuedType)
BY KeptType, QueueKept DEF Queues!Below

-----------------------------------------------------------------------------
(* The map of queues. *)

MapType == [base : Int, values : Seq(Seq(QueuedType))]

\* The queue at j has items of phase j only, so that one of no phase is empty.
MapInv(m) == m \in MapType /\ \A j \in Int : Queues!At(m, j) \in Seq(InPhase(j))

\* What is in m for j.
LEMMA AtIs ==
    ASSUME NEW m \in MapType, NEW j \in Int
    PROVE  /\ Queues!At(m, j) \in Seq(QueuedType)
           /\ Queues!Within(m, j) <=> j - m.base + 1 \in 1 .. Len(m.values)
           /\ Queues!At(m, j) = IF j - m.base + 1 \in 1 .. Len(m.values)
                                THEN m.values[j - m.base + 1] ELSE <<>>
<1>1. PICK v, b : v = m.values /\ b = m.base
  OBVIOUS
<1>2. v \in Seq(Seq(QueuedType)) /\ b \in Int /\ Len(v) \in Nat
  BY <1>1 DEF MapType
<1>3. Queues!Within(m, j) <=> j - b + 1 \in 1 .. Len(v)
  BY <1>1, <1>2 DEF Queues!Within
<1>4. Queues!At(m, j) = IF j - b + 1 \in 1 .. Len(v) THEN v[j - b + 1] ELSE <<>>
  BY <1>1, <1>3 DEF Queues!At
<1>5. Queues!At(m, j) \in Seq(QueuedType)
  <2>1. CASE j - b + 1 \in 1 .. Len(v)
    BY <1>2, <1>4, <2>1
  <2>2. CASE j - b + 1 \notin 1 .. Len(v)
    BY <1>4, <2>2
  <2> QED
    BY <2>1, <2>2
<1> QED
  BY <1>1, <1>3, <1>4, <1>5

\* The queues in a range that has all of m are those of m, with empty ones around.
LEMMA RangeOf ==
    ASSUME NEW m \in MapType, NEW lo \in Int, NEW n \in Nat,
           lo <= m.base, m.base + Len(m.values) <= lo + n
    PROVE  Queues!FlattenSeq([i \in 1 .. n |-> Queues!At(m, lo + i - 1)])
                = Queues!FlattenSeq(m.values)
<1>1. PICK v, b, k, d : v = m.values /\ b = m.base /\ k = Len(v) /\ d = b - lo
  OBVIOUS
<1>2. /\ v \in Seq(Seq(QueuedType)) /\ b \in Int /\ k \in Nat /\ d \in Nat /\ lo = b - d
      /\ n - k - d \in Nat
  <2>1. v \in Seq(Seq(QueuedType)) /\ b \in Int /\ k \in Nat
    BY <1>1 DEF MapType
  <2>2. lo <= b /\ b + k <= lo + n /\ d = b - lo
    BY <1>1
  <2> QED
    BY <2>1, <2>2
<1> DEFINE a == [i \in 1 .. d |-> <<>>]
           c == [i \in 1 .. n - k - d |-> <<>>]
           w == [i \in 1 .. n |-> Queues!At(m, lo + i - 1)]
<1>3. a \in Seq({<<>>}) /\ c \in Seq({<<>>}) /\ Len(a) = d /\ Len(c) = n - k - d
  BY <1>2
<1>4. {<<>>} \subseteq Seq(QueuedType)
  OBVIOUS
<1>5. a \in Seq(Seq(QueuedType)) /\ c \in Seq(Seq(QueuedType))
  <2> HIDE DEF a, c
  <2> QED
    BY <1>3, <1>4, SeqMonotonic
<1>6. PICK u \in Seq(Seq(QueuedType)) : u = a \o v
  <2> HIDE DEF a
  <2> QED
    BY <1>2, <1>5, ConcatIs
<1>7. Len(u) = d + k /\ \A i \in 1 .. d + k : u[i] = IF i <= d THEN <<>> ELSE v[i - d]
  <2> HIDE DEF a
  <2>0. a \in Seq(Seq(QueuedType)) /\ Len(a) = d /\ Len(v) = k
    BY <1>1, <1>3, <1>5
  <2>1. Len(u) = d + k /\ \A i \in 1 .. d + k : u[i] = IF i <= d THEN a[i] ELSE v[i - d]
    <3>1. /\ Len(a \o v) = Len(a) + Len(v)
          /\ \A i \in 1 .. Len(a) + Len(v) :
                (a \o v)[i] = IF i <= Len(a) THEN a[i] ELSE v[i - Len(a)]
      BY <1>2, <2>0, ConcatIs
    <3> QED
      BY <1>6, <2>0, <3>1
  <2>2. \A i \in 1 .. d + k : i <= d => a[i] = <<>>
    BY <1>2 DEF a
  <2> QED
    BY <2>1, <2>2
<1>8. PICK z \in Seq(Seq(QueuedType)) : z = u \o c
  <2> HIDE DEF c
  <2> QED
    BY <1>5, <1>6, ConcatIs
<1>9. Len(z) = n /\ \A i \in 1 .. n : z[i] = IF i <= d + k THEN u[i] ELSE <<>>
  <2> HIDE DEF c
  <2>1. (d + k) + (n - k - d) = n
    BY <1>2
  <2>2. Len(z) = n /\ \A i \in 1 .. n : z[i] = IF i <= d + k THEN u[i] ELSE c[i - (d + k)]
    <3>1. /\ Len(u \o c) = Len(u) + Len(c)
          /\ \A i \in 1 .. Len(u) + Len(c) :
                (u \o c)[i] = IF i <= Len(u) THEN u[i] ELSE c[i - Len(u)]
      BY <1>5, <1>6, ConcatIs
    <3>2. Len(u) = d + k /\ Len(c) = n - k - d
      BY <1>3, <1>7
    <3> QED
      BY <1>8, <2>1, <3>1, <3>2
  <2>3. \A i \in 1 .. n : ~(i <= d + k) => c[i - (d + k)] = <<>>
    BY <1>2 DEF c
  <2> QED
    BY <2>2, <2>3
<1>10. \A i \in 1 .. n : w[i] = z[i]
  <2> SUFFICES ASSUME NEW i \in 1 .. n
               PROVE  w[i] = z[i]
    OBVIOUS
  <2>1. PICK j : j = lo + i - 1
    OBVIOUS
  <2>2. j \in Int /\ j - b + 1 = i - d
    BY <1>2, <2>1
  <2>3. w[i] = IF i - d \in 1 .. k THEN v[i - d] ELSE <<>>
    BY <1>1, <2>1, <2>2, AtIs
  <2>4. i - d \in 1 .. k <=> i <= d + k /\ ~(i <= d)
    BY <1>2
  <2>5. z[i] = IF i <= d + k THEN u[i] ELSE <<>>
    BY <1>9
  <2>6. i <= d + k => u[i] = IF i <= d THEN <<>> ELSE v[i - d]
    BY <1>2, <1>7
  <2> HIDE DEF w
  <2> QED
    BY <2>3, <2>4, <2>5, <2>6
<1>11. w = z
  <2>1. w \in Seq(Seq(QueuedType)) /\ Len(w) = n
    <3>1. \A i \in 1 .. n : Queues!At(m, lo + i - 1) \in Seq(QueuedType)
      BY AtIs
    <3> QED
      BY <3>1
  <2> HIDE DEF w
  <2> QED
    BY <1>9, <1>10, <2>1, SeqEqual
<1>12. Queues!FlattenSeq(z) = (<<>> \o Queues!FlattenSeq(v)) \o <<>>
  <2> HIDE DEF a, c
  <2>1. Queues!FlattenSeq(a) = <<>> /\ Queues!FlattenSeq(c) = <<>>
    BY <1>3, FlattenNothing
  <2>2. Queues!FlattenSeq(u) = Queues!FlattenSeq(a) \o Queues!FlattenSeq(v)
    BY <1>2, <1>5, <1>6, FlattenConcat
  <2>3. Queues!FlattenSeq(z) = Queues!FlattenSeq(u) \o Queues!FlattenSeq(c)
    BY <1>5, <1>6, <1>8, FlattenConcat
  <2> QED
    BY <2>1, <2>2, <2>3
<1>13. Queues!FlattenSeq(v) \in Seq(QueuedType)
  <2>1. <<>> \in Seq(QueuedType)
    OBVIOUS
  <2> QED
    BY <1>2, <2>1, FlattenAppend
<1> QED
  BY <1>1, <1>11, <1>12, <1>13

\* Maps with the same queues hold the same items in the same order, wherever their arrays
\* start and end.
LEMMA SameQueues ==
    ASSUME NEW m \in MapType, NEW w \in MapType,
           \A j \in Int : Queues!At(m, j) = Queues!At(w, j)
    PROVE  Queues!FlattenSeq(m.values) = Queues!FlattenSeq(w.values)
<1> DEFINE endM == m.base + Len(m.values)
           endW == w.base + Len(w.values)
<1>1. /\ m.base \in Int /\ w.base \in Int /\ Len(m.values) \in Nat /\ Len(w.values) \in Nat
      /\ endM \in Int /\ endW \in Int
  BY DEF MapType
<1>2. PICK lo \in Int : lo <= m.base /\ lo <= w.base
  <2>1. CASE m.base <= w.base
    BY <1>1, <2>1
  <2>2. CASE w.base <= m.base
    BY <1>1, <2>2
  <2> QED
    BY <1>1, <2>1, <2>2
<1>3. PICK hi \in Int : endM <= hi /\ endW <= hi
  <2> HIDE DEF endM, endW
  <2>1. CASE endM <= endW
    BY <1>1, <2>1
  <2>2. CASE endW <= endM
    BY <1>1, <2>2
  <2> QED
    BY <1>1, <2>1, <2>2
<1>4. PICK n \in Nat : n = hi - lo
  BY <1>1, <1>2, <1>3
<1>5. endM <= lo + n /\ endW <= lo + n
  BY <1>3, <1>4
<1>6. \A i \in 1 .. n : lo + i - 1 \in Int
  OBVIOUS
<1>7. [i \in 1 .. n |-> Queues!At(m, lo + i - 1)] = [i \in 1 .. n |-> Queues!At(w, lo + i - 1)]
  BY <1>6
<1>8. /\ Queues!FlattenSeq([i \in 1 .. n |-> Queues!At(m, lo + i - 1)])
            = Queues!FlattenSeq(m.values)
      /\ Queues!FlattenSeq([i \in 1 .. n |-> Queues!At(w, lo + i - 1)])
            = Queues!FlattenSeq(w.values)
  BY <1>2, <1>5, RangeOf
<1> QED
  BY <1>7, <1>8

\* An array that reaches id has the same queues.
LEMMA PreparedIs ==
    ASSUME NEW m, MapInv(m), NEW id \in Int
    PROVE  LET p == Queues!Prepared(m, id)
           IN  /\ MapInv(p) /\ Queues!Within(p, id)
               /\ \A j \in Int : Queues!At(p, j) = Queues!At(m, j)
               /\ Queues!FlattenSeq(p.values) = Queues!FlattenSeq(m.values)
<1> DEFINE p == Queues!Prepared(m, id)
           n == Len(m.values)
           from == IF m.values = <<>> THEN id ELSE Queues!Min({m.base, id})
           to == IF m.values = <<>> THEN id ELSE Queues!Max({m.base + n - 1, id})
<1>1. m \in MapType /\ m.base \in Int /\ n \in Nat
  BY DEF MapInv, MapType
<1>2. /\ from \in Int /\ to \in Int /\ from <= id /\ id <= to
      /\ m.values # <<>> => from <= m.base /\ m.base + n - 1 <= to
  <2>1. PICK b, e, lo, hi : /\ b = m.base /\ e = m.base + n - 1
                           /\ lo = Queues!Min({m.base, id}) /\ hi = Queues!Max({m.base + n - 1, id})
    OBVIOUS
  <2>2. b \in Int /\ e \in Int
    BY <1>1, <2>1
  <2>3. lo \in {b, id} /\ lo <= b /\ lo <= id
    BY <2>1, <2>2, MinOfPair
  <2>4. hi \in {e, id} /\ e <= hi /\ id <= hi
    BY <2>1, <2>2, MaxOfPair
  <2>5. id <= id
    OBVIOUS
  <2>6. /\ from = IF m.values = <<>> THEN id ELSE lo
        /\ to = IF m.values = <<>> THEN id ELSE hi
    BY <2>1
  <2> HIDE DEF from, to, n
  <2>7. CASE m.values = <<>>
    BY <2>5, <2>6, <2>7
  <2>8. CASE m.values # <<>>
    BY <2>1, <2>2, <2>3, <2>4, <2>6, <2>8
  <2> QED
    BY <2>7, <2>8
<1>4. n # 0 => m.values # <<>>
  OBVIOUS
<1>5. p = [base |-> from, values |-> [i \in 1 .. to - from + 1 |-> Queues!At(m, from + i - 1)]]
  BY DEF Queues!Prepared
<1> HIDE DEF p, n, from, to
<1>6. PICK a, b : a = from /\ b = to
  OBVIOUS
<1>7. PICK k \in Nat : k = b - a + 1
  BY <1>2, <1>6
<1>8. p.base = a /\ p.values = [i \in 1 .. k |-> Queues!At(m, a + i - 1)]
  BY <1>5, <1>6, <1>7
<1>9. p \in MapType /\ Len(p.values) = k
  <2>1. \A i \in 1 .. k : Queues!At(m, a + i - 1) \in Seq(QueuedType)
    BY <1>1, <1>2, <1>6, AtIs
  <2>2. [i \in 1 .. k |-> Queues!At(m, a + i - 1)] \in Seq(Seq(QueuedType))
    BY <2>1
  <2>3. Len([i \in 1 .. k |-> Queues!At(m, a + i - 1)]) = k
    OBVIOUS
  <2>4. p.values \in Seq(Seq(QueuedType)) /\ Len(p.values) = k /\ p.base \in Int
    BY <1>2, <1>6, <1>8, <2>2, <2>3
  <2>5. p = [base |-> p.base, values |-> p.values]
    BY <1>5
  <2> QED
    BY <2>4, <2>5 DEF MapType
<1>10. Queues!Within(p, id)
  <2>1. id - a + 1 \in 1 .. k
    BY <1>2, <1>6, <1>7
  <2>2. id - p.base + 1 \in 1 .. Len(p.values)
    BY <1>8, <1>9, <2>1
  <2> QED
    BY <1>9, <2>2, AtIs
<1>11. ASSUME NEW j \in Int
       PROVE  Queues!At(p, j) = Queues!At(m, j)
  <2>1. Queues!At(p, j) = IF j - a + 1 \in 1 .. k THEN p.values[j - a + 1] ELSE <<>>
    BY <1>8, <1>9, AtIs
  <2>2. CASE j - a + 1 \in 1 .. k
    <3>1. a + (j - a + 1) - 1 = j
      BY <1>2, <1>6
    <3>2. p.values[j - a + 1] = Queues!At(m, a + (j - a + 1) - 1)
      BY <1>8, <2>2
    <3> QED
      BY <2>1, <2>2, <3>1, <3>2
  <2>3. CASE j - a + 1 \notin 1 .. k
    <3>1. ~(j - m.base + 1 \in 1 .. n)
      BY <1>1, <1>2, <1>4, <1>6, <1>7, <2>3
    <3>2. Queues!At(m, j) = <<>>
      BY <1>1, <3>1, AtIs DEF n
    <3> QED
      BY <2>1, <2>3, <3>2
  <2> QED
    BY <2>2, <2>3
<1>12. Queues!FlattenSeq(p.values) = Queues!FlattenSeq(m.values)
  BY <1>1, <1>9, <1>11, SameQueues
<1>13. MapInv(p)
  BY <1>9, <1>11 DEF MapInv
<1> QED
  BY <1>10, <1>11, <1>12, <1>13 DEF p

\* Another queue at id: the rest stays, and the items are those before id, the queue and
\* those behind.
Replaced(m, id, s, w) ==
    /\ MapInv(w)
    /\ \A j \in Int : Queues!At(w, j) = IF j = id THEN s ELSE Queues!At(m, j)

Around(m, id, a, c) ==
    /\ AreParts(Queues!FlattenSeq(m.values), id, a, Queues!At(m, id), c)
    /\ \A s \in Seq(InPhase(id)) :
          Queues!FlattenSeq(Queues!WithQueue(m, id, s).values) = (a \o s) \o c

LEMMA WithQueueIs ==
    ASSUME NEW m, MapInv(m), NEW id \in Int, Queues!Within(m, id)
    PROVE  /\ \A s \in Seq(InPhase(id)) : Replaced(m, id, s, Queues!WithQueue(m, id, s))
           /\ \E a, c : Around(m, id, a, c)
<1>1. m \in MapType /\ \A j \in Int : Queues!At(m, j) \in Seq(InPhase(j))
  BY DEF MapInv
<1>2. PICK v, b, n, k : v = m.values /\ b = m.base /\ n = Len(v) /\ k = id - b + 1
  OBVIOUS
<1>3. /\ v \in Seq(Seq(QueuedType)) /\ b \in Int /\ n \in Nat
      /\ DOMAIN v = 1 .. n /\ \A i \in 1 .. n : v[i] \in Seq(QueuedType)
  <2>1. v \in Seq(Seq(QueuedType)) /\ b \in Int
    BY <1>1, <1>2 DEF MapType
  <2>2. n = Len(v)
    BY <1>2
  <2> QED
    BY <2>1, <2>2
<1>4. k \in 1 .. n /\ Queues!At(m, id) = v[k]
  BY <1>1, <1>2, AtIs
<1>0. k \in Int /\ id = b + k - 1 /\ 1 <= k /\ k <= n
  <2>1. k \in Int /\ 1 <= k /\ k <= n
    BY <1>3, <1>4
  <2>2. k = id - b + 1
    BY <1>2
  <2> QED
    BY <1>3, <2>1, <2>2
<1>5. \A j \in 1 .. n : v[j] = Queues!At(m, b + j - 1)
  <2> SUFFICES ASSUME NEW j \in 1 .. n
               PROVE  v[j] = Queues!At(m, b + j - 1)
    OBVIOUS
  <2>1. PICK i \in Int : i = b + j - 1
    BY <1>3
  <2>2. i - b + 1 = j
    BY <1>3, <2>1
  <2>3. Queues!At(m, i) = v[j]
    BY <1>1, <1>2, <2>2, AtIs
  <2> QED
    BY <2>1, <2>3
<1>6. \A j \in Int : InPhase(j) \subseteq QueuedType
  BY DEF InPhase
<1> DEFINE W(s) == [v EXCEPT ![k] = s]
<1>7. \A s \in Seq(InPhase(id)) :
         /\ Queues!WithQueue(m, id, s) = [base |-> b, values |-> W(s)]
         /\ W(s) \in Seq(Seq(QueuedType)) /\ Len(W(s)) = n
         /\ \A i \in 1 .. n : W(s)[i] = IF i = k THEN s ELSE v[i]
  <2> SUFFICES ASSUME NEW s \in Seq(InPhase(id))
               PROVE  /\ Queues!WithQueue(m, id, s) = [base |-> b, values |-> W(s)]
                      /\ W(s) \in Seq(Seq(QueuedType)) /\ Len(W(s)) = n
                      /\ \A i \in 1 .. n : W(s)[i] = IF i = k THEN s ELSE v[i]
    OBVIOUS
  <2>1. s \in Seq(QueuedType)
    BY <1>6, SeqMonotonic
  <2>2. W(s) \in Seq(Seq(QueuedType)) /\ Len(W(s)) = n
    BY <1>2, <1>3, <1>4, <2>1
  <2>3. Queues!WithQueue(m, id, s) = [m EXCEPT !.values = W(s)]
    BY <1>1, <1>2 DEF Queues!WithQueue, MapType
  <2>4. \A x : [m EXCEPT !.values = x] = [base |-> b, values |-> x]
    <3>1. m \in [base : Int, values : Seq(Seq(QueuedType))] /\ m.base = b
      BY <1>1, <1>2 DEF MapType
    <3> QED
      BY <3>1
  <2>5. \A i \in 1 .. n : W(s)[i] = IF i = k THEN s ELSE v[i]
    BY <1>3
  <2> HIDE DEF W
  <2> QED
    BY <2>2, <2>3, <2>4, <2>5
<1>8. ASSUME NEW s \in Seq(InPhase(id))
      PROVE  Replaced(m, id, s, Queues!WithQueue(m, id, s))
  <2>1. PICK w : w = Queues!WithQueue(m, id, s)
    OBVIOUS
  <2>2. PICK u : u = W(s)
    OBVIOUS
  <2>3. w = [base |-> b, values |-> u] /\ u \in Seq(Seq(QueuedType)) /\ Len(u) = n
    BY <1>7, <2>1, <2>2
  <2>4. \A i \in 1 .. n : u[i] = IF i = k THEN s ELSE v[i]
    <3> HIDE DEF W
    <3> QED
      BY <1>7, <2>2
  <2>5. w \in MapType /\ w.base = b /\ w.values = u
    BY <1>3, <2>3 DEF MapType
  <2>6. ASSUME NEW j \in Int
        PROVE  Queues!At(w, j) = IF j = id THEN s ELSE Queues!At(m, j)
    <3>1. PICK i \in Int : i = j - b + 1
      BY <1>3
    <3>2. i = k <=> j = id
      BY <1>2, <1>3, <3>1
    <3>3. Queues!At(w, j) = IF i \in 1 .. n THEN u[i] ELSE <<>>
      BY <2>3, <2>5, <3>1, AtIs
    <3>4. Queues!At(m, j) = IF i \in 1 .. n THEN v[i] ELSE <<>>
      BY <1>1, <1>2, <3>1, AtIs
    <3> QED
      BY <1>4, <2>4, <3>2, <3>3, <3>4
  <2>7. \A j \in Int : Queues!At(w, j) \in Seq(InPhase(j))
    BY <1>1, <2>6
  <2> QED
    BY <2>1, <2>5, <2>6, <2>7 DEF MapInv, Replaced
<1>9. PICK g \in Seq(Seq(QueuedType)) : Len(g) = k - 1 /\ \A i \in 1 .. k - 1 : g[i] = v[i]
  <2> DEFINE g == [i \in 1 .. k - 1 |-> v[i]]
  <2>1. k - 1 \in Nat /\ \A i \in 1 .. k - 1 : v[i] \in Seq(QueuedType)
    BY <1>2, <1>3, <1>4
  <2>2. g \in Seq(Seq(QueuedType)) /\ Len(g) = k - 1 /\ \A i \in 1 .. k - 1 : g[i] = v[i]
    BY <2>1
  <2> HIDE DEF g
  <2> QED
    BY <2>2
<1>10. PICK h \in Seq(Seq(QueuedType)) : Len(h) = n - k /\ \A i \in 1 .. n - k : h[i] = v[k + i]
  <2> DEFINE h == [i \in 1 .. n - k |-> v[k + i]]
  <2>1. n - k \in Nat /\ \A i \in 1 .. n - k : k + i \in 1 .. n
    BY <1>3, <1>4
  <2>2. \A i \in 1 .. n - k : v[k + i] \in Seq(QueuedType)
    <3>1. \A i \in 1 .. n : v[i] \in Seq(QueuedType)
      BY <1>2, <1>3
    <3> QED
      BY <2>1, <3>1
  <2>3. h \in Seq(Seq(QueuedType)) /\ Len(h) = n - k /\ \A i \in 1 .. n - k : h[i] = v[k + i]
    BY <2>1, <2>2
  <2> HIDE DEF h
  <2> QED
    BY <2>3
<1>11. PICK a \in Seq(BeforePhase(id)) : a = Queues!FlattenSeq(g)
  <2>1. \A i \in 1 .. Len(g) : g[i] \in Seq(BeforePhase(id))
    <3> SUFFICES ASSUME NEW i \in 1 .. k - 1
                 PROVE  g[i] \in Seq(BeforePhase(id))
      BY <1>9
    <3>1. PICK j \in Int : j = b + i - 1
      BY <1>3
    <3>2. j < id /\ i \in 1 .. n
      <4>1. i \in Int /\ 1 <= i /\ i <= k - 1
        BY <1>0
      <4> QED
        BY <1>0, <1>3, <3>1, <4>1
    <3>3. g[i] \in Seq(InPhase(j))
      BY <1>1, <1>5, <1>9, <3>1, <3>2
    <3>4. InPhase(j) \subseteq BeforePhase(id)
      BY <3>2 DEF InPhase, BeforePhase
    <3> QED
      BY <3>3, <3>4, SeqMonotonic
  <2>2. g \in Seq(Seq(BeforePhase(id)))
    BY <2>1, SeqOver
  <2>3. <<>> \in Seq(BeforePhase(id))
    OBVIOUS
  <2> QED
    BY <2>2, <2>3, FlattenAppend
<1>12. PICK c \in Seq(AfterPhase(id)) : c = Queues!FlattenSeq(h)
  <2>1. \A i \in 1 .. Len(h) : h[i] \in Seq(AfterPhase(id))
    <3> SUFFICES ASSUME NEW i \in 1 .. n - k
                 PROVE  h[i] \in Seq(AfterPhase(id))
      BY <1>10
    <3>1. PICK j \in Int : j = b + (k + i) - 1
      BY <1>3, <1>4
    <3>2. j > id /\ k + i \in 1 .. n
      <4>1. i \in Int /\ 1 <= i /\ i <= n - k
        OBVIOUS
      <4> QED
        BY <1>0, <1>3, <3>1, <4>1
    <3>3. h[i] \in Seq(InPhase(j))
      BY <1>1, <1>5, <1>10, <3>1, <3>2
    <3>4. InPhase(j) \subseteq AfterPhase(id)
      BY <3>2 DEF InPhase, AfterPhase
    <3> QED
      BY <3>3, <3>4, SeqMonotonic
  <2>2. h \in Seq(Seq(AfterPhase(id)))
    BY <2>1, SeqOver
  <2>3. <<>> \in Seq(AfterPhase(id))
    OBVIOUS
  <2> QED
    BY <2>2, <2>3, FlattenAppend
<1>13. ASSUME NEW s \in Seq(InPhase(id))
       PROVE  Queues!FlattenSeq(W(s)) = (a \o s) \o c
  <2>1. s \in Seq(QueuedType)
    BY <1>6, SeqMonotonic
  <2>2. PICK t \in Seq(Seq(QueuedType)) : t = Append(g, s)
    BY <2>1, AppendProperties
  <2>3. Len(t) = k /\ \A i \in 1 .. k : t[i] = IF i = k THEN s ELSE v[i]
    <3>1. Len(t) = k
      BY <1>3, <1>4, <1>9, <2>1, <2>2
    <3>2. t[k] = s
      BY <1>3, <1>4, <1>9, <2>1, <2>2
    <3>3. \A i \in 1 .. k - 1 : t[i] = v[i]
      BY <1>3, <1>4, <1>9, <2>1, <2>2
    <3>4. \A i \in 1 .. k : i = k \/ i \in 1 .. k - 1
      BY <1>3, <1>4
    <3>5. \A i \in 1 .. k - 1 : i # k
      BY <1>3, <1>4
    <3> QED
      BY <3>1, <3>2, <3>3, <3>4, <3>5
  <2>4. PICK z \in Seq(Seq(QueuedType)) : z = t \o h
    BY ConcatIs
  <2>5. Len(z) = n /\ \A i \in 1 .. n : z[i] = IF i <= k THEN t[i] ELSE v[i]
    <3>1. /\ Len(z) = Len(t) + Len(h)
          /\ \A i \in 1 .. Len(t) + Len(h) : z[i] = IF i <= Len(t) THEN t[i] ELSE h[i - Len(t)]
      BY <2>4, ConcatIs
    <3>2. Len(t) = k /\ Len(h) = n - k /\ k + (n - k) = n
      BY <1>3, <1>4, <1>10, <2>3
    <3>3. Len(z) = n /\ \A i \in 1 .. n : z[i] = IF i <= k THEN t[i] ELSE h[i - k]
      BY <3>1, <3>2
    <3>4. \A i \in 1 .. n : ~(i <= k) => i - k \in 1 .. n - k /\ k + (i - k) = i
      BY <1>3, <1>4
    <3>5. \A i \in 1 .. n : ~(i <= k) => h[i - k] = v[i]
      BY <1>10, <3>4
    <3> QED
      BY <3>3, <3>5
  <2>6. PICK u : u = W(s)
    OBVIOUS
  <2>7. u \in Seq(Seq(QueuedType)) /\ Len(u) = n
    BY <1>7, <2>6
  <2>8. \A i \in 1 .. n : u[i] = IF i = k THEN s ELSE v[i]
    <3> HIDE DEF W
    <3> QED
      BY <1>7, <2>6
  <2>9. \A i \in 1 .. n : i <= k => i \in 1 .. k
    BY <1>3, <1>4
  <2>10. k <= k
    BY <1>3, <1>4
  <2>11. \A i \in 1 .. n : u[i] = z[i]
    BY <2>3, <2>5, <2>8, <2>9, <2>10
  <2>12. u = z
    BY <2>5, <2>7, <2>11, SeqEqual
  <2>13. Queues!FlattenSeq(t) = Queues!FlattenSeq(g) \o s
    BY <2>1, <2>2, FlattenAppend
  <2>14. Queues!FlattenSeq(z) = Queues!FlattenSeq(t) \o Queues!FlattenSeq(h)
    BY <2>4, FlattenConcat
  <2> QED
    BY <1>11, <1>12, <2>6, <2>12, <2>13, <2>14
<1>14. Queues!FlattenSeq(v) = (a \o Queues!At(m, id)) \o c
  <2>1. W(v[k]) = v
    <3>1. PICK u : u = W(v[k])
      OBVIOUS
    <3>2. v[k] \in Seq(InPhase(id))
      BY <1>1, <1>4
    <3>3. \A i \in 1 .. n : u[i] = v[i]
      <4> HIDE DEF W
      <4> QED
        BY <1>7, <3>1, <3>2
    <3>4. u \in Seq(Seq(QueuedType)) /\ Len(u) = n
      <4> HIDE DEF W
      <4> QED
        BY <1>7, <3>1, <3>2
    <3>5. u = v
      BY <1>2, <1>3, <3>3, <3>4, SeqEqual
    <3> QED
      BY <3>1, <3>5
  <2>2. v[k] \in Seq(InPhase(id))
    BY <1>1, <1>4
  <2> HIDE DEF W
  <2> QED
    BY <1>4, <1>13, <2>1, <2>2
<1>15. ASSUME NEW s \in Seq(InPhase(id))
       PROVE  Queues!FlattenSeq(Queues!WithQueue(m, id, s).values) = (a \o s) \o c
  <2> HIDE DEF W
  <2>1. Queues!WithQueue(m, id, s) = [base |-> b, values |-> W(s)]
    BY <1>7
  <2>2. Queues!WithQueue(m, id, s).values = W(s)
    BY <2>1
  <2> QED
    BY <1>13, <2>2
<1>16. Queues!At(m, id) \in Seq(InPhase(id))
  BY <1>1
<1>17. Around(m, id, a, c)
  <2> HIDE DEF W
  <2> QED
    BY <1>2, <1>14, <1>15, <1>16 DEF Around, AreParts
<1> QED
  BY <1>8, <1>17

-----------------------------------------------------------------------------
(* The bounds. *)

\* s and l are the least and the greatest id with items in m, or say that there are none.
BoundsOf(m, s, l) ==
    \/ s = MaxId /\ l = -MaxId /\ \A j \in Int : Queues!At(m, j) = <<>>
    \/ /\ s \in Id /\ l \in Id /\ Queues!At(m, s) # <<>> /\ Queues!At(m, l) # <<>>
       /\ \A j \in Int : Queues!At(m, j) # <<>> => s <= j /\ j <= l

\* An id whose queue is not empty is a phase.
LEMMA UsedIsPhase ==
    ASSUME NEW m, MapInv(m), NEW j \in Int, Queues!At(m, j) # <<>>
    PROVE  j \in Id
<1>1. Queues!At(m, j) \in Seq(InPhase(j))
  BY DEF MapInv
<1>2. PICK x : x \in InPhase(j)
  BY <1>1, EmptySeq
<1> QED
  BY <1>2 DEF InPhase, QueuedType

\* After the queue of id was made shorter, update_bounds finds the bounds again.
LEMMA BoundsAre ==
    ASSUME NEW m, NEW w, MapInv(m), MapInv(w), BoundsOf(m, start, last), start # MaxId,
           NEW id \in Id, \A j \in Int \ {id} : Queues!At(w, j) = Queues!At(m, j),
           Queues!At(w, id) # <<>> => Queues!At(m, id) # <<>>
    PROVE  LET b == Queues!Bounds(w, id) IN BoundsOf(w, b[1], b[2])
<1> DEFINE N(x) == Queues!At(w, x) # <<>>
<1>1. /\ start \in Id /\ last \in Id /\ Queues!At(m, start) # <<>> /\ Queues!At(m, last) # <<>>
      /\ \A j \in Int : Queues!At(m, j) # <<>> => start <= j /\ j <= last
  BY DEF BoundsOf
<1>2. Id \subseteq Int
  BY PartsAssumption DEF Queues!QueuesAssumption
<1>3. start \in Int /\ last \in Int /\ start <= last /\ id \in Int
  BY <1>1, <1>2
<1>4. /\ \A j \in Int : N(j) => start <= j /\ j <= last
      /\ start # id => N(start)
      /\ last # id => N(last)
  BY <1>1, <1>2, <1>3
<1> DEFINE S == {x \in start .. last + 1 : x > last \/ N(x)}
<1> HIDE DEF N
<1>5. PICK s : s = IF start = id THEN Queues!Min(S) ELSE start
  OBVIOUS
<1>6. /\ s \in Int /\ start <= s /\ s <= last + 1
      /\ s > last \/ N(s)
      /\ \A j \in Int : N(j) => s <= j
  <2>1. CASE start = id
    <3>1. last + 1 \in S /\ last + 1 \in Int
      BY <1>3
    <3>2. S \in SUBSET (start .. last + 1)
      OBVIOUS
    <3>3. s \in S /\ \A x \in S : s <= x
      <4> HIDE DEF S
      <4> QED
        BY <1>3, <1>5, <2>1, <3>1, <3>2, MinOfRange
    <3>4. \A j \in Int : N(j) => j \in S
      BY <1>3, <1>4
    <3>5. s \in Int /\ start <= s /\ s <= last + 1
      BY <1>3, <3>3
    <3> QED
      BY <3>3, <3>4, <3>5
  <2>2. CASE start # id
    BY <1>3, <1>4, <1>5, <2>2
  <2> QED
    BY <2>1, <2>2
<1> DEFINE L == {x \in s - 1 .. last : x < s \/ N(x)}
<1>7. PICK l : l = IF last = id THEN Queues!Max(L) ELSE last
  OBVIOUS
<1>8. /\ l \in Int /\ l <= last
      /\ l < s \/ N(l)
      /\ \A j \in Int : N(j) => j <= l
  <2>1. CASE last = id
    <3>1. s - 1 \in L /\ s - 1 \in Int
      BY <1>3, <1>6
    <3>2. L \in SUBSET (s - 1 .. last)
      OBVIOUS
    <3>3. l \in L /\ \A x \in L : x <= l
      <4> HIDE DEF L
      <4> QED
        BY <1>3, <1>7, <2>1, <3>1, <3>2, MaxOfRange
    <3>4. \A j \in Int : N(j) => j \in L
      BY <1>3, <1>4, <1>6
    <3>5. l \in Int /\ l <= last
      BY <1>3, <1>6, <3>3
    <3> QED
      BY <3>3, <3>4, <3>5
  <2>2. CASE last # id
    BY <1>3, <1>4, <1>7, <2>2
  <2> QED
    BY <2>1, <2>2
<1>9. Queues!Bounds(w, id) = IF s > l THEN <<MaxId, -MaxId>> ELSE <<s, l>>
  BY <1>5, <1>7 DEF Queues!Bounds, N
<1> HIDE DEF S, L
<1>10. CASE s > l
  <2>1. \A j \in Int : ~N(j)
    <3> SUFFICES ASSUME NEW j \in Int, N(j)
                 PROVE  FALSE
      OBVIOUS
    <3>1. s <= j /\ j <= l
      BY <1>6, <1>8
    <3>2. s \in Int /\ l \in Int
      BY <1>6, <1>8
    <3> QED
      BY <1>10, <3>1, <3>2
  <2>2. Queues!Bounds(w, id) = <<MaxId, -MaxId>>
    BY <1>9, <1>10
  <2> QED
    BY <2>1, <2>2 DEF BoundsOf, N
<1>11. CASE ~(s > l)
  <2>1. Queues!Bounds(w, id) = <<s, l>>
    BY <1>9, <1>11
  <2>2. s \in Int /\ l \in Int /\ l <= last
    BY <1>6, <1>8
  <2>3. ~(s > last) /\ ~(l < s)
    BY <1>3, <1>11, <2>2
  <2>4. N(s) /\ N(l)
    BY <1>6, <1>8, <2>3
  <2>5. s \in Id /\ l \in Id
    BY <2>2, <2>4, UsedIsPhase DEF N
  <2>6. \A j \in Int : N(j) => s <= j /\ j <= l
    BY <1>6, <1>8
  <2>7. BoundsOf(w, s, l)
    BY <2>4, <2>5, <2>6 DEF BoundsOf, N
  <2> QED
    BY <2>1, <2>7
<1> QED
  BY <1>10, <1>11

\* What the invariant says of the bounds is what BoundsAreExact does.
LEMMA BoundsExact ==
    ASSUME MapInv(map), BoundsOf(map, start, last)
    PROVE  Queues!BoundsAreExact
<1> DEFINE used == {id \in Id : Queues!At(map, id) # <<>>}
<1>1. Id \subseteq Int
  BY PartsAssumption DEF Queues!QueuesAssumption
<1>2. CASE start = MaxId /\ last = -MaxId /\ \A j \in Int : Queues!At(map, j) = <<>>
  <2>1. used = {}
    BY <1>1, <1>2
  <2> HIDE DEF used
  <2> QED
    BY <1>2, <2>1 DEF Queues!BoundsAreExact, Queues!IsEmpty, used
<1>3. CASE /\ start \in Id /\ last \in Id
           /\ Queues!At(map, start) # <<>> /\ Queues!At(map, last) # <<>>
           /\ \A j \in Int : Queues!At(map, j) # <<>> => start <= j /\ j <= last
  <2>1. /\ start \in used /\ last \in used /\ used \subseteq Int
        /\ \A j \in used : start <= j /\ j <= last
    BY <1>1, <1>3
  <2>2. Queues!Ids = used
    <3>1. \A j \in start .. last : Queues!At(map, j) # <<>> => j \in Id
      BY UsedIsPhase
    <3>2. \A j \in used : j \in start .. last
      BY <1>1, <1>3, <2>1
    <3> QED
      BY <3>1, <3>2 DEF Queues!Ids
  <2>3. start = Queues!Min(used) /\ last = Queues!Max(used)
    <3> HIDE DEF used
    <3> QED
      BY <2>1, MinIs, MaxIs
  <2> HIDE DEF used
  <2>4. used # {}
    BY <2>1
  <2> QED
    BY <2>2, <2>3, <2>4 DEF Queues!BoundsAreExact, used
<1> QED
  BY <1>2, <1>3 DEF BoundsOf

-----------------------------------------------------------------------------
(* The invariant. *)

QueuesInv ==
    /\ MapInv(map)
    /\ BoundsOf(map, start, last)
    /\ order = [queue |-> Queues!FlattenSeq(map.values), taken |-> taken]

\* The items before a phase in the map, those of the phase, and those behind it are what
\* PhaseOrder says, and so are they with another queue s of the phase.
LEMMA OrderOfMap ==
    ASSUME NEW m, MapInv(m), NEW id \in Id, Queues!Within(m, id),
           NEW q, q = Queues!FlattenSeq(m.values)
    PROVE  /\ Queues!OfPhase(q, id) = Queues!At(m, id)
           /\ \A s \in Seq(InPhase(id)) :
                 Queues!FlattenSeq(Queues!WithQueue(m, id, s).values)
                    = (Queues!Below(q, id) \o s) \o Queues!Above(q, id)
<1>1. id \in Int
  BY PartsAssumption DEF Queues!QueuesAssumption
<1>2. PICK a, c : Around(m, id, a, c)
  BY <1>1, WithQueueIs
<1>3. /\ AreParts(q, id, a, Queues!At(m, id), c)
      /\ \A s \in Seq(InPhase(id)) :
            Queues!FlattenSeq(Queues!WithQueue(m, id, s).values) = (a \o s) \o c
  BY <1>2 DEF Around
<1>4. /\ Queues!Below(q, id) = a /\ Queues!OfPhase(q, id) = Queues!At(m, id)
      /\ Queues!Above(q, id) = c
  BY <1>1, <1>3, OrderParts
<1> QED
  BY <1>3, <1>4

LEMMA QueuesInvInit == Queues!Init => QueuesInv
<1> SUFFICES ASSUME Queues!Init
             PROVE  QueuesInv
  OBVIOUS
<1>1. /\ map = [base |-> 0, values |-> <<>>] /\ start = MaxId /\ last = -MaxId
      /\ taken = <<>> /\ order = [queue |-> <<>>, taken |-> <<>>]
  BY DEF Queues!Init
<1>2. map \in MapType
  BY <1>1 DEF MapType
<1>3. map.values = <<>> /\ Len(map.values) = 0
  BY <1>1
<1>4. \A j \in Int : Queues!At(map, j) = <<>>
  <2> SUFFICES ASSUME NEW j \in Int
               PROVE  Queues!At(map, j) = <<>>
    OBVIOUS
  <2>1. j - map.base + 1 \notin 1 .. Len(map.values)
    BY <1>3
  <2> QED
    BY <1>2, <2>1, AtIs
<1>5. \A j \in Int : <<>> \in Seq(InPhase(j))
  OBVIOUS
<1>6. MapInv(map)
  BY <1>2, <1>4, <1>5 DEF MapInv
<1> QED
  BY <1>1, <1>3, <1>4, <1>6, FlattenEmpty DEF QueuesInv, BoundsOf

\* push.
LEMMA PushStep ==
    ASSUME QueuesInv, NEW id \in Id, NEW x \in Item, Queues!PushItem(id, x)
    PROVE  QueuesInv'
<1>1. id \in Int /\ MaxId \in Int /\ -MaxId < id /\ id < MaxId /\ Id \subseteq Int
  BY PartsAssumption DEF Queues!QueuesAssumption
<1>2. PICK y : y = [phase |-> id, of |-> x]
  OBVIOUS
<1>3. y \in InPhase(id) /\ y.phase = id
  BY <1>2 DEF InPhase, QueuedType
<1>4. PICK m : m = Queues!Prepared(map, id)
  OBVIOUS
<1>5. /\ MapInv(m) /\ Queues!Within(m, id)
      /\ \A j \in Int : Queues!At(m, j) = Queues!At(map, j)
      /\ Queues!FlattenSeq(m.values) = Queues!FlattenSeq(map.values)
  BY <1>1, <1>4, PreparedIs DEF QueuesInv
<1>6. PICK b \in Seq(InPhase(id)) : b = Queues!At(m, id)
  BY <1>1, <1>5 DEF MapInv
<1>7. PICK s : s = Append(b, y)
  OBVIOUS
<1>8. s \in Seq(InPhase(id)) /\ s # <<>>
  BY <1>3, <1>7
<1>9. /\ map' = Queues!WithQueue(m, id, s)
      /\ start' = Queues!Min({start, id}) /\ last' = Queues!Max({last, id}) /\ taken' = <<>>
      /\ order' = [queue |-> Queues!Push(order.queue, y), taken |-> <<>>]
  BY <1>2, <1>4, <1>6, <1>7 DEF Queues!PushItem
<1>10. /\ MapInv(map)'
       /\ \A j \in Int : Queues!At(map', j) = IF j = id THEN s ELSE Queues!At(map, j)
  <2>1. /\ MapInv(map')
        /\ \A j \in Int : Queues!At(map', j) = IF j = id THEN s ELSE Queues!At(m, j)
    BY <1>1, <1>5, <1>8, <1>9, WithQueueIs DEF Replaced
  <2> QED
    BY <1>5, <2>1 DEF MapInv, MapType, InPhase, QueuedType, Queues!At, Queues!Within
<1>11. BoundsOf(map, start, last)'
  <2>1. CASE start = MaxId /\ last = -MaxId /\ \A j \in Int : Queues!At(map, j) = <<>>
    <3>1. start' = id /\ last' = id
      <4>1. start \in Int /\ last \in Int /\ start > id /\ last < id
        BY <1>1, <2>1
      <4>2. start' \in {start, id} /\ start' <= id
        BY <1>1, <1>9, <4>1, MinOfPair
      <4>3. last' \in {last, id} /\ id <= last'
        BY <1>1, <1>9, <4>1, MaxOfPair
      <4> QED
        BY <1>1, <4>1, <4>2, <4>3
    <3>2. \A j \in Int : Queues!At(map', j) # <<>> => j = id
      BY <1>10, <2>1
    <3>3. Queues!At(map', id) # <<>>
      BY <1>1, <1>8, <1>10
    <3>4. id <= id
      BY <1>1
    <3>5. BoundsOf(map', start', last')
      BY <3>1, <3>2, <3>3, <3>4 DEF BoundsOf
    <3> QED
      BY <3>5 DEF BoundsOf, Queues!At, Queues!Within
  <2>2. CASE /\ start \in Id /\ last \in Id
             /\ Queues!At(map, start) # <<>> /\ Queues!At(map, last) # <<>>
             /\ \A j \in Int : Queues!At(map, j) # <<>> => start <= j /\ j <= last
    <3>1. start \in Int /\ last \in Int
      BY <1>1, <2>2
    <3>2. /\ start' \in {start, id} /\ start' <= id /\ start' <= start
          /\ last' \in {last, id} /\ id <= last' /\ last <= last'
      BY <1>1, <1>9, <3>1, MinOfPair, MaxOfPair
    <3>3. start' \in Id /\ last' \in Id /\ start' \in Int /\ last' \in Int
      BY <1>1, <2>2, <3>2
    <3>4. Queues!At(map', start') # <<>> /\ Queues!At(map', last') # <<>>
      BY <1>8, <1>10, <2>2, <3>2, <3>3
    <3>5. \A j \in Int : Queues!At(map', j) # <<>> => start' <= j /\ j <= last'
      <4> SUFFICES ASSUME NEW j \in Int, Queues!At(map', j) # <<>>
                   PROVE  start' <= j /\ j <= last'
        OBVIOUS
      <4>1. CASE j = id
        BY <3>2, <4>1
      <4>2. CASE j # id
        <5>1. start <= j /\ j <= last
          BY <1>10, <2>2, <4>2
        <5> QED
          BY <3>1, <3>2, <3>3, <5>1
      <4> QED
        BY <4>1, <4>2
    <3>6. BoundsOf(map', start', last')
      BY <3>3, <3>4, <3>5 DEF BoundsOf
    <3> QED
      BY <3>6 DEF BoundsOf, Queues!At, Queues!Within
  <2> QED
    BY <2>1, <2>2 DEF QueuesInv, BoundsOf
<1>12. Queues!Push(order.queue, y) = Queues!FlattenSeq(map'.values)
  <2>1. PICK q : q = order.queue
    OBVIOUS
  <2>2. q = Queues!FlattenSeq(m.values)
    BY <1>5, <2>1 DEF QueuesInv
  <2>3. /\ Queues!OfPhase(q, id) = b
        /\ Queues!FlattenSeq(map'.values) = (Queues!Below(q, id) \o s) \o Queues!Above(q, id)
    BY <1>5, <1>6, <1>8, <1>9, <2>2, OrderOfMap
  <2> QED
    BY <1>3, <1>7, <2>1, <2>3 DEF Queues!Push
<1> QED
  BY <1>9, <1>10, <1>11, <1>12 DEF QueuesInv, Queues!FlattenSeq

\* The items of id, and how the queue goes on when they are handed out.
LEMMA TakenIs ==
    ASSUME NEW q, NEW id \in Id
    PROVE  /\ Queues!Drained(q, id) = Queues!OfPhase(q, id)
           /\ Queues!Remaining(q, id) = Queues!Below(q, id) \o Queues!Above(q, id)
<1>1. id # All
  BY PartsAssumption DEF Queues!QueuesAssumption
<1> QED
  BY <1>1 DEF Queues!Drained, Queues!Remaining

\* pop_front.
LEMMA PopStep ==
    ASSUME QueuesInv, NEW id \in Id, Queues!PopFront(id)
    PROVE  QueuesInv'
<1>1. id \in Int
  BY PartsAssumption DEF Queues!QueuesAssumption
<1>2. MapInv(map) /\ BoundsOf(map, start, last)
      /\ order = [queue |-> Queues!FlattenSeq(map.values), taken |-> taken]
  BY DEF QueuesInv
<1>3. PICK b \in Seq(InPhase(id)) : b = Queues!At(map, id)
  BY <1>1, <1>2 DEF MapInv
<1>4. PICK t : t = Tail(b)
  OBVIOUS
<1>5. /\ b # <<>> /\ map' = Queues!WithQueue(map, id, t)
      /\ start' = Queues!Bounds(map', id)[1] /\ last' = Queues!Bounds(map', id)[2]
      /\ taken' = <<Head(b)>>
      /\ order' = [queue |-> Queues!Popped(order.queue, id),
                   taken |-> <<Head(Queues!Drained(order.queue, id))>>]
  BY <1>3, <1>4 DEF Queues!PopFront, Queues!Bounded
<1>6. t \in Seq(InPhase(id))
  BY <1>4, <1>5
<1>7. Queues!Within(map, id)
  BY <1>3, <1>5 DEF Queues!At
<1>8. /\ MapInv(map')
      /\ \A j \in Int : Queues!At(map', j) = IF j = id THEN t ELSE Queues!At(map, j)
  BY <1>1, <1>2, <1>5, <1>6, <1>7, WithQueueIs DEF Replaced
<1>9. start # MaxId
  <2>1. \E j \in Int : Queues!At(map, j) # <<>>
    BY <1>1, <1>3, <1>5
  <2>2. start \in Id
    BY <1>2, <2>1 DEF BoundsOf
  <2>3. start \in Int /\ start < MaxId /\ MaxId \in Int
    BY <2>2, PartsAssumption DEF Queues!QueuesAssumption
  <2> QED
    BY <2>3
<1>10. BoundsOf(map', start', last')
  <2>1. \A j \in Int \ {id} : Queues!At(map', j) = Queues!At(map, j)
    BY <1>8
  <2>2. Queues!At(map, id) # <<>>
    BY <1>3, <1>5
  <2>3. LET d == Queues!Bounds(map', id) IN BoundsOf(map', d[1], d[2])
    BY <1>2, <1>8, <1>9, <2>1, <2>2, BoundsAre
  <2> QED
    BY <1>5, <2>3
<1>11. PICK q : q = order.queue
  OBVIOUS
<1>12. /\ Queues!OfPhase(q, id) = b
       /\ Queues!FlattenSeq(map'.values) = (Queues!Below(q, id) \o t) \o Queues!Above(q, id)
  <2>1. q = Queues!FlattenSeq(map.values)
    BY <1>2, <1>11
  <2> QED
    BY <1>2, <1>3, <1>5, <1>6, <1>7, <2>1, OrderOfMap
<1>13. Queues!Popped(q, id) = Queues!FlattenSeq(map'.values)
  BY <1>4, <1>12 DEF Queues!Popped
<1>14. Queues!Drained(q, id) = b
  BY <1>12, TakenIs
<1>15. order' = [queue |-> Queues!FlattenSeq(map'.values), taken |-> taken']
  BY <1>5, <1>11, <1>13, <1>14
<1> QED
  BY <1>8, <1>10, <1>15
     DEF QueuesInv, BoundsOf, MapInv, MapType, InPhase, QueuedType, Queues!At, Queues!Within,
         Queues!FlattenSeq

\* drain of one id.
LEMMA DrainOneStep ==
    ASSUME QueuesInv, NEW id \in Id, Queues!DrainOne(id)
    PROVE  QueuesInv'
<1>1. id \in Int
  BY PartsAssumption DEF Queues!QueuesAssumption
<1>2. MapInv(map) /\ BoundsOf(map, start, last)
      /\ order = [queue |-> Queues!FlattenSeq(map.values), taken |-> taken]
  BY DEF QueuesInv
<1>3. PICK q : q = order.queue
  OBVIOUS
<1>4. q = Queues!FlattenSeq(map.values)
  BY <1>2, <1>3
<1>5. /\ start # MaxId
      /\ map' = IF Queues!Within(map, id) THEN Queues!WithQueue(map, id, <<>>) ELSE map
      /\ start' = Queues!Bounds(map', id)[1] /\ last' = Queues!Bounds(map', id)[2]
      /\ taken' = Queues!At(map, id)
      /\ order' = [queue |-> Queues!Remaining(q, id), taken |-> Queues!Drained(q, id)]
  BY <1>3 DEF Queues!DrainOne, Queues!Bounded, Queues!Taking, Queues!IsEmpty
<1>6. <<>> \in Seq(InPhase(id))
  OBVIOUS
<1>7. /\ MapInv(map')
      /\ \A j \in Int : Queues!At(map', j) = IF j = id THEN <<>> ELSE Queues!At(map, j)
  <2>1. CASE Queues!Within(map, id)
    <3>1. map' = Queues!WithQueue(map, id, <<>>)
      BY <1>5, <2>1
    <3>2. Replaced(map, id, <<>>, map')
      BY <1>1, <1>2, <1>6, <2>1, <3>1, WithQueueIs
    <3> QED
      BY <3>2 DEF Replaced
  <2>2. CASE ~Queues!Within(map, id)
    <3>1. map' = map
      BY <1>5, <2>2
    <3>2. Queues!At(map, id) = <<>>
      BY <2>2 DEF Queues!At
    <3> QED
      BY <1>2, <3>1, <3>2
  <2> QED
    BY <2>1, <2>2
<1>8. BoundsOf(map', start', last')
  <2>1. /\ \A j \in Int \ {id} : Queues!At(map', j) = Queues!At(map, j)
        /\ Queues!At(map', id) = <<>>
    BY <1>1, <1>7
  <2>2. LET d == Queues!Bounds(map', id) IN BoundsOf(map', d[1], d[2])
    BY <1>2, <1>5, <1>7, <2>1, BoundsAre
  <2> QED
    BY <1>5, <2>2
<1>9. /\ Queues!OfPhase(q, id) = Queues!At(map, id)
      /\ Queues!FlattenSeq(map'.values) = (Queues!Below(q, id) \o <<>>) \o Queues!Above(q, id)
  <2>1. PICK m : m = Queues!Prepared(map, id)
    OBVIOUS
  <2>2. /\ MapInv(m) /\ Queues!Within(m, id)
        /\ \A j \in Int : Queues!At(m, j) = Queues!At(map, j)
        /\ Queues!FlattenSeq(m.values) = Queues!FlattenSeq(map.values)
    BY <1>1, <1>2, <2>1, PreparedIs
  <2>3. PICK w : w = Queues!WithQueue(m, id, <<>>)
    OBVIOUS
  <2>4. /\ Queues!OfPhase(q, id) = Queues!At(m, id)
        /\ Queues!FlattenSeq(w.values) = (Queues!Below(q, id) \o <<>>) \o Queues!Above(q, id)
    BY <1>4, <1>6, <2>2, <2>3, OrderOfMap
  <2>5. /\ MapInv(w)
        /\ \A j \in Int : Queues!At(w, j) = IF j = id THEN <<>> ELSE Queues!At(m, j)
    <3>1. Replaced(m, id, <<>>, w)
      BY <1>1, <1>6, <2>2, <2>3, WithQueueIs
    <3> QED
      BY <3>1 DEF Replaced
  <2>6. \A j \in Int : Queues!At(map', j) = Queues!At(w, j)
    BY <1>7, <2>2, <2>5
  <2>7. map' \in MapType /\ w \in MapType
    BY <1>7, <2>5 DEF MapInv
  <2>8. Queues!FlattenSeq(map'.values) = Queues!FlattenSeq(w.values)
    BY <2>6, <2>7, SameQueues
  <2> QED
    BY <1>1, <2>2, <2>4, <2>8
<1>10. Queues!Below(q, id) \o <<>> = Queues!Below(q, id)
  <2>1. Queues!FlattenSeq(map.values) \in Seq(QueuedType)
    <3>1. map.values \in Seq(Seq(QueuedType)) /\ <<>> \in Seq(QueuedType)
      BY <1>2 DEF MapInv, MapType
    <3> QED
      BY <3>1, FlattenAppend
  <2>2. Queues!Below(q, id) \in Seq(QueuedType)
    BY <1>4, <2>1, BelowType
  <2> QED
    BY <2>2
<1>11. Queues!Remaining(q, id) = Queues!FlattenSeq(map'.values)
       /\ Queues!Drained(q, id) = Queues!At(map, id)
  BY <1>9, <1>10, TakenIs
<1>12. order' = [queue |-> Queues!FlattenSeq(map'.values), taken |-> taken']
  BY <1>5, <1>11
<1> QED
  BY <1>7, <1>8, <1>12
     DEF QueuesInv, BoundsOf, MapInv, MapType, InPhase, QueuedType, Queues!At, Queues!Within,
         Queues!FlattenSeq

\* drain of all ids.
LEMMA DrainAllStep ==
    ASSUME QueuesInv, Queues!DrainAll
    PROVE  QueuesInv'
<1>1. MapInv(map) /\ map \in MapType /\ BoundsOf(map, start, last)
      /\ order = [queue |-> Queues!FlattenSeq(map.values), taken |-> taken]
  BY DEF QueuesInv, MapInv
<1>2. PICK v, b, n : v = map.values /\ b = map.base /\ n = Len(v)
  OBVIOUS
<1>3. v \in Seq(Seq(QueuedType)) /\ b \in Int /\ n \in Nat /\ map = [base |-> b, values |-> v]
  BY <1>1, <1>2 DEF MapType
<1>4. start \in Int /\ last \in Int
  <2>1. Id \subseteq Int /\ MaxId \in Int /\ -MaxId \in Int
    BY PartsAssumption DEF Queues!QueuesAssumption
  <2> QED
    BY <1>1, <2>1 DEF BoundsOf
<1>5. \A j \in Int : Queues!At(map, j) # <<>> => j \in start .. last
  BY <1>1, PartsAssumption DEF BoundsOf, Queues!QueuesAssumption
<1>6. /\ map' = [map EXCEPT !.values = [i \in DOMAIN @ |-> IF map.base + i - 1 \in start .. last
                                                          THEN <<>> ELSE @[i]]]
      /\ start' = MaxId /\ last' = -MaxId
      /\ taken' = Queues!FlattenSeq([i \in 1 .. last - start + 1 |-> Queues!At(map, start + i - 1)])
      /\ order' = [queue |-> Queues!Remaining(order.queue, All),
                   taken |-> Queues!Drained(order.queue, All)]
  BY DEF Queues!DrainAll, Queues!Bounded, Queues!Taking
<1>7. PICK u : u = [i \in 1 .. n |-> IF b + i - 1 \in start .. last THEN <<>> ELSE v[i]]
  OBVIOUS
<1>8. \A i \in 1 .. n : u[i] = <<>>
  <2> SUFFICES ASSUME NEW i \in 1 .. n, b + i - 1 \notin start .. last
               PROVE  v[i] = <<>>
    BY <1>7
  <2>1. PICK j \in Int : j = b + i - 1
    BY <1>3
  <2>2. j - b + 1 = i /\ Queues!At(map, j) = <<>>
    BY <1>3, <1>5, <2>1
  <2> QED
    BY <1>1, <1>2, <2>2, AtIs
<1>9. u \in Seq({<<>>}) /\ Len(u) = n
  BY <1>3, <1>7, <1>8
<1>10. map' = [base |-> b, values |-> u]
  <2>1. DOMAIN map.values = 1 .. n
    BY <1>2, <1>3
  <2>2. map' = [map EXCEPT !.values = u]
    BY <1>2, <1>6, <1>7, <2>1
  <2> QED
    BY <1>3, <2>2
<1>11. map' \in MapType
  <2>1. {<<>>} \subseteq Seq(QueuedType)
    OBVIOUS
  <2>2. u \in Seq(Seq(QueuedType))
    BY <1>9, <2>1, SeqMonotonic
  <2> QED
    BY <1>3, <1>10, <2>2 DEF MapType
<1>12. \A j \in Int : Queues!At(map', j) = <<>>
  <2> SUFFICES ASSUME NEW j \in Int
               PROVE  Queues!At(map', j) = <<>>
    OBVIOUS
  <2>1. Queues!At(map', j) = IF j - b + 1 \in 1 .. n THEN u[j - b + 1] ELSE <<>>
    BY <1>9, <1>10, <1>11, AtIs
  <2> QED
    BY <1>8, <2>1
<1>13. MapInv(map')
  <2>1. \A j \in Int : <<>> \in Seq(InPhase(j))
    OBVIOUS
  <2> QED
    BY <1>11, <1>12, <2>1 DEF MapInv
<1>14. BoundsOf(map', start', last')
  BY <1>6, <1>12 DEF BoundsOf
<1>15. Queues!FlattenSeq(map'.values) = <<>>
  BY <1>9, <1>10, FlattenNothing
<1>16. taken' = Queues!FlattenSeq(map.values)
  <2> DEFINE d == [i \in 1 .. last - start + 1 |-> Queues!At(map, start + i - 1)]
             w == [base |-> start, values |-> d]
  <2>1. \A i \in 1 .. last - start + 1 : start + i - 1 \in Int
    BY <1>4
  <2>2. \A i \in 1 .. last - start + 1 : Queues!At(map, start + i - 1) \in Seq(QueuedType)
    BY <1>1, <2>1, AtIs
  <2>3. CASE last - start + 1 \in Nat
    <3>1. d \in Seq(Seq(QueuedType)) /\ Len(d) = last - start + 1
      BY <2>2, <2>3
    <3>2. w \in MapType /\ w.base = start /\ w.values = d
      BY <1>4, <3>1 DEF MapType
    <3>3. ASSUME NEW j \in Int
          PROVE  Queues!At(map, j) = Queues!At(w, j)
      <4> HIDE DEF w
      <4>1. Queues!At(w, j) = IF j - start + 1 \in 1 .. last - start + 1
                              THEN d[j - start + 1] ELSE <<>>
        <5> HIDE DEF d
        <5> QED
          BY <3>1, <3>2, AtIs
      <4>2. j - start + 1 \in 1 .. last - start + 1 <=> j \in start .. last
        BY <1>4
      <4>3. start + (j - start + 1) - 1 = j
        BY <1>4
      <4>4. CASE j \in start .. last
        BY <4>1, <4>2, <4>3, <4>4
      <4>5. CASE j \notin start .. last
        <5> HIDE DEF d
        <5> QED
          BY <1>5, <4>1, <4>2, <4>5
      <4> QED
        BY <4>4, <4>5
    <3>4. Queues!FlattenSeq(map.values) = Queues!FlattenSeq(w.values)
      <4> HIDE DEF w
      <4> QED
        BY <1>1, <3>2, <3>3, SameQueues
    <3> QED
      BY <1>6, <3>2, <3>4
  <2>4. CASE last - start + 1 \notin Nat
    <3>1. 1 .. last - start + 1 = {} /\ start .. last = {}
      BY <1>4, <2>4
    <3>2. d = <<>>
      BY <3>1
    <3>3. \A i \in 1 .. Len(v) : v[i] = <<>>
      <4> SUFFICES ASSUME NEW i \in 1 .. n
                   PROVE  v[i] = <<>>
        BY <1>2
      <4>1. PICK j \in Int : j = b + i - 1
        BY <1>3
      <4>2. j - b + 1 = i /\ Queues!At(map, j) = <<>>
        BY <1>3, <1>5, <3>1, <4>1
      <4> QED
        BY <1>1, <1>2, <4>2, AtIs
    <3>4. v \in Seq({<<>>})
      BY <1>3, <3>3
    <3>5. Queues!FlattenSeq(v) = <<>> /\ Queues!FlattenSeq(d) = <<>>
      BY <3>2, <3>4, FlattenNothing, FlattenEmpty
    <3> QED
      BY <1>2, <1>6, <3>5
  <2> QED
    BY <2>3, <2>4
<1>17. order' = [queue |-> <<>>, taken |-> Queues!FlattenSeq(map.values)]
  BY <1>1, <1>6 DEF Queues!Remaining, Queues!Drained
<1>18. order' = [queue |-> Queues!FlattenSeq(map'.values), taken |-> taken']
  BY <1>15, <1>16, <1>17
<1> QED
  BY <1>13, <1>14, <1>18
     DEF QueuesInv, BoundsOf, MapInv, MapType, InPhase, QueuedType, Queues!At, Queues!Within,
         Queues!FlattenSeq

LEMMA QueuesInvStep == QueuesInv /\ [Queues!Next]_(Queues!vars) => QueuesInv'
<1> SUFFICES ASSUME QueuesInv, [Queues!Next]_(Queues!vars)
             PROVE  QueuesInv'
  OBVIOUS
<1>1. CASE Queues!Next
  <2>1. ASSUME NEW id \in Id, NEW x \in Item, Queues!PushItem(id, x)
        PROVE  QueuesInv'
    BY <2>1, PushStep
  <2>2. ASSUME NEW id \in Id, Queues!PopFront(id)
        PROVE  QueuesInv'
    BY <2>2, PopStep
  <2>3. ASSUME NEW id \in Id, Queues!DrainOne(id)
        PROVE  QueuesInv'
    BY <2>3, DrainOneStep
  <2>4. CASE Queues!DrainAll
    BY <2>4, DrainAllStep
  <2> QED
    BY <1>1, <2>1, <2>2, <2>3, <2>4 DEF Queues!Next
<1>2. CASE UNCHANGED Queues!vars
  BY <1>2 DEF Queues!vars, QueuesInv, BoundsOf, MapInv, MapType, InPhase, QueuedType, Queues!At,
              Queues!Within, Queues!FlattenSeq
<1> QED
  BY <1>1, <1>2

LEMMA QueuesInvImplies == QueuesInv => QueuesKeepOrder
<1> SUFFICES ASSUME QueuesInv
             PROVE  QueuesKeepOrder
  OBVIOUS
<1>1. Queues!QueuesImplementOrder
  BY DEF QueuesInv, Queues!QueuesImplementOrder
<1>2. Queues!BoundsAreExact
  BY BoundsExact DEF QueuesInv
<1> QED
  BY <1>1, <1>2 DEF QueuesKeepOrder

-----------------------------------------------------------------------------
(* Waiters. *)

\* A source that has changed since the last run has left the binder "Dirty", and a binder
\* that is bound and not clean has scheduled its reaction.
StreamInv ==
    /\ stream \in [value : {"None", "Pending", "Ready"}, scheduled : BOOLEAN,
                   dirty : {"Clean", "MaybeDirty", "Dirty"}, bound : BOOLEAN,
                   stale : BOOLEAN, asleep : BOOLEAN]
    /\ stream.stale => stream.dirty = "Dirty"
    /\ stream.bound /\ stream.dirty # "Clean" => stream.scheduled
    /\ stream.value = "Ready" => stream.bound
    /\ stream.asleep => stream.value = "Pending"

LEMMA StreamInvInit == Streams!Init => StreamInv
  BY DEF Streams!Init, StreamInv

LEMMA StreamInvStep == StreamInv /\ (Streams!Next \/ UNCHANGED stream) => StreamInv'
<1> SUFFICES ASSUME StreamInv, Streams!Next \/ UNCHANGED stream
             PROVE  StreamInv'
  OBVIOUS
<1> USE DEF StreamInv
<1>1. CASE Streams!PollNext
  BY <1>1 DEF Streams!PollNext
<1>2. ASSUME NEW changed \in BOOLEAN, Streams!Update(changed)
      PROVE  StreamInv'
  BY <1>2 DEF Streams!Update
<1>3. ASSUME NEW level \in Streams!DirtyLevel, Streams!Notify(level)
      PROVE  StreamInv'
  BY <1>3 DEF Streams!Notify, Streams!DirtyLevel, Streams!ApplyNotify, Streams!NeedsNotify
<1>4. CASE UNCHANGED stream
  BY <1>4
<1> QED
  BY <1>1, <1>2, <1>3, <1>4 DEF Streams!Next, Streams!Updates

\* Until a value is sent, what a receiver has as its key is its own.
ShotInv ==
    /\ shot \in [sent : BOOLEAN, wakers : [Shots!Slot -> Receiver \cup {NoKey}],
                 key : [Receiver -> Shots!Slot \cup {NoKey}], asleep : SUBSET Receiver]
    /\ shot.sent => shot.asleep = {}
    /\ \A r \in Receiver : ~shot.sent /\ shot.key[r] # NoKey => shot.wakers[shot.key[r]] = r
    /\ \A r \in shot.asleep : shot.key[r] # NoKey

LEMMA ShotInvInit == Shots!Init => ShotInv
<1>1. Shots!Init => shot \in [sent : BOOLEAN, wakers : [Shots!Slot -> Receiver \cup {NoKey}],
                              key : [Receiver -> Shots!Slot \cup {NoKey}], asleep : SUBSET Receiver]
  BY DEF Shots!Init
<1> QED
  BY <1>1 DEF Shots!Init, ShotInv

LEMMA ShotInvStep == ShotInv /\ (Shots!Next \/ UNCHANGED shot) => ShotInv'
<1> SUFFICES ASSUME ShotInv, Shots!Next \/ UNCHANGED shot
             PROVE  ShotInv'
  OBVIOUS
<1>1. NoKey \notin Receiver /\ NoKey \notin Shots!Slot
  BY PartsAssumption DEF Shots!ReceiversAssumption
<1>2. CASE Shots!Send
  <2>1. \A r \in shot.asleep : r \in {shot.wakers[k] : k \in Shots!Slot}
    BY DEF ShotInv
  <2>2. shot'.asleep = {}
    BY <1>2, <2>1 DEF Shots!Send, ShotInv
  <2> QED
    BY <1>2, <2>2 DEF Shots!Send, ShotInv
<1>3. ASSUME NEW r \in Receiver, Shots!PollRecv(r)
      PROVE  ShotInv'
  <2>1. ~shot.sent
    BY <1>3 DEF Shots!PollRecv
  <2>2. PICK k \in IF shot.key[r] = NoKey THEN {x \in Shots!Slot : shot.wakers[x] = NoKey}
                   ELSE {shot.key[r]} :
           shot' = [shot EXCEPT !.wakers[k] = r, !.key[r] = k, !.asleep = @ \cup {r}]
    BY <1>3 DEF Shots!PollRecv
  <2>3. k \in Shots!Slot /\ (shot.wakers[k] = NoKey \/ shot.wakers[k] = r)
    BY <2>1 DEF ShotInv
  <2>4. /\ shot'.sent = shot.sent
        /\ shot'.wakers = [shot.wakers EXCEPT ![k] = r]
        /\ shot'.key = [shot.key EXCEPT ![r] = k]
        /\ shot'.asleep = shot.asleep \cup {r}
        /\ shot' = [sent |-> shot'.sent, wakers |-> shot'.wakers, key |-> shot'.key,
                    asleep |-> shot'.asleep]
    BY <2>2 DEF ShotInv
  <2>5. ASSUME NEW q \in Receiver, shot'.key[q] # NoKey
        PROVE  shot'.wakers[shot'.key[q]] = q
    <3>1. CASE q = r
      BY <2>3, <2>4, <3>1 DEF ShotInv
    <3>2. CASE q # r
      <4>1. shot'.key[q] = shot.key[q] /\ shot.wakers[shot.key[q]] = q /\ shot.key[q] \in Shots!Slot
        BY <2>1, <2>4, <2>5, <3>2 DEF ShotInv
      <4>2. shot.key[q] # k
        BY <1>1, <2>3, <3>2, <4>1
      <4> QED
        BY <2>4, <4>1, <4>2 DEF ShotInv
    <3> QED
      BY <3>1, <3>2
  <2>6. \A q \in shot'.asleep : shot'.key[q] # NoKey
    BY <1>1, <2>3, <2>4 DEF ShotInv
  <2>7. shot' \in [sent : BOOLEAN, wakers : [Shots!Slot -> Receiver \cup {NoKey}],
                   key : [Receiver -> Shots!Slot \cup {NoKey}], asleep : SUBSET Receiver]
    BY <2>3, <2>4 DEF ShotInv
  <2> QED
    BY <2>1, <2>4, <2>5, <2>6, <2>7 DEF ShotInv
<1>4. ASSUME NEW r \in Receiver, Shots!EndRecv(r)
      PROVE  ShotInv'
  <2>1. /\ shot.key[r] # NoKey /\ shot.key[r] \in Shots!Slot
        /\ shot' = [shot EXCEPT !.wakers[shot.key[r]] = NoKey, !.key[r] = NoKey,
                                !.asleep = @ \ {r}]
    BY <1>4 DEF Shots!EndRecv, ShotInv
  <2>2. PICK k : k = shot.key[r]
    OBVIOUS
  <2>3. /\ shot'.sent = shot.sent
        /\ shot'.wakers = [shot.wakers EXCEPT ![k] = NoKey]
        /\ shot'.key = [shot.key EXCEPT ![r] = NoKey]
        /\ shot'.asleep = shot.asleep \ {r}
        /\ shot' = [sent |-> shot'.sent, wakers |-> shot'.wakers, key |-> shot'.key,
                    asleep |-> shot'.asleep]
    BY <2>1, <2>2 DEF ShotInv
  <2>4. ASSUME NEW q \in Receiver, ~shot.sent, shot'.key[q] # NoKey
        PROVE  shot'.wakers[shot'.key[q]] = q
    <3>1. q # r
      BY <2>3, <2>4 DEF ShotInv
    <3>2. shot'.key[q] = shot.key[q] /\ shot.wakers[shot.key[q]] = q /\ shot.key[q] \in Shots!Slot
      BY <2>3, <2>4, <3>1 DEF ShotInv
    <3>3. shot.wakers[k] = r
      BY <2>1, <2>2, <2>4 DEF ShotInv
    <3>4. shot.key[q] # k
      BY <3>1, <3>2, <3>3
    <3> QED
      BY <2>3, <3>2, <3>4 DEF ShotInv
  <2>5. \A q \in shot'.asleep : shot'.key[q] # NoKey
    BY <2>3 DEF ShotInv
  <2>6. shot' \in [sent : BOOLEAN, wakers : [Shots!Slot -> Receiver \cup {NoKey}],
                   key : [Receiver -> Shots!Slot \cup {NoKey}], asleep : SUBSET Receiver]
    BY <2>1, <2>2, <2>3 DEF ShotInv
  <2> QED
    BY <2>3, <2>4, <2>5, <2>6 DEF ShotInv
<1>5. CASE UNCHANGED shot
  BY <1>5 DEF ShotInv
<1> QED
  BY <1>2, <1>3, <1>4, <1>5 DEF Shots!Next

-----------------------------------------------------------------------------
(* The parts. *)

\* A behavior of the parts is one of each part, with steps that leave it alone.
LEMMA SpecsOfParts ==
    Spec => FeedTheorems!Spec /\ Queues!Spec /\ Channels!Spec /\ RefTheorems!Spec
<1>1. Init => FeedTheorems!Init /\ Queues!Init /\ Channels!Init /\ RefTheorems!Init
  BY Zenon
     DEF Init, Feed!Init, FeedTheorems!Init, Feed!Kind, FeedTheorems!Kind, Feed!Scanned, FeedTheorems!Scanned,
         Refs!Init, RefTheorems!Init, Refs!Object, RefTheorems!Object
<1>2. [Next]_vars => /\ [FeedTheorems!Next]_(FeedTheorems!vars)
                     /\ [Queues!Next]_(Queues!vars)
                     /\ [Channels!Next]_(Channels!vars)
                     /\ [RefTheorems!Next]_(RefTheorems!vars)
  <2> SUFFICES ASSUME [Next]_vars
               PROVE  /\ FeedTheorems!Next \/ UNCHANGED feed
                      /\ Queues!Next \/ UNCHANGED queues
                      /\ Channels!Next \/ UNCHANGED channel
                      /\ RefTheorems!Next \/ UNCHANGED refs
    BY DEF feed, queues, channel, refs, FeedTheorems!vars, Queues!vars, Channels!vars, RefTheorems!vars
  <2> USE DEF feed, queues, channel, refs
  <2>1. CASE FeedStep
    BY <2>1, FeedSteps DEF FeedStep
  <2>2. CASE ChannelStep
    BY <2>2 DEF ChannelStep
  <2>3. CASE RefStep
    BY <2>3, RefSteps DEF RefStep
  <2>4. CASE QueueStep
    BY <2>4 DEF QueueStep
  <2>5. CASE StreamStep \/ ShotStep \/ UNCHANGED vars
    BY <2>5 DEF StreamStep, ShotStep, vars
  <2> QED
    BY <2>1, <2>2, <2>3, <2>4, <2>5 DEF Next
<1> QED
  BY <1>1, <1>2, PTL DEF Spec, FeedTheorems!Spec, Queues!Spec, Channels!Spec, RefTheorems!Spec

\* ChangesReachReaders of FeedNodes: no change of a change feed or a slab map is lost to a
\* dependant, for all effects, items and reads.
THEOREM SpecChangesReachReaders == Spec => []ChangesReachReaders
<1>1. FeedTheorems!NodesAssumption
  BY PartsAssumption DEF PartsAssumption, Feed!NodesAssumption, FeedTheorems!NodesAssumption
<1>2. FeedTheorems!ChangesReachReaders => ChangesReachReaders
  BY DEF ChangesReachReaders, Feed!ChangesReachReaders, FeedTheorems!ChangesReachReaders,
         Feed!Running, FeedTheorems!Running
<1> QED
  BY <1>1, <1>2, SpecsOfParts, FeedTheorems!SpecChangesReachReaders, PTL

\* RunsAreDue of FeedNodes: no dependant runs for a change of something else, for a scan that
\* recorded no edit, or twice for one change, and none asks what is not resolved.
THEOREM SpecRunsAreDue == Spec => []RunsAreDue
<1>1. FeedTheorems!NodesAssumption
  BY PartsAssumption DEF PartsAssumption, Feed!NodesAssumption, FeedTheorems!NodesAssumption
<1>2. FeedTheorems!RunsAreDue => RunsAreDue
  BY DEF RunsAreDue, Feed!RunsAreDue, FeedTheorems!RunsAreDue,
         Feed!AskedOnceResolved, FeedTheorems!AskedOnceResolved
<1> QED
  BY <1>1, <1>2, SpecsOfParts, FeedTheorems!SpecRunsAreDue, PTL

\* QueuesKeepOrder, for all phases and items and any calls: the buckets hold and hand out the
\* items in the order of phases and, in a phase, of their pushes, and their bounds are exact.
THEOREM SpecQueuesKeepOrder == Spec => []QueuesKeepOrder
<1>1. Queues!Spec => []QueuesInv
  BY QueuesInvInit, QueuesInvStep, PTL DEF Queues!Spec
<1> QED
  BY <1>1, SpecsOfParts, QueuesInvImplies, PTL

\* ContextsAreLentOnce, for all channels, contexts and depths of calls.
THEOREM SpecContextsAreLentOnce == Spec => []ContextsAreLentOnce
<1>1. Channels!LentOnce /\ Channels!ChannelFollowsCalls => ContextsAreLentOnce
  BY DEF ContextsAreLentOnce, Channels!ContextsAreLentOnce
<1> QED
  BY <1>1, SpecsOfParts, SpecLentOnce, SpecChannelFollowsCalls, PTL

\* RefsStayValid, for every number of objects and calls: everything is dropped once, and as
\* long as no closure has borrowed across a static StateRef, nothing refers to what was
\* dropped.
THEOREM SpecRefsStayValid == Spec => []RefsStayValid
<1>1. RefTheorems!RefsAssumption
  BY PartsAssumption
     DEF PartsAssumption, Refs!RefsAssumption, RefTheorems!RefsAssumption,
         Refs!Object, RefTheorems!Object, Refs!StateRef, RefTheorems!StateRef
<1>2. RefTheorems!RefsStayValid => RefsStayValid
  BY Zenon
     DEF RefsStayValid, Refs!RefsStayValid, RefTheorems!RefsStayValid,
         Refs!NoDangling, RefTheorems!NoDangling, Refs!Targets, RefTheorems!Targets,
         Refs!Live, RefTheorems!Live, Refs!Object, RefTheorems!Object,
         Refs!OwnedOnce, RefTheorems!OwnedOnce, Refs!Places, RefTheorems!Places,
         Refs!Seg, RefTheorems!Seg, Refs!Owned, RefTheorems!Owned,
         Refs!Cardinality, RefTheorems!Cardinality
<1> QED
  BY <1>1, <1>2, SpecsOfParts, RefTheorems!SpecRefsStayValid, PTL

\* What WaitersAreWoken asks of every state, for any receivers: a receiver that sleeps has a
\* waker that nobody else removes, and what is ready for the consumer of a stream is current.
THEOREM SpecWaitersHaveWakers == Spec => [](Streams!ReadyIsCurrent /\ Shots!SleepersHaveWakers)
<1>1. Init => StreamInv /\ ShotInv
  BY StreamInvInit, ShotInvInit DEF Init
<1>2. StreamInv /\ ShotInv /\ [Next]_vars => StreamInv' /\ ShotInv'
  <2>1. [Next]_vars => (Streams!Next \/ UNCHANGED stream) /\ (Shots!Next \/ UNCHANGED shot)
    BY DEF Next, FeedStep, QueueStep, ChannelStep, StreamStep, ShotStep, RefStep, vars
  <2> QED
    BY <2>1, StreamInvStep, ShotInvStep
<1>3. StreamInv /\ ShotInv => Streams!ReadyIsCurrent /\ Shots!SleepersHaveWakers
  BY DEF StreamInv, ShotInv, Streams!ReadyIsCurrent, Shots!SleepersHaveWakers
<1> QED
  BY <1>1, <1>2, <1>3, PTL DEF Spec
=============================================================================
