---------------------------- MODULE CommonLemmas ----------------------------
(***************************************************************************)
(* Natural numbers: a set of them has a least element, contains all of     *)
(* them if it is closed under successors, and a function can be defined by *)
(* recursion.  Sequences: induction over them, and what Filter keeps of    *)
(* them.  Stated for sets and functions instead of operators, so that the  *)
(* provers can use the lemmas.                                             *)
(***************************************************************************)
EXTENDS Integers, Filter, FiniteSetTheorems, SequenceTheorems, TLAPS

\* A set of natural numbers has a least element: mapping k to 0 .. k turns the order into
\* the strict inclusion of finite sets, which the library shows to be well-founded.
LEMMA LeastNat ==
    ASSUME NEW T \in SUBSET Nat, T # {}
    PROVE  \E m \in T : \A k \in T : m <= k
<1> DEFINE R == StrictSubsetOrdering(Nat)
           U == {0 .. k : k \in T}
<1>1. IsWellFoundedOn(R, FiniteSubsetsOf(Nat))
  BY FS_StrictSubsetOrderingWellFounded
<1>2. U \subseteq FiniteSubsetsOf(Nat) /\ U # {}
  <2>1. \A k \in T : 0 .. k \in SUBSET Nat /\ IsFiniteSet(0 .. k)
    BY FS_Interval
  <2> QED
    BY <2>1 DEF FiniteSubsetsOf
<1>3. \E x \in U : \A y \in U : ~ (<<y, x>> \in R)
  <2> HIDE DEF R, U
  <2> QED
    BY <1>1, <1>2, WFMin
<1>4. PICK m \in T : \A k \in T : ~ (<<0 .. k, 0 .. m>> \in R)
  BY <1>3
<1>5. ASSUME NEW k \in T, k < m
      PROVE  FALSE
  <2>1. m \in 0 .. m /\ m \notin 0 .. k
    BY <1>5
  <2>2. 0 .. k \subseteq 0 .. m /\ 0 .. k \in SUBSET Nat /\ 0 .. m \in SUBSET Nat
    BY <1>5
  <2>3. <<0 .. k, 0 .. m>> \in R
    BY <2>1, <2>2 DEF StrictSubsetOrdering
  <2> QED
    BY <1>4, <2>3
<1>6. \A k \in T : k \in Nat /\ m \in Nat
  OBVIOUS
<1>7. \A k \in T : m <= k
  BY <1>5, <1>6
<1> QED
  BY <1>7

\* Induction over the natural numbers, for the set of those that have the property.
LEMMA NatSetInduction ==
    ASSUME NEW T \in SUBSET Nat, 0 \in T, \A k \in T : k + 1 \in T
    PROVE  T = Nat
<1> SUFFICES ASSUME Nat \ T # {}
             PROVE  FALSE
  OBVIOUS
<1>1. PICK m \in Nat \ T : \A k \in Nat \ T : m <= k
  BY LeastNat
<1>2. m # 0 /\ m - 1 \in Nat
  BY <1>1
<1>3. m - 1 \in T
  BY <1>1, <1>2
<1> QED
  BY <1>1, <1>3

\* A function up to n that is base at 0 and goes on with F.
Recursive(f, X, base, n, F) ==
    /\ f \in [0 .. n -> X]
    /\ f[0] = base
    /\ \A i \in 1 .. n : f[i] = F[<<f[i - 1], i>>]

\* It exists.
LEMMA NatRecursion ==
    ASSUME NEW X, NEW base \in X, NEW n \in Nat, NEW F \in [X \X (1 .. n) -> X]
    PROVE  \E f : Recursive(f, X, base, n, F)
<1> DEFINE Upto(m, f) == f[0] = base /\ \A i \in 1 .. m : f[i] = F[<<f[i - 1], i>>]
           T == {m \in Nat : m <= n => \E f \in [0 .. m -> X] : Upto(m, f)}
<1>1. 0 \in T
  <2>1. [i \in 0 .. 0 |-> base] \in [0 .. 0 -> X] /\ Upto(0, [i \in 0 .. 0 |-> base])
    OBVIOUS
  <2> QED
    BY <2>1
<1>2. ASSUME NEW m \in T
      PROVE  m + 1 \in T
  <2> SUFFICES ASSUME m + 1 <= n
               PROVE  \E f \in [0 .. m + 1 -> X] : Upto(m + 1, f)
    OBVIOUS
  <2>1. PICK f \in [0 .. m -> X] : Upto(m, f)
    OBVIOUS
  <2> DEFINE g == [i \in 0 .. m + 1 |-> IF i <= m THEN f[i] ELSE F[<<f[m], m + 1>>]]
  <2>2. F[<<f[m], m + 1>>] \in X
    OBVIOUS
  <2>3. g \in [0 .. m + 1 -> X]
    BY <2>2
  <2>4. g[0] = base
    BY <2>1
  <2>5. ASSUME NEW i \in 1 .. m + 1
        PROVE  g[i] = F[<<g[i - 1], i>>]
    <3>1. i - 1 \in 0 .. m /\ i - 1 <= m /\ i \in 0 .. m + 1
      OBVIOUS
    <3>2. g[i - 1] = f[i - 1]
      BY <3>1
    <3>3. CASE i <= m
      BY <2>1, <3>1, <3>2, <3>3
    <3>4. CASE i = m + 1
      <4>1. ~(i <= m) /\ i - 1 = m
        BY <3>4
      <4>2. g[i] = F[<<f[m], m + 1>>]
        BY <3>1, <4>1
      <4> QED
        BY <3>2, <3>4, <4>1, <4>2
    <3> QED
      BY <3>3, <3>4
  <2> QED
    BY <2>3, <2>4, <2>5
<1>3. T = Nat
  <2> HIDE DEF T
  <2>1. T \in SUBSET Nat
    BY DEF T
  <2> QED
    BY <1>1, <1>2, <2>1, NatSetInduction
<1>4. n \in T
  BY <1>3
<1> QED
  BY <1>4 DEF Recursive

-----------------------------------------------------------------------------
(* Sequences. *)

\* Induction over sequences, for the set of those that have the property.
LEMMA SeqSetInduction ==
    ASSUME NEW X, NEW Q \in SUBSET Seq(X), <<>> \in Q,
           \A q \in Q : \A x \in X : Append(q, x) \in Q
    PROVE  Q = Seq(X)
<1> DEFINE T == {n \in Nat : \A q \in Seq(X) : Len(q) = n => q \in Q}
<1>1. 0 \in T
  <2>1. ASSUME NEW q \in Seq(X), Len(q) = 0
        PROVE  q \in Q
    <3>1. q = <<>>
      BY <2>1
    <3> QED
      BY <3>1
  <2> QED
    BY <2>1
<1>2. ASSUME NEW n \in T
      PROVE  n + 1 \in T
  <2>1. ASSUME NEW q \in Seq(X), Len(q) = n + 1
        PROVE  q \in Q
    <3> DEFINE r == [i \in 1 .. n |-> q[i]]
    <3>1. n \in Nat /\ q[n + 1] \in X /\ \A i \in 1 .. n : q[i] \in X
      BY <2>1
    <3>2. r \in Seq(X) /\ Len(r) = n
      BY <3>1
    <3>3. r \in Q
      BY <3>2
    <3>4. Append(r, q[n + 1]) \in Seq(X) /\ Len(Append(r, q[n + 1])) = n + 1
      BY <3>1, <3>2
    <3>5. \A i \in 1 .. n + 1 : Append(r, q[n + 1])[i] = q[i]
      <4>1. \A i \in 1 .. n : Append(r, q[n + 1])[i] = r[i] /\ r[i] = q[i]
        BY <3>1, <3>2
      <4>2. Append(r, q[n + 1])[n + 1] = q[n + 1]
        BY <3>1, <3>2
      <4>3. \A i \in 1 .. n + 1 : i \in 1 .. n \/ i = n + 1
        BY <3>1
      <4> QED
        BY <4>1, <4>2, <4>3
    <3>6. Append(r, q[n + 1]) = q
      <4> HIDE DEF r
      <4> QED
        BY <2>1, <3>4, <3>5, SeqEqual
    <3> QED
      BY <3>1, <3>3, <3>6
  <2> QED
    BY <2>1
<1>3. T = Nat
  <2> HIDE DEF T
  <2>1. T \in SUBSET Nat
    BY DEF T
  <2> QED
    BY <1>1, <1>2, <2>1, NatSetInduction
<1>4. ASSUME NEW q \in Seq(X)
      PROVE  q \in Q
  <2>1. Len(q) \in T
    BY <1>3
  <2> QED
    BY <2>1
<1> QED
  BY <1>4

\* Two sequences one after the other.
LEMMA ConcatIs ==
    ASSUME NEW S, NEW a \in Seq(S), NEW b \in Seq(S)
    PROVE  /\ a \o b \in Seq(S) /\ Len(a \o b) = Len(a) + Len(b)
           /\ \A x \in 1 .. Len(a) + Len(b) :
                 (a \o b)[x] = IF x <= Len(a) THEN a[x] ELSE b[x - Len(a)]
OBVIOUS

\* Putting together an appended sequence.
LEMMA ConcatAppend ==
    ASSUME NEW X, NEW q \in Seq(X), NEW r \in Seq(X), NEW x \in X
    PROVE  q \o Append(r, x) = Append(q \o r, x)
OBVIOUS

-----------------------------------------------------------------------------
(* Kept: a recursive function that exists, and what it returns. *)

\* The results for the first i elements.
Keeps(q, S, f) ==
    f = [i \in 0 .. Len(q) |->
            IF i = 0 THEN <<>>
            ELSE IF q[i] \in S THEN Append(f[i - 1], q[i]) ELSE f[i - 1]]

\* The function in Kept exists.
LEMMA KeptUnfold ==
    ASSUME NEW X, NEW q \in Seq(X), NEW S
    PROVE  \E f \in [0 .. Len(q) -> Seq(X)] : Keeps(q, S, f) /\ Kept(q, S) = f[Len(q)]
<1> DEFINE n == Len(q)
           F == [p \in Seq(X) \X (1 .. n) |->
                    IF q[p[2]] \in S THEN Append(p[1], q[p[2]]) ELSE p[1]]
           G == CHOOSE f : Keeps(q, S, f)
<1>1. n \in Nat /\ \A i \in 1 .. n : q[i] \in X
  OBVIOUS
<1>2. F \in [Seq(X) \X (1 .. n) -> Seq(X)]
  BY <1>1
<1>3. PICK f : Recursive(f, Seq(X), <<>>, n, F)
  <2>1. <<>> \in Seq(X)
    OBVIOUS
  <2> HIDE DEF F, n
  <2> QED
    BY <1>1, <1>2, <2>1, NatRecursion, Zenon
<1>4. \A i \in 1 .. n : F[<<f[i - 1], i>>] =
                            IF q[i] \in S THEN Append(f[i - 1], q[i]) ELSE f[i - 1]
  <2>1. ASSUME NEW i \in 1 .. n
        PROVE  F[<<f[i - 1], i>>] = IF q[i] \in S THEN Append(f[i - 1], q[i]) ELSE f[i - 1]
    <3>1. f[i - 1] \in Seq(X)
      BY <1>1, <1>3 DEF Recursive
    <3> QED
      BY <3>1
  <2> QED
    BY <2>1
<1>5. Keeps(q, S, f)
  <2> HIDE DEF F
  <2>1. \A i \in 0 .. n : f[i] = IF i = 0 THEN <<>>
                                ELSE IF q[i] \in S THEN Append(f[i - 1], q[i]) ELSE f[i - 1]
    <3>1. f[0] = <<>> /\ \A i \in 1 .. n : f[i] = F[<<f[i - 1], i>>]
      BY <1>3 DEF Recursive
    <3>2. \A i \in 1 .. n : f[i] = IF q[i] \in S THEN Append(f[i - 1], q[i]) ELSE f[i - 1]
      BY <1>4, <3>1
    <3>3. \A i \in 0 .. n : i = 0 \/ i \in 1 .. n
      BY <1>1
    <3>4. \A i \in 1 .. n : i # 0
      BY <1>1
    <3> HIDE DEF n
    <3> QED
      BY <3>1, <3>2, <3>3, <3>4
  <2>2. f = [i \in 0 .. n |-> f[i]]
    BY <1>3 DEF Recursive
  <2> QED
    BY <2>1, <2>2 DEF Keeps
<1>6. Keeps(q, S, G)
  BY <1>5
<1>7. Kept(q, S) = G[n]
  BY DEF Kept, Keeps
<1>8. G \in [0 .. n -> Seq(X)]
  <2> HIDE DEF G
  <2> DEFINE T == {i \in Nat : i <= n => G[i] \in Seq(X)}
  <2>1. \A i \in 0 .. n : G[i] = IF i = 0 THEN <<>>
                                ELSE IF q[i] \in S THEN Append(G[i - 1], q[i]) ELSE G[i - 1]
    BY <1>6 DEF Keeps
  <2>2. 0 \in T
    <3>1. G[0] = <<>>
      BY <2>1, <1>1
    <3>2. <<>> \in Seq(X)
      OBVIOUS
    <3>3. G[0] \in Seq(X)
      BY <3>1, <3>2
    <3> QED
      BY <3>3
  <2>3. ASSUME NEW k \in T
        PROVE  k + 1 \in T
    <3>1. CASE k + 1 <= n
      <4>1. k \in 0 .. n /\ k + 1 \in 1 .. n /\ k + 1 \in 0 .. n /\ (k + 1) - 1 = k
        BY <1>1, <3>1
      <4>2. G[k] \in Seq(X) /\ q[k + 1] \in X
        BY <1>1, <4>1
      <4>3. G[k + 1] = IF q[k + 1] \in S THEN Append(G[k], q[k + 1]) ELSE G[k]
        BY <2>1, <4>1
      <4>4. G[k + 1] \in Seq(X)
        BY <4>2, <4>3
      <4> QED
        BY <4>1, <4>4
    <3> QED
      BY <1>1, <3>1
  <2>4. T = Nat
    <3> HIDE DEF T
    <3>1. T \in SUBSET Nat
      BY DEF T
    <3> QED
      BY <2>2, <2>3, <3>1, NatSetInduction
  <2>5. \A i \in 0 .. n : G[i] \in Seq(X)
    BY <2>4, <1>1
  <2> QED
    BY <1>6, <2>5 DEF Keeps
<1> QED
  BY <1>6, <1>7, <1>8

\* Of no elements, none is kept.
LEMMA KeptEmpty == \A S : Kept(<<>>, S) = <<>>
<1> TAKE S
<1>1. <<>> \in Seq({}) /\ Len(<<>>) = 0
  OBVIOUS
<1> DEFINE e == <<>>
<1>2. PICK f \in [0 .. Len(e) -> Seq({})] : Keeps(e, S, f) /\ Kept(e, S) = f[Len(e)]
  <2>1. e \in Seq({})
    OBVIOUS
  <2> HIDE DEF e
  <2> QED
    BY <2>1, KeptUnfold
<1>3. f[0] = <<>>
  BY <1>1, <1>2 DEF Keeps
<1> QED
  BY <1>2, <1>3

\* One more element is looked at last.
LEMMA KeptAppend ==
    ASSUME NEW X, NEW q \in Seq(X), NEW x \in X, NEW S
    PROVE  Kept(Append(q, x), S) = IF x \in S THEN Append(Kept(q, S), x) ELSE Kept(q, S)
<1> DEFINE n == Len(q)
           r == Append(q, x)
<1>1. n \in Nat /\ r \in Seq(X) /\ Len(r) = n + 1 /\ r[n + 1] = x
      /\ \A i \in 1 .. n : r[i] = q[i]
  OBVIOUS
<1>2. PICK f \in [0 .. n -> Seq(X)] : Keeps(q, S, f) /\ Kept(q, S) = f[n]
  BY KeptUnfold
<1>3. PICK g \in [0 .. n + 1 -> Seq(X)] : Keeps(r, S, g) /\ Kept(r, S) = g[n + 1]
  <2> HIDE DEF r, n
  <2>1. \E g \in [0 .. Len(r) -> Seq(X)] : Keeps(r, S, g) /\ Kept(r, S) = g[Len(r)]
    BY <1>1, KeptUnfold
  <2> QED
    BY <1>1, <2>1
<1> DEFINE T == {i \in Nat : i <= n => g[i] = f[i]}
<1>4. \A i \in 0 .. n : f[i] = IF i = 0 THEN <<>>
                              ELSE IF q[i] \in S THEN Append(f[i - 1], q[i]) ELSE f[i - 1]
  BY <1>2 DEF Keeps
<1>5. \A i \in 0 .. n + 1 : g[i] = IF i = 0 THEN <<>>
                                  ELSE IF r[i] \in S THEN Append(g[i - 1], r[i]) ELSE g[i - 1]
  <2> HIDE DEF r
  <2> QED
    BY <1>1, <1>3 DEF Keeps
<1> HIDE DEF r
<1>6. 0 \in T
  <2>1. 0 \in Nat /\ 0 \in 0 .. n /\ 0 \in 0 .. n + 1
    BY <1>1
  <2>2. f[0] = <<>> /\ g[0] = <<>>
    BY <2>1, <1>4, <1>5, Zenon
  <2> QED
    BY <2>1, <2>2
<1>7. ASSUME NEW k \in T
      PROVE  k + 1 \in T
  <2>1. CASE k + 1 <= n
    <3>1. k + 1 \in 1 .. n /\ k + 1 \in 0 .. n /\ k + 1 \in 0 .. n + 1 /\ (k + 1) - 1 = k
          /\ k <= n /\ k + 1 # 0
      BY <1>1, <2>1
    <3>2. g[k] = f[k] /\ r[k + 1] = q[k + 1]
      BY <1>1, <3>1
    <3>3. f[k + 1] = IF q[k + 1] \in S THEN Append(f[k], q[k + 1]) ELSE f[k]
      BY <1>4, <3>1
    <3>4. g[k + 1] = IF r[k + 1] \in S THEN Append(g[k], r[k + 1]) ELSE g[k]
      BY <1>5, <3>1
    <3> QED
      BY <3>2, <3>3, <3>4
  <2> QED
    BY <1>1, <2>1
<1>8. T = Nat
  <2> HIDE DEF T
  <2>1. T \in SUBSET Nat
    BY DEF T
  <2> QED
    BY <1>6, <1>7, <2>1, NatSetInduction
<1>9. g[n] = f[n]
  BY <1>1, <1>8
<1>10. n + 1 \in 0 .. n + 1 /\ n + 1 # 0 /\ (n + 1) - 1 = n
  BY <1>1
<1>11. g[n + 1] = IF r[n + 1] \in S THEN Append(g[n], r[n + 1]) ELSE g[n]
  BY <1>5, <1>10
<1> QED
  BY <1>1, <1>2, <1>3, <1>9, <1>11 DEF r

\* What is kept of a sequence is one.
LEMMA KeptType ==
    ASSUME NEW X, NEW q \in Seq(X), NEW S
    PROVE  Kept(q, S) \in Seq(X)
<1>1. PICK f \in [0 .. Len(q) -> Seq(X)] : Kept(q, S) = f[Len(q)]
  BY KeptUnfold
<1>2. Len(q) \in 0 .. Len(q)
  OBVIOUS
<1> QED
  BY <1>1, <1>2

\* Filters of one sequence and then of another.
LEMMA KeptConcat ==
    ASSUME NEW X, NEW q \in Seq(X), NEW r \in Seq(X), NEW S
    PROVE  Kept(q \o r, S) = Kept(q, S) \o Kept(r, S)
<1> DEFINE Q == {t \in Seq(X) : Kept(q \o t, S) = Kept(q, S) \o Kept(t, S)}
<1>0. Kept(q, S) \in Seq(X)
  BY KeptType
<1>1. <<>> \in Q
  <2>1. q \o <<>> = q /\ Kept(q, S) \o <<>> = Kept(q, S) /\ <<>> \in Seq(X)
    BY <1>0, ConcatEmptySeq
  <2> QED
    BY <2>1, KeptEmpty
<1>2. ASSUME NEW t \in Q, NEW x \in X
      PROVE  Append(t, x) \in Q
  <2>1. Kept(t, S) \in Seq(X)
    BY KeptType
  <2>2. q \o Append(t, x) = Append(q \o t, x) /\ q \o t \in Seq(X) /\ Append(t, x) \in Seq(X)
    BY ConcatAppend
  <2>3. Kept(q, S) \o Append(Kept(t, S), x) = Append(Kept(q, S) \o Kept(t, S), x)
    BY <1>0, <2>1, ConcatAppend
  <2>4. t \in Seq(X) /\ Kept(q \o t, S) = Kept(q, S) \o Kept(t, S)
    OBVIOUS
  <2>5. Kept(Append(q \o t, x), S) = IF x \in S THEN Append(Kept(q \o t, S), x)
                                                ELSE Kept(q \o t, S)
    <3> DEFINE u == q \o t
    <3>1. u \in Seq(X)
      BY <2>2
    <3> HIDE DEF u
    <3>2. Kept(Append(u, x), S) = IF x \in S THEN Append(Kept(u, S), x) ELSE Kept(u, S)
      BY <3>1, KeptAppend
    <3> QED
      BY <3>2 DEF u
  <2>6. Kept(Append(t, x), S) = IF x \in S THEN Append(Kept(t, S), x) ELSE Kept(t, S)
    BY <2>4, KeptAppend
  <2>7. Kept(q \o Append(t, x), S) = Kept(q, S) \o Kept(Append(t, x), S)
    BY <2>2, <2>3, <2>4, <2>5, <2>6
  <2> QED
    BY <2>2, <2>7
<1>3. Q = Seq(X)
  <2> HIDE DEF Q
  <2>1. Q \in SUBSET Seq(X)
    BY DEF Q
  <2> QED
    BY <1>1, <1>2, <2>1, SeqSetInduction
<1> QED
  BY <1>3

\* All is kept of a sequence of elements of S.
LEMMA KeptWhole ==
    ASSUME NEW S, NEW q \in Seq(S)
    PROVE  Kept(q, S) = q
<1> DEFINE Q == {t \in Seq(S) : Kept(t, S) = t}
<1>1. <<>> \in Q
  <2>1. <<>> \in Seq(S)
    OBVIOUS
  <2> QED
    BY <2>1, KeptEmpty
<1>2. ASSUME NEW t \in Q, NEW x \in S
      PROVE  Append(t, x) \in Q
  <2>1. t \in Seq(S) /\ Append(t, x) \in Seq(S) /\ Kept(t, S) = t
    OBVIOUS
  <2>2. Kept(Append(t, x), S) = Append(Kept(t, S), x)
    BY <2>1, KeptAppend
  <2> QED
    BY <2>1, <2>2
<1>3. Q = Seq(S)
  <2> HIDE DEF Q
  <2>1. Q \in SUBSET Seq(S)
    BY DEF Q
  <2> QED
    BY <1>1, <1>2, <2>1, SeqSetInduction
<1> QED
  BY <1>3

\* Nothing is kept of a sequence without elements of S.
LEMMA KeptNothing ==
    ASSUME NEW X, NEW q \in Seq(X), NEW S, X \cap S = {}
    PROVE  Kept(q, S) = <<>>
<1> DEFINE Q == {t \in Seq(X) : Kept(t, S) = <<>>}
<1>1. <<>> \in Q
  <2>1. <<>> \in Seq(X)
    OBVIOUS
  <2> QED
    BY <2>1, KeptEmpty
<1>2. ASSUME NEW t \in Q, NEW x \in X
      PROVE  Append(t, x) \in Q
  <2>1. t \in Seq(X) /\ Append(t, x) \in Seq(X) /\ Kept(t, S) = <<>> /\ x \notin S
    OBVIOUS
  <2>2. Kept(Append(t, x), S) = Kept(t, S)
    BY <2>1, KeptAppend
  <2> QED
    BY <2>1, <2>2
<1>3. Q = Seq(X)
  <2> HIDE DEF Q
  <2>1. Q \in SUBSET Seq(X)
    BY DEF Q
  <2> QED
    BY <1>1, <1>2, <2>1, SeqSetInduction
<1> QED
  BY <1>3
=============================================================================
