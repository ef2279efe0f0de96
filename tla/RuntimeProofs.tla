---------------------------- MODULE RuntimeProofs -----------------------------
(***************************************************************************)
(* Theorems about the Runtime, for all sets of waiters, phases and keys    *)
(* and for all bounds: what the operators of PhaseOrder do to the items of *)
(* a phase and to the set of all items; then the Runtime's wake table and  *)
(* the futures of its tasks, wakes that are not lost, waits, what flush    *)
(* leaves, and the order of actions.                                       *)
(***************************************************************************)
EXTENDS Runtime, CommonLemmas

-----------------------------------------------------------------------------
(* The elements of sequences, and of what is kept of them. *)

\* The elements of sequences that are put together.
LEMMA AppendElements ==
    ASSUME NEW X, NEW q \in Seq(X), NEW x \in X
    PROVE  ToSet(Append(q, x)) = ToSet(q) \cup {x}
<1>1. /\ Len(Append(q, x)) = Len(q) + 1 /\ Len(q) \in Nat
      /\ DOMAIN q = 1 .. Len(q) /\ DOMAIN Append(q, x) = 1 .. Len(q) + 1
      /\ \A i \in 1 .. Len(q) + 1 : Append(q, x)[i] = IF i <= Len(q) THEN q[i] ELSE x
  OBVIOUS
<1> QED
  BY <1>1 DEF ToSet

\* The elements of two sequences, one behind the other.
LEMMA ConcatElements ==
    ASSUME NEW X, NEW q \in Seq(X), NEW r \in Seq(X)
    PROVE  ToSet(q \o r) = ToSet(q) \cup ToSet(r)
<1>1. /\ Len(q) \in Nat /\ Len(r) \in Nat
      /\ DOMAIN q = 1 .. Len(q) /\ DOMAIN r = 1 .. Len(r)
      /\ DOMAIN (q \o r) = 1 .. Len(q) + Len(r)
      /\ \A i \in 1 .. Len(q) + Len(r) :
             (q \o r)[i] = IF i <= Len(q) THEN q[i] ELSE r[i - Len(q)]
  OBVIOUS
<1>2. \A i \in 1 .. Len(r) : Len(q) + i \in 1 .. Len(q) + Len(r)
                            /\ (q \o r)[Len(q) + i] = r[i]
  BY <1>1
<1>3. \A i \in 1 .. Len(q) : i \in 1 .. Len(q) + Len(r) /\ (q \o r)[i] = q[i]
  BY <1>1
<1>4. \A i \in 1 .. Len(q) + Len(r) : i <= Len(q) \/ i - Len(q) \in 1 .. Len(r)
  BY <1>1
<1>5. ToSet(q \o r) \subseteq ToSet(q) \cup ToSet(r)
  BY <1>1, <1>4 DEF ToSet
<1>6. ToSet(q) \subseteq ToSet(q \o r)
  <2>1. ASSUME NEW i \in 1 .. Len(q)
        PROVE  q[i] \in ToSet(q \o r)
    BY <1>1, <1>3 DEF ToSet
  <2> QED
    BY <1>1, <2>1 DEF ToSet
<1>7. ToSet(r) \subseteq ToSet(q \o r)
  <2>1. ASSUME NEW i \in 1 .. Len(r)
        PROVE  r[i] \in ToSet(q \o r)
    BY <1>1, <1>2 DEF ToSet
  <2> QED
    BY <1>1, <2>1 DEF ToSet
<1> QED
  BY <1>5, <1>6, <1>7

\* The elements of a sequence: the first and the others.
LEMMA HeadElements ==
    ASSUME NEW X, NEW q \in Seq(X), q # <<>>
    PROVE  Tail(q) \in Seq(X) /\ Head(q) \in X /\ ToSet(q) = ToSet(Tail(q)) \cup {Head(q)}
<1>1. /\ Len(q) \in Nat /\ Len(q) # 0 /\ Tail(q) \in Seq(X) /\ Head(q) \in X
      /\ Len(Tail(q)) = Len(q) - 1 /\ q[1] = Head(q)
      /\ DOMAIN q = 1 .. Len(q) /\ DOMAIN Tail(q) = 1 .. Len(q) - 1
      /\ \A i \in 1 .. Len(q) - 1 : Tail(q)[i] = q[i + 1]
  OBVIOUS
<1>2. ToSet(q) \subseteq ToSet(Tail(q)) \cup {Head(q)}
  <2>1. ASSUME NEW i \in 1 .. Len(q)
        PROVE  q[i] \in ToSet(Tail(q)) \cup {Head(q)}
    <3>1. CASE i = 1
      BY <1>1, <3>1
    <3>2. CASE i # 1
      <4>1. i - 1 \in 1 .. Len(q) - 1 /\ (i - 1) + 1 = i
        BY <1>1, <3>2
      <4>2. Tail(q)[i - 1] = q[i]
        BY <1>1, <4>1
      <4> QED
        BY <1>1, <4>1, <4>2 DEF ToSet
    <3> QED
      BY <3>1, <3>2
  <2> QED
    BY <1>1, <2>1 DEF ToSet
<1>3. ToSet(Tail(q)) \cup {Head(q)} \subseteq ToSet(q)
  <2>1. ASSUME NEW i \in 1 .. Len(q) - 1
        PROVE  Tail(q)[i] \in ToSet(q)
    <3>1. i + 1 \in 1 .. Len(q)
      BY <1>1
    <3> QED
      BY <1>1, <3>1 DEF ToSet
  <2>2. Head(q) \in ToSet(q)
    <3>1. 1 \in 1 .. Len(q)
      BY <1>1
    <3> QED
      BY <1>1, <3>1 DEF ToSet
  <2> QED
    BY <1>1, <2>1, <2>2 DEF ToSet
<1> QED
  BY <1>1, <1>2, <1>3

\* What is kept is a sequence of those elements that are in S.
LEMMA KeptElements ==
    ASSUME NEW X, NEW q \in Seq(X), NEW S
    PROVE  /\ Kept(q, S) \in Seq(X)
           /\ ToSet(Kept(q, S)) = ToSet(q) \cap S
<1> DEFINE Q == {r \in Seq(X) : Kept(r, S) \in Seq(X) /\ ToSet(Kept(r, S)) = ToSet(r) \cap S}
<1>1. <<>> \in Q
  <2>1. <<>> \in Seq(X) /\ ToSet(<<>>) = {}
    BY DEF ToSet
  <2> QED
    BY <2>1, KeptEmpty
<1>2. ASSUME NEW r \in Q, NEW x \in X
      PROVE  Append(r, x) \in Q
  <2>1. ToSet(Append(r, x)) = ToSet(r) \cup {x}
    BY AppendElements
  <2>2. CASE x \in S
    <3>1. Kept(Append(r, x), S) = Append(Kept(r, S), x)
      BY <2>2, KeptAppend
    <3>2. ToSet(Append(Kept(r, S), x)) = ToSet(Kept(r, S)) \cup {x}
      BY AppendElements
    <3>3. Append(r, x) \in Seq(X) /\ Append(Kept(r, S), x) \in Seq(X)
      OBVIOUS
    <3> QED
      BY <2>1, <2>2, <3>1, <3>2, <3>3
  <2>3. CASE x \notin S
    <3>1. Kept(Append(r, x), S) = Kept(r, S)
      BY <2>3, KeptAppend
    <3>2. Append(r, x) \in Seq(X)
      OBVIOUS
    <3> QED
      BY <2>1, <2>3, <3>1, <3>2
  <2> QED
    BY <2>2, <2>3
<1>3. Q = Seq(X)
  <2> HIDE DEF Q
  <2>1. Q \in SUBSET Seq(X)
    BY DEF Q
  <2> QED
    BY <1>1, <1>2, <2>1, SeqSetInduction
<1> QED
  BY <1>3

\* One filter after the other.
LEMMA KeptKept ==
    ASSUME NEW X, NEW q \in Seq(X), NEW S, NEW R
    PROVE  Kept(Kept(q, S), R) = Kept(q, S \cap R)
<1> DEFINE Q == {t \in Seq(X) : Kept(Kept(t, S), R) = Kept(t, S \cap R)}
<1>1. <<>> \in Q
  <2>1. <<>> \in Seq(X)
    OBVIOUS
  <2> QED
    BY <2>1, KeptEmpty
<1>2. ASSUME NEW t \in Q, NEW x \in X
      PROVE  Append(t, x) \in Q
  <2>1. t \in Seq(X) /\ Kept(Kept(t, S), R) = Kept(t, S \cap R) /\ Append(t, x) \in Seq(X)
    OBVIOUS
  <2>2. Kept(t, S) \in Seq(X)
    BY <2>1, KeptElements
  <2>3. Kept(Append(t, x), S) = IF x \in S THEN Append(Kept(t, S), x) ELSE Kept(t, S)
    BY <2>1, KeptAppend
  <2>4. Kept(Append(t, x), S \cap R) = IF x \in S \cap R THEN Append(Kept(t, S \cap R), x)
                                                        ELSE Kept(t, S \cap R)
    BY <2>1, KeptAppend
  <2>5. Kept(Append(Kept(t, S), x), R) = IF x \in R THEN Append(Kept(Kept(t, S), R), x)
                                                    ELSE Kept(Kept(t, S), R)
    BY <2>2, KeptAppend
  <2>6. Kept(Kept(Append(t, x), S), R) = Kept(Append(t, x), S \cap R)
    <3>1. CASE x \in S
      <4>1. Kept(Append(t, x), S) = Append(Kept(t, S), x) /\ (x \in S \cap R) = (x \in R)
        BY <2>3, <3>1
      <4>2. CASE x \in R
        BY <2>1, <2>4, <2>5, <4>1, <4>2, Zenon
      <4>3. CASE x \notin R
        BY <2>1, <2>4, <2>5, <4>1, <4>3, Zenon
      <4> QED
        BY <4>2, <4>3
    <3>2. CASE x \notin S
      <4>1. x \notin S \cap R
        BY <3>2
      <4> QED
        BY <2>1, <2>3, <2>4, <3>2, <4>1, Zenon
    <3> QED
      BY <3>1, <3>2
  <2> QED
    BY <2>1, <2>6
<1>3. Q = Seq(X)
  <2> HIDE DEF Q
  <2>1. Q \in SUBSET Seq(X)
    BY DEF Q
  <2> QED
    BY <1>1, <1>2, <2>1, SeqSetInduction
<1> QED
  BY <1>3

\* Only which of its elements are in S decides what is kept of q.
LEMMA KeptSame ==
    ASSUME NEW X, NEW q \in Seq(X), NEW S, NEW R, ToSet(q) \cap S = ToSet(q) \cap R
    PROVE  Kept(q, S) = Kept(q, R)
<1> DEFINE Q == {t \in Seq(X) : ToSet(t) \cap S = ToSet(t) \cap R => Kept(t, S) = Kept(t, R)}
<1>1. <<>> \in Q
  <2>1. <<>> \in Seq(X)
    OBVIOUS
  <2> QED
    BY <2>1, KeptEmpty
<1>2. ASSUME NEW t \in Q, NEW x \in X
      PROVE  Append(t, x) \in Q
  <2> SUFFICES ASSUME ToSet(Append(t, x)) \cap S = ToSet(Append(t, x)) \cap R
               PROVE  Kept(Append(t, x), S) = Kept(Append(t, x), R)
    OBVIOUS
  <2>1. t \in Seq(X) /\ Append(t, x) \in Seq(X)
    OBVIOUS
  <2>2. ToSet(Append(t, x)) = ToSet(t) \cup {x}
    BY <2>1, AppendElements
  <2>3. ToSet(t) \cap S = ToSet(t) \cap R /\ (x \in S) = (x \in R)
    BY <2>2
  <2>4. Kept(t, S) = Kept(t, R)
    BY <2>3
  <2>5. Kept(Append(t, x), S) = IF x \in S THEN Append(Kept(t, S), x) ELSE Kept(t, S)
    BY <2>1, KeptAppend
  <2>6. Kept(Append(t, x), R) = IF x \in R THEN Append(Kept(t, R), x) ELSE Kept(t, R)
    BY <2>1, KeptAppend
  <2> QED
    BY <2>3, <2>4, <2>5, <2>6
<1>3. Q = Seq(X)
  <2> HIDE DEF Q
  <2>1. Q \in SUBSET Seq(X)
    BY DEF Q
  <2> QED
    BY <1>1, <1>2, <2>1, SeqSetInduction
<1>4. q \in Q
  BY <1>3
<1> QED
  BY <1>4

\* All elements are kept, or none.
LEMMA KeptAll ==
    ASSUME NEW X, NEW q \in Seq(X), NEW S, ToSet(q) \subseteq S
    PROVE  Kept(q, S) = q
<1>1. q \in Seq(ToSet(q))
  BY DEF ToSet
<1>2. Kept(q, ToSet(q)) = q
  BY <1>1, KeptWhole
<1>3. Kept(q, S) = Kept(q, ToSet(q))
  <2>1. ToSet(q) \cap S = ToSet(q) \cap ToSet(q)
    OBVIOUS
  <2> QED
    BY <2>1, KeptSame
<1> QED
  BY <1>2, <1>3

\* Nothing is kept when no element is in S.
LEMMA KeptNone ==
    ASSUME NEW X, NEW q \in Seq(X), NEW S, ToSet(q) \cap S = {}
    PROVE  Kept(q, S) = <<>>
<1>1. q \in Seq(ToSet(q))
  BY DEF ToSet
<1> QED
  BY <1>1, KeptNothing

-----------------------------------------------------------------------------
(* Sequences of items whose phases are integers. *)

Phased(X) == \A x \in X : x.phase \in Int
Equal(X, p) == {y \in X : y.phase = p}
Less(X, p) == {y \in X : y.phase < p}
Greater(X, p) == {y \in X : y.phase > p}

\* The filters by phase, with one set for all sequences of items of X.
LEMMA Filters ==
    ASSUME NEW X, NEW q \in Seq(X), NEW p
    PROVE  /\ OfPhase(q, p) = Kept(q, Equal(X, p))
           /\ Below(q, p) = Kept(q, Less(X, p))
           /\ Above(q, p) = Kept(q, Greater(X, p))
           /\ ToSet(q) \subseteq X
<1>1. ToSet(q) \subseteq X
  BY DEF ToSet
<1> DEFINE O == Equal(X, p)
           B == Less(X, p)
           A == Greater(X, p)
           O_ == {y \in ToSet(q) : y.phase = p}
           B_ == {y \in ToSet(q) : y.phase < p}
           A_ == {y \in ToSet(q) : y.phase > p}
<1>2. /\ ToSet(q) \cap O_ = ToSet(q) \cap O
      /\ ToSet(q) \cap B_ = ToSet(q) \cap B
      /\ ToSet(q) \cap A_ = ToSet(q) \cap A
  BY <1>1 DEF Equal, Less, Greater
<1>3. OfPhase(q, p) = Kept(q, O_) /\ Below(q, p) = Kept(q, B_) /\ Above(q, p) = Kept(q, A_)
  BY DEF OfPhase, Below, Above
<1> HIDE DEF O, B, A, O_, B_, A_
<1>4. Kept(q, O_) = Kept(q, O) /\ Kept(q, B_) = Kept(q, B) /\ Kept(q, A_) = Kept(q, A)
  BY <1>2, KeptSame
<1> QED
  BY <1>1, <1>3, <1>4 DEF O, B, A

\* Three sequences that are put together, as the operators of PhaseOrder do.
Joined(b, o, a) == b \o o \o a

\* Sequences of three parts, of items.
LEMMA ThreeParts ==
    ASSUME NEW X, NEW b \in Seq(X), NEW o \in Seq(X), NEW a \in Seq(X), NEW S
    PROVE  /\ Joined(b, o, a) \in Seq(X)
           /\ ToSet(Joined(b, o, a)) = ToSet(b) \cup ToSet(o) \cup ToSet(a)
           /\ Kept(Joined(b, o, a), S) = Joined(Kept(b, S), Kept(o, S), Kept(a, S))
<1> DEFINE bo == b \o o
<1>1. bo \in Seq(X)
  OBVIOUS
<1>2. ToSet(bo) = ToSet(b) \cup ToSet(o)
  BY ConcatElements
<1>3. Kept(bo, S) = Kept(b, S) \o Kept(o, S)
  BY KeptConcat, SMTT(20)
<1>4. /\ bo \o a \in Seq(X) /\ ToSet(bo \o a) = ToSet(bo) \cup ToSet(a)
      /\ Kept(bo \o a, S) = Kept(bo, S) \o Kept(a, S)
  <2> HIDE DEF bo
  <2>1. bo \o a \in Seq(X)
    BY <1>1
  <2>2. ToSet(bo \o a) = ToSet(bo) \cup ToSet(a)
    BY <1>1, ConcatElements
  <2>3. Kept(bo \o a, S) = Kept(bo, S) \o Kept(a, S)
    BY <1>1, KeptConcat, SMTT(20)
  <2> QED
    BY <2>1, <2>2, <2>3
<1> HIDE DEF bo
<1>5. /\ bo \o a \in Seq(X)
      /\ ToSet(bo \o a) = ToSet(b) \cup ToSet(o) \cup ToSet(a)
      /\ Kept(bo \o a, S) = Kept(b, S) \o Kept(o, S) \o Kept(a, S)
  BY <1>2, <1>3, <1>4
<1> QED
  BY <1>5 DEF bo, Joined

\* The items of a phase among those below, of and above another one.
LEMMA PartsOf ==
    ASSUME NEW X, Phased(X), NEW q \in Seq(X), NEW p \in Int, NEW s \in Int
    PROVE  /\ Below(q, s) \in Seq(X) /\ OfPhase(q, s) \in Seq(X) /\ Above(q, s) \in Seq(X)
           /\ ToSet(Below(q, s)) = {y \in ToSet(q) : y.phase < s}
           /\ ToSet(OfPhase(q, s)) = {y \in ToSet(q) : y.phase = s}
           /\ ToSet(Above(q, s)) = {y \in ToSet(q) : y.phase > s}
           /\ OfPhase(Below(q, s), p) = IF p < s THEN OfPhase(q, p) ELSE <<>>
           /\ OfPhase(OfPhase(q, s), p) = IF p = s THEN OfPhase(q, p) ELSE <<>>
           /\ OfPhase(Above(q, s), p) = IF p > s THEN OfPhase(q, p) ELSE <<>>
<1> DEFINE P == Equal(X, p)
           B == Less(X, s)
           O == Equal(X, s)
           A == Greater(X, s)
<1>1. /\ Below(q, s) = Kept(q, B) /\ OfPhase(q, s) = Kept(q, O) /\ Above(q, s) = Kept(q, A)
      /\ OfPhase(q, p) = Kept(q, P) /\ ToSet(q) \subseteq X
  BY Filters
<1>2. /\ B \cap P = IF p < s THEN P ELSE {}
      /\ O \cap P = IF p = s THEN P ELSE {}
      /\ A \cap P = IF p > s THEN P ELSE {}
  BY DEF Phased, Equal, Less, Greater
<1>3. /\ ToSet(q) \cap B = {y \in ToSet(q) : y.phase < s}
      /\ ToSet(q) \cap O = {y \in ToSet(q) : y.phase = s}
      /\ ToSet(q) \cap A = {y \in ToSet(q) : y.phase > s}
  BY <1>1 DEF Equal, Less, Greater
<1>4. \A r \in Seq(X) : OfPhase(r, p) = Kept(r, P)
  BY Filters
<1> HIDE DEF P, B, O, A
<1>5. /\ Kept(q, B) \in Seq(X) /\ ToSet(Kept(q, B)) = ToSet(q) \cap B
      /\ Kept(q, O) \in Seq(X) /\ ToSet(Kept(q, O)) = ToSet(q) \cap O
      /\ Kept(q, A) \in Seq(X) /\ ToSet(Kept(q, A)) = ToSet(q) \cap A
  BY KeptElements
<1>6. /\ Kept(Kept(q, B), P) = Kept(q, B \cap P)
      /\ Kept(Kept(q, O), P) = Kept(q, O \cap P)
      /\ Kept(Kept(q, A), P) = Kept(q, A \cap P)
  BY KeptKept
<1>7. Kept(q, {}) = <<>>
  BY KeptNone
<1>8. OfPhase(Below(q, s), p) = IF p < s THEN OfPhase(q, p) ELSE <<>>
  BY <1>1, <1>2, <1>4, <1>5, <1>6, <1>7
<1>9. OfPhase(OfPhase(q, s), p) = IF p = s THEN OfPhase(q, p) ELSE <<>>
  BY <1>1, <1>2, <1>4, <1>5, <1>6, <1>7
<1>10. OfPhase(Above(q, s), p) = IF p > s THEN OfPhase(q, p) ELSE <<>>
  BY <1>1, <1>2, <1>4, <1>5, <1>6, <1>7
<1> QED
  BY <1>1, <1>3, <1>5, <1>8, <1>9, <1>10

\* The items of one phase, of a sequence in three parts.
LEMMA ThreePartsOf ==
    ASSUME NEW X, NEW b \in Seq(X), NEW o \in Seq(X), NEW a \in Seq(X), NEW p
    PROVE  /\ Joined(b, o, a) \in Seq(X)
           /\ ToSet(Joined(b, o, a)) = ToSet(b) \cup ToSet(o) \cup ToSet(a)
           /\ OfPhase(Joined(b, o, a), p) = Joined(OfPhase(b, p), OfPhase(o, p), OfPhase(a, p))
<1> DEFINE P == Equal(X, p)
<1>1. \A r \in Seq(X) : OfPhase(r, p) = Kept(r, P)
  BY Filters
<1> HIDE DEF P
<1>2. /\ Joined(b, o, a) \in Seq(X)
      /\ Kept(Joined(b, o, a), P) = Joined(Kept(b, P), Kept(o, P), Kept(a, P))
  BY ThreeParts
<1>3. ToSet(Joined(b, o, a)) = ToSet(b) \cup ToSet(o) \cup ToSet(a)
  BY ThreeParts
<1> QED
  BY <1>1, <1>2, <1>3

\* Three parts of which two are empty.
LEMMA JoinedEmpty ==
    ASSUME NEW X, NEW q \in Seq(X)
    PROVE  /\ Joined(q, <<>>, <<>>) = q
           /\ Joined(<<>>, q, <<>>) = q
           /\ Joined(<<>>, <<>>, q) = q
<1>1. q \o <<>> = q /\ <<>> \o q = q
  BY ConcatEmptySeq
<1>2. <<>> \o <<>> = <<>>
  OBVIOUS
<1> QED
  BY <1>1, <1>2 DEF Joined

\* The same with one more item in the middle.
LEMMA JoinedAppend ==
    ASSUME NEW X, NEW b \in Seq(X), NEW o \in Seq(X), NEW a \in Seq(X), NEW x \in X, NEW p
    PROVE  /\ Joined(b, Append(o, x), a) \in Seq(X)
           /\ ToSet(Joined(b, Append(o, x), a)) = ToSet(b) \cup ToSet(Append(o, x)) \cup ToSet(a)
           /\ OfPhase(Joined(b, Append(o, x), a), p) =
                  Joined(OfPhase(b, p), OfPhase(Append(o, x), p), OfPhase(a, p))
<1>0. Append(o, x) \in Seq(X)
  OBVIOUS
<1>1. PICK m \in Seq(X) : m = Append(o, x)
  BY <1>0
<1>2. Joined(b, m, a) \in Seq(X) /\ ToSet(Joined(b, m, a)) = ToSet(b) \cup ToSet(m) \cup ToSet(a)
  BY ThreeParts, SMTT(20)
<1>3. OfPhase(Joined(b, m, a), p) = Joined(OfPhase(b, p), OfPhase(m, p), OfPhase(a, p))
  BY ThreePartsOf
<1> QED
  BY <1>1, <1>2, <1>3

\* A pushed item is the last one of its phase, and the other phases do not change.
LEMMA PushOf ==
    ASSUME NEW X, Phased(X), NEW q \in Seq(X), NEW x \in X, NEW p \in Int
    PROVE  /\ Push(q, x) \in Seq(X)
           /\ ToSet(Push(q, x)) = ToSet(q) \cup {x}
           /\ OfPhase(Push(q, x), p) = IF p = x.phase THEN Append(OfPhase(q, p), x)
                                                     ELSE OfPhase(q, p)
<1> DEFINE s == x.phase
           below == Below(q, s)
           same == OfPhase(q, s)
           above == Above(q, s)
           P == Equal(X, p)
<1>1. s \in Int
  BY DEF Phased
<1>2. /\ below \in Seq(X) /\ same \in Seq(X) /\ above \in Seq(X)
      /\ ToSet(below) \cup ToSet(same) \cup ToSet(above) = ToSet(q)
      /\ OfPhase(below, p) = IF p < s THEN OfPhase(q, p) ELSE <<>>
      /\ OfPhase(same, p) = IF p = s THEN OfPhase(q, p) ELSE <<>>
      /\ OfPhase(above, p) = IF p > s THEN OfPhase(q, p) ELSE <<>>
  <2>1. \A y \in ToSet(q) : y.phase \in Int
    BY Filters DEF Phased
  <2> HIDE DEF s
  <2>2. /\ below \in Seq(X) /\ same \in Seq(X) /\ above \in Seq(X)
        /\ ToSet(below) = {y \in ToSet(q) : y.phase < s}
        /\ ToSet(same) = {y \in ToSet(q) : y.phase = s}
        /\ ToSet(above) = {y \in ToSet(q) : y.phase > s}
        /\ OfPhase(below, p) = IF p < s THEN OfPhase(q, p) ELSE <<>>
        /\ OfPhase(same, p) = IF p = s THEN OfPhase(q, p) ELSE <<>>
        /\ OfPhase(above, p) = IF p > s THEN OfPhase(q, p) ELSE <<>>
    BY <1>1, PartsOf
  <2> HIDE DEF below, same, above
  <2>3. ToSet(below) \cup ToSet(same) \cup ToSet(above) = ToSet(q)
    BY <1>1, <2>1, <2>2
  <2> QED
    BY <2>2, <2>3
<1>3. Push(q, x) = below \o Append(same, x) \o above
  BY DEF Push
<1>4. OfPhase(q, p) \in Seq(X) /\ (x \in P) = (p = s)
  BY PartsOf DEF Equal
<1>5. \A r \in Seq(X) : OfPhase(r, p) = Kept(r, P)
  BY Filters
<1> HIDE DEF s, below, same, above, P
<1>6. Append(same, x) \in Seq(X) /\ ToSet(Append(same, x)) = ToSet(same) \cup {x}
  BY <1>2, AppendElements
<1>7. OfPhase(Append(same, x), p) = IF p = s THEN Append(OfPhase(q, p), x) ELSE <<>>
  <2>1. Kept(Append(same, x), P) = IF x \in P THEN Append(Kept(same, P), x) ELSE Kept(same, P)
    BY <1>2, KeptAppend
  <2>2. OfPhase(Append(same, x), p) = Kept(Append(same, x), P) /\ OfPhase(same, p) = Kept(same, P)
    BY <1>2, <1>5, <1>6
  <2> QED
    BY <1>2, <1>4, <2>1, <2>2
<1>8. /\ Push(q, x) \in Seq(X)
      /\ ToSet(Push(q, x)) = ToSet(below) \cup ToSet(Append(same, x)) \cup ToSet(above)
      /\ OfPhase(Push(q, x), p) =
             Joined(OfPhase(below, p), OfPhase(Append(same, x), p), OfPhase(above, p))
  <2>1. Push(q, x) = Joined(below, Append(same, x), above)
    BY <1>3 DEF Joined
  <2>2. below \in Seq(X) /\ same \in Seq(X) /\ above \in Seq(X)
    BY <1>2
  <2>3. /\ Joined(below, Append(same, x), above) \in Seq(X)
        /\ ToSet(Joined(below, Append(same, x), above)) =
               ToSet(below) \cup ToSet(Append(same, x)) \cup ToSet(above)
        /\ OfPhase(Joined(below, Append(same, x), above), p) =
               Joined(OfPhase(below, p), OfPhase(Append(same, x), p), OfPhase(above, p))
    BY <2>2, JoinedAppend, SMTT(30)
  <2> QED
    BY <2>1, <2>3
<1>9. OfPhase(Push(q, x), p) = IF p = s THEN Append(OfPhase(q, p), x) ELSE OfPhase(q, p)
  <2> DEFINE u == OfPhase(q, p)
             v == Append(u, x)
  <2>1. u \in Seq(X) /\ v \in Seq(X)
    BY <1>4
  <2> HIDE DEF u, v
  <2>2. /\ Joined(u, <<>>, <<>>) = u /\ Joined(<<>>, u, <<>>) = u /\ Joined(<<>>, <<>>, u) = u
        /\ Joined(<<>>, v, <<>>) = v
    BY <2>1, JoinedEmpty
  <2>3. p < s \/ p = s \/ p > s
    BY <1>1
  <2>4. ~(p < s /\ p = s) /\ ~(p < s /\ p > s) /\ ~(p = s /\ p > s)
    BY <1>1
  <2> QED
    BY <1>2, <1>7, <1>8, <2>2, <2>3, <2>4 DEF u, v
<1> QED
  BY <1>2, <1>6, <1>8, <1>9 DEF s

\* Dispatching one phase, or all of them: what is taken out, and what stays.
LEMMA DrainOf ==
    ASSUME NEW X, Phased(X), NEW q \in Seq(X), NEW s, s = All \/ s \in Int \ {All}, NEW p \in Int
    PROVE  /\ Drained(q, s) \in Seq(X) /\ Remaining(q, s) \in Seq(X)
           /\ ToSet(Drained(q, s)) \cup ToSet(Remaining(q, s)) = ToSet(q)
           /\ OfPhase(Drained(q, s), p) = IF s = All \/ s = p THEN OfPhase(q, p) ELSE <<>>
           /\ OfPhase(Remaining(q, s), p) = IF s = All \/ s = p THEN <<>> ELSE OfPhase(q, p)
<1>1. OfPhase(<<>>, p) = <<>> /\ ToSet(<<>>) = {} /\ <<>> \in Seq(X)
  BY KeptEmpty DEF OfPhase, ToSet
<1>2. CASE s = All
  BY <1>1, <1>2 DEF Drained, Remaining
<1>3. CASE s \in Int /\ s # All
  <2>1. Drained(q, s) = OfPhase(q, s) /\ Remaining(q, s) = Joined(Below(q, s), <<>>, Above(q, s))
    <3>1. Below(q, s) \in Seq(X)
      BY <1>3, PartsOf
    <3>2. Below(q, s) \o <<>> = Below(q, s)
      BY <3>1, ConcatEmptySeq
    <3> QED
      BY <1>3, <3>2 DEF Drained, Remaining, Joined
  <2>2. \A y \in ToSet(q) : y.phase \in Int
    BY Filters DEF Phased
  <2>3. /\ Below(q, s) \in Seq(X) /\ OfPhase(q, s) \in Seq(X) /\ Above(q, s) \in Seq(X)
        /\ ToSet(Below(q, s)) = {y \in ToSet(q) : y.phase < s}
        /\ ToSet(OfPhase(q, s)) = {y \in ToSet(q) : y.phase = s}
        /\ ToSet(Above(q, s)) = {y \in ToSet(q) : y.phase > s}
        /\ OfPhase(Below(q, s), p) = IF p < s THEN OfPhase(q, p) ELSE <<>>
        /\ OfPhase(OfPhase(q, s), p) = IF p = s THEN OfPhase(q, p) ELSE <<>>
        /\ OfPhase(Above(q, s), p) = IF p > s THEN OfPhase(q, p) ELSE <<>>
    BY <1>3, PartsOf
  <2>4. /\ Remaining(q, s) \in Seq(X)
        /\ ToSet(Remaining(q, s)) = ToSet(Below(q, s)) \cup {} \cup ToSet(Above(q, s))
        /\ OfPhase(Remaining(q, s), p) =
               Joined(OfPhase(Below(q, s), p), <<>>, OfPhase(Above(q, s), p))
    <3>1. PICK b \in Seq(X), a \in Seq(X) : b = Below(q, s) /\ a = Above(q, s)
      BY <2>3
    <3>2. PICK e \in Seq(X) : e = <<>>
      BY <1>1
    <3>3. /\ Joined(b, e, a) \in Seq(X)
          /\ ToSet(Joined(b, e, a)) = ToSet(b) \cup ToSet(e) \cup ToSet(a)
          /\ OfPhase(Joined(b, e, a), p) = Joined(OfPhase(b, p), OfPhase(e, p), OfPhase(a, p))
      BY ThreePartsOf
    <3> QED
      BY <1>1, <2>1, <3>1, <3>2, <3>3
  <2>5. OfPhase(q, p) \in Seq(X)
    BY PartsOf
  <2>6. /\ Joined(OfPhase(q, p), <<>>, <<>>) = OfPhase(q, p)
        /\ Joined(<<>>, <<>>, OfPhase(q, p)) = OfPhase(q, p)
        /\ Joined(<<>>, <<>>, <<>>) = <<>>
    BY <1>1, <2>5, JoinedEmpty
  <2>7. OfPhase(Remaining(q, s), p) = IF s = p THEN <<>> ELSE OfPhase(q, p)
    <3>1. CASE p < s
      BY <1>3, <2>3, <2>4, <2>6, <3>1
    <3>2. CASE p = s
      BY <1>3, <2>3, <2>4, <2>6, <3>2
    <3>3. CASE p > s
      BY <1>3, <2>3, <2>4, <2>6, <3>3
    <3> QED
      BY <1>3, <3>1, <3>2, <3>3
  <2>8. ToSet(Drained(q, s)) \cup ToSet(Remaining(q, s)) = ToSet(q)
    BY <1>3, <2>1, <2>2, <2>3, <2>4
  <2> QED
    BY <1>3, <2>1, <2>3, <2>4, <2>7, <2>8
<1> QED
  BY <1>2, <1>3

\* Dispatching one item: the first of its phase, and the other phases do not change.
LEMMA PopOf ==
    ASSUME NEW X, Phased(X), NEW q \in Seq(X), NEW s \in Int, OfPhase(q, s) # <<>>,
           NEW p \in Int
    PROVE  /\ Popped(q, s) \in Seq(X)
           /\ Head(OfPhase(q, s)) \in X
           /\ ToSet(Popped(q, s)) \cup {Head(OfPhase(q, s))} = ToSet(q)
           /\ Head(OfPhase(q, s)).phase = s
           /\ OfPhase(Popped(q, s), p) = IF p = s THEN Tail(OfPhase(q, p)) ELSE OfPhase(q, p)
<1>1. \A y \in ToSet(q) : y.phase \in Int
  BY Filters DEF Phased
<1>2. /\ Below(q, s) \in Seq(X) /\ OfPhase(q, s) \in Seq(X) /\ Above(q, s) \in Seq(X)
      /\ ToSet(Below(q, s)) = {y \in ToSet(q) : y.phase < s}
      /\ ToSet(OfPhase(q, s)) = {y \in ToSet(q) : y.phase = s}
      /\ ToSet(Above(q, s)) = {y \in ToSet(q) : y.phase > s}
      /\ OfPhase(Below(q, s), p) = IF p < s THEN OfPhase(q, p) ELSE <<>>
      /\ OfPhase(Above(q, s), p) = IF p > s THEN OfPhase(q, p) ELSE <<>>
  BY PartsOf
<1>3. PICK b \in Seq(X), o \in Seq(X), a \in Seq(X) :
          b = Below(q, s) /\ o = OfPhase(q, s) /\ a = Above(q, s)
  BY <1>2
<1>4. /\ o # <<>> /\ Tail(o) \in Seq(X) /\ Head(o) \in X
      /\ ToSet(o) = ToSet(Tail(o)) \cup {Head(o)}
  <2>1. o # <<>>
    BY <1>3
  <2> QED
    BY <2>1, HeadElements
<1>5. PICK t \in Seq(X) : t = Tail(o)
  BY <1>4
<1>6. Popped(q, s) = Joined(b, t, a)
  BY <1>3, <1>5 DEF Popped, Joined
<1>7. /\ Joined(b, t, a) \in Seq(X)
      /\ ToSet(Joined(b, t, a)) = ToSet(b) \cup ToSet(t) \cup ToSet(a)
      /\ OfPhase(Joined(b, t, a), p) = Joined(OfPhase(b, p), OfPhase(t, p), OfPhase(a, p))
  BY ThreePartsOf
<1>8. OfPhase(t, p) = IF p = s THEN t ELSE <<>>
  <2>1. OfPhase(t, p) = Kept(t, Equal(X, p)) /\ ToSet(t) \subseteq X
    BY Filters
  <2>2. \A y \in ToSet(t) : y.phase = s
    BY <1>2, <1>3, <1>4, <1>5
  <2>3. CASE p = s
    <3>1. ToSet(t) \subseteq Equal(X, p)
      BY <2>1, <2>2, <2>3 DEF Equal
    <3>2. Kept(t, Equal(X, p)) = t
      BY <3>1, KeptAll
    <3> QED
      BY <2>1, <2>3, <3>2
  <2>4. CASE p # s
    <3>1. ToSet(t) \cap Equal(X, p) = {}
      BY <2>2, <2>4 DEF Equal
    <3>2. Kept(t, Equal(X, p)) = <<>>
      BY <3>1, KeptNone
    <3> QED
      BY <2>1, <2>4, <3>2
  <2> QED
    BY <2>3, <2>4
<1>9. PICK u \in Seq(X) : u = OfPhase(q, p)
  BY PartsOf
<1>10. /\ Joined(u, <<>>, <<>>) = u /\ Joined(<<>>, <<>>, u) = u /\ Joined(<<>>, t, <<>>) = t
  BY JoinedEmpty
<1>11. OfPhase(Popped(q, s), p) = IF p = s THEN t ELSE u
  <2>1. CASE p < s
    BY <1>2, <1>3, <1>6, <1>7, <1>8, <1>9, <1>10, <2>1
  <2>2. CASE p = s
    BY <1>2, <1>3, <1>6, <1>7, <1>8, <1>9, <1>10, <2>2
  <2>3. CASE p > s
    BY <1>2, <1>3, <1>6, <1>7, <1>8, <1>9, <1>10, <2>3
  <2> QED
    BY <2>1, <2>2, <2>3
<1>12. ToSet(Popped(q, s)) \cup {Head(o)} = ToSet(q)
  BY <1>1, <1>2, <1>3, <1>4, <1>5, <1>6, <1>7
<1>13. Head(o).phase = s
  BY <1>2, <1>3, <1>4
<1> QED
  BY <1>3, <1>4, <1>5, <1>6, <1>7, <1>9, <1>11, <1>12, <1>13

-----------------------------------------------------------------------------
(* PushAll. *)

\* The queues after the first i pushes.
Pushes(q, r, f) ==
    f = [i \in 0 .. Len(r) |-> IF i = 0 THEN q ELSE Push(f[i - 1], r[i])]

\* The function in PushAll exists.
LEMMA PushAllUnfold ==
    ASSUME NEW X, Phased(X), NEW q \in Seq(X), NEW r \in Seq(X)
    PROVE  \E f \in [0 .. Len(r) -> Seq(X)] : Pushes(q, r, f) /\ PushAll(q, r) = f[Len(r)]
<1> DEFINE n == Len(r)
           F == [p \in Seq(X) \X (1 .. n) |-> Push(p[1], r[p[2]])]
           G == CHOOSE f : Pushes(q, r, f)
<1>1. n \in Nat /\ \A i \in 1 .. n : r[i] \in X
  OBVIOUS
<1>0. \A u \in Seq(X), x \in X : Push(u, x) \in Seq(X)
  BY PushOf, SMTT(20)
<1>2. F \in [Seq(X) \X (1 .. n) -> Seq(X)]
  BY <1>0, <1>1
<1>3. PICK f : Recursive(f, Seq(X), q, n, F)
  <2> HIDE DEF F, n
  <2> QED
    BY <1>1, <1>2, NatRecursion, Zenon
<1>4. /\ f \in [0 .. n -> Seq(X)] /\ f[0] = q
      /\ \A i \in 1 .. n : f[i] = Push(f[i - 1], r[i])
  <2>1. /\ f \in [0 .. n -> Seq(X)] /\ f[0] = q
        /\ \A i \in 1 .. n : f[i] = F[<<f[i - 1], i>>]
    BY <1>3 DEF Recursive
  <2>2. \A i \in 1 .. n : f[i - 1] \in Seq(X)
    BY <1>1, <2>1
  <2> QED
    BY <2>1, <2>2
<1>5. Pushes(q, r, f)
  <2>1. \A i \in 0 .. n : f[i] = IF i = 0 THEN q ELSE Push(f[i - 1], r[i])
    <3>1. \A i \in 0 .. n : i = 0 \/ i \in 1 .. n
      BY <1>1
    <3>2. \A i \in 1 .. n : i # 0
      BY <1>1
    <3> HIDE DEF n
    <3> QED
      BY <1>4, <3>1, <3>2
  <2>2. f = [i \in 0 .. n |-> f[i]]
    BY <1>4
  <2> QED
    BY <2>1, <2>2 DEF Pushes
<1>6. Pushes(q, r, G)
  BY <1>5
<1>7. PushAll(q, r) = G[n]
  BY DEF PushAll, Pushes
<1>8. G \in [0 .. n -> Seq(X)]
  <2> HIDE DEF G
  <2> DEFINE T == {i \in Nat : i <= n => G[i] \in Seq(X)}
  <2>1. \A i \in 0 .. n : G[i] = IF i = 0 THEN q ELSE Push(G[i - 1], r[i])
    BY <1>6 DEF Pushes
  <2>2. 0 \in T
    BY <2>1, <1>1
  <2>3. ASSUME NEW k \in T
        PROVE  k + 1 \in T
    <3>1. CASE k + 1 <= n
      <4>1. k \in 0 .. n /\ k + 1 \in 1 .. n /\ k + 1 \in 0 .. n /\ (k + 1) - 1 = k /\ k + 1 # 0
        BY <1>1, <3>1
      <4>2. G[k] \in Seq(X) /\ r[k + 1] \in X
        BY <1>1, <4>1
      <4>3. G[k + 1] = Push(G[k], r[k + 1])
        BY <2>1, <4>1
      <4>4. G[k + 1] \in Seq(X)
        BY <1>0, <4>2, <4>3
      <4> QED
        BY <4>1, <4>4
    <3> QED
      BY <1>1, <3>1
  <2>4. T = Nat
    <3> HIDE DEF T
    <3>1. T \in SUBSET Nat
      BY DEF T
    <3> QED
      BY <2>2, <2>3, <3>1, NatSetInduction
  <2>5. \A i \in 0 .. n : G[i] \in Seq(X)
    BY <2>4, <1>1
  <2> QED
    BY <1>6, <2>5 DEF Pushes
<1> QED
  BY <1>6, <1>7, <1>8

\* Nothing is pushed, and one more item is.
LEMMA PushAllEmpty ==
    ASSUME NEW X, Phased(X), NEW q \in Seq(X)
    PROVE  PushAll(q, <<>>) = q
<1>0. <<>> \in Seq(X)
  OBVIOUS
<1>1. PICK e \in Seq(X) : e = <<>>
  BY <1>0
<1>2. PICK f \in [0 .. Len(e) -> Seq(X)] : Pushes(q, e, f) /\ PushAll(q, e) = f[Len(e)]
  BY PushAllUnfold
<1>3. f[0] = q
  BY <1>1, <1>2 DEF Pushes
<1> QED
  BY <1>1, <1>2, <1>3

\* The last push of a sequence of pushes.
LEMMA PushAllAppend ==
    ASSUME NEW X, Phased(X), NEW q \in Seq(X), NEW r \in Seq(X), NEW x \in X
    PROVE  PushAll(q, Append(r, x)) = Push(PushAll(q, r), x)
<1> DEFINE n == Len(r)
<1>0. Append(r, x) \in Seq(X)
  OBVIOUS
<1>1. PICK rx \in Seq(X) : rx = Append(r, x)
  BY <1>0
<1>2. n \in Nat /\ Len(rx) = n + 1 /\ rx[n + 1] = x /\ \A i \in 1 .. n : rx[i] = r[i]
  BY <1>1
<1>3. PICK f \in [0 .. n -> Seq(X)] : Pushes(q, r, f) /\ PushAll(q, r) = f[n]
  BY PushAllUnfold
<1>4. PICK g \in [0 .. n + 1 -> Seq(X)] : Pushes(q, rx, g) /\ PushAll(q, rx) = g[n + 1]
  BY <1>2, PushAllUnfold
<1> DEFINE T == {i \in Nat : i <= n => g[i] = f[i]}
<1>5. \A i \in 0 .. n : f[i] = IF i = 0 THEN q ELSE Push(f[i - 1], r[i])
  BY <1>3 DEF Pushes
<1>6. \A i \in 0 .. n + 1 : g[i] = IF i = 0 THEN q ELSE Push(g[i - 1], rx[i])
  BY <1>2, <1>4 DEF Pushes
<1>7. 0 \in T
  BY <1>2, <1>5, <1>6
<1>8. ASSUME NEW k \in T
      PROVE  k + 1 \in T
  <2>1. CASE k + 1 <= n
    <3>1. k + 1 \in 1 .. n /\ k + 1 \in 0 .. n /\ k + 1 \in 0 .. n + 1 /\ (k + 1) - 1 = k
          /\ k <= n /\ k + 1 # 0
      BY <1>2, <2>1
    <3>2. g[k] = f[k] /\ rx[k + 1] = r[k + 1]
      BY <1>2, <3>1
    <3>3. f[k + 1] = Push(f[k], r[k + 1]) /\ g[k + 1] = Push(g[k], rx[k + 1])
      BY <1>5, <1>6, <3>1
    <3> QED
      BY <3>2, <3>3
  <2> QED
    BY <1>2, <2>1
<1>9. T = Nat
  <2> HIDE DEF T
  <2>1. T \in SUBSET Nat
    BY DEF T
  <2> QED
    BY <1>7, <1>8, <2>1, NatSetInduction
<1>10. g[n] = f[n]
  BY <1>2, <1>9
<1>11. n + 1 \in 0 .. n + 1 /\ n + 1 # 0 /\ (n + 1) - 1 = n
  BY <1>2
<1>12. g[n + 1] = Push(g[n], rx[n + 1])
  BY <1>6, <1>11
<1> QED
  BY <1>1, <1>2, <1>3, <1>4, <1>10, <1>12

\* Pushed one after the other, the items come after those of their phases, in their order.
LEMMA PushAllOf ==
    ASSUME NEW X, Phased(X), NEW q \in Seq(X), NEW r \in Seq(X), NEW p \in Int
    PROVE  /\ PushAll(q, r) \in Seq(X)
           /\ ToSet(PushAll(q, r)) = ToSet(q) \cup ToSet(r)
           /\ OfPhase(PushAll(q, r), p) = OfPhase(q, p) \o OfPhase(r, p)
<1> DEFINE Q == {t \in Seq(X) : /\ PushAll(q, t) \in Seq(X)
                                /\ ToSet(PushAll(q, t)) = ToSet(q) \cup ToSet(t)
                                /\ OfPhase(PushAll(q, t), p) = OfPhase(q, p) \o OfPhase(t, p)}
<1>0. OfPhase(q, p) \in Seq(X) /\ \A t \in Seq(X) : OfPhase(t, p) \in Seq(X)
  BY PartsOf
<1>1. <<>> \in Q
  <2>1. <<>> \in Seq(X) /\ ToSet(<<>>) = {} /\ OfPhase(<<>>, p) = <<>>
    BY KeptEmpty DEF OfPhase, ToSet
  <2>2. OfPhase(q, p) \o <<>> = OfPhase(q, p)
    BY <1>0, ConcatEmptySeq
  <2> QED
    BY <2>1, <2>2, PushAllEmpty
<1>2. ASSUME NEW t \in Q, NEW x \in X
      PROVE  Append(t, x) \in Q
  <2>1. /\ t \in Seq(X) /\ PushAll(q, t) \in Seq(X)
        /\ ToSet(PushAll(q, t)) = ToSet(q) \cup ToSet(t)
        /\ OfPhase(PushAll(q, t), p) = OfPhase(q, p) \o OfPhase(t, p)
    OBVIOUS
  <2>10. Append(t, x) \in Seq(X)
    BY <2>1
  <2>2. PICK u \in Seq(X), tx \in Seq(X) : u = PushAll(q, t) /\ tx = Append(t, x)
    BY <2>1, <2>10
  <2>3. PushAll(q, tx) = Push(u, x)
    BY <2>1, <2>2, PushAllAppend
  <2>4. /\ Push(u, x) \in Seq(X)
        /\ ToSet(Push(u, x)) = ToSet(u) \cup {x}
        /\ OfPhase(Push(u, x), p) = IF p = x.phase THEN Append(OfPhase(u, p), x)
                                                  ELSE OfPhase(u, p)
    BY PushOf
  <2>5. ToSet(tx) = ToSet(t) \cup {x}
    BY <2>1, <2>2, AppendElements
  <2>6. OfPhase(tx, p) = IF p = x.phase THEN Append(OfPhase(t, p), x) ELSE OfPhase(t, p)
    <3>1. OfPhase(tx, p) = Kept(tx, Equal(X, p)) /\ OfPhase(t, p) = Kept(t, Equal(X, p))
      BY <2>1, Filters
    <3>2. Kept(tx, Equal(X, p)) = IF x \in Equal(X, p) THEN Append(Kept(t, Equal(X, p)), x)
                                                      ELSE Kept(t, Equal(X, p))
      BY <2>1, <2>2, KeptAppend
    <3>3. (x \in Equal(X, p)) = (p = x.phase)
      BY DEF Equal
    <3> QED
      BY <3>1, <3>2, <3>3
  <2>7. OfPhase(q, p) \o Append(OfPhase(t, p), x) = Append(OfPhase(q, p) \o OfPhase(t, p), x)
    BY <1>0, <2>1, ConcatAppend, SMTT(20)
  <2>8. OfPhase(Push(u, x), p) = OfPhase(q, p) \o OfPhase(tx, p)
    <3>1. CASE p = x.phase
      BY <2>1, <2>2, <2>4, <2>6, <2>7, <3>1
    <3>2. CASE p # x.phase
      BY <2>1, <2>2, <2>4, <2>6, <3>2
    <3> QED
      BY <3>1, <3>2
  <2>9. tx \in Q
    BY <2>1, <2>2, <2>3, <2>4, <2>5, <2>8
  <2> QED
    BY <2>2, <2>9
<1>3. Q = Seq(X)
  <2> HIDE DEF Q
  <2>1. Q \in SUBSET Seq(X)
    BY DEF Q
  <2> QED
    BY <1>1, <1>2, <2>1, SeqSetInduction
<1>4. r \in Q
  <2> HIDE DEF Q
  <2> QED
    BY <1>3
<1> QED
  BY <1>4

\* A sequence is a prefix of itself, and of itself with another one behind.
LEMMA PrefixOf ==
    ASSUME NEW X, NEW s \in Seq(X), NEW t \in Seq(X)
    PROVE  IsPrefix(s, s) /\ IsPrefix(s, s \o t)
<1>1. /\ Len(s) \in Nat /\ Len(t) \in Nat /\ s \o t \in Seq(X)
      /\ Len(s \o t) = Len(s) + Len(t)
      /\ \A i \in 1 .. Len(s) : (s \o t)[i] = s[i]
  OBVIOUS
<1>2. SubSeq(s, 1, Len(s)) = [i \in 1 .. Len(s) |-> s[i]]
  BY <1>1
<1>3. SubSeq(s \o t, 1, Len(s)) = [i \in 1 .. Len(s) |-> (s \o t)[i]]
  BY <1>1
<1>4. SubSeq(s, 1, Len(s)) = SubSeq(s \o t, 1, Len(s))
  BY <1>1, <1>2, <1>3
<1>5. Len(s) <= Len(s) /\ Len(s) <= Len(s \o t)
  BY <1>1
<1> QED
  BY <1>4, <1>5 DEF IsPrefix

\* The items of a phase without the first item of the queue.
LEMMA TailOf ==
    ASSUME NEW X, Phased(X), NEW q \in Seq(X), q # <<>>, NEW p \in Int
    PROVE  OfPhase(q, p) = IF p = Head(q).phase THEN <<Head(q)>> \o OfPhase(Tail(q), p)
                                                ELSE OfPhase(Tail(q), p)
<1> DEFINE x == Head(q)
           r == Tail(q)
           P == Equal(X, p)
<1>1. x \in X /\ r \in Seq(X) /\ <<x>> \in Seq(X)
  BY HeadElements
<1>2. q = <<x>> \o r
  OBVIOUS
<1>3. \A t \in Seq(X) : OfPhase(t, p) = Kept(t, P)
  BY Filters
<1> DEFINE none == <<>>
           one == <<x>>
<1>4. Kept(q, P) = Kept(one, P) \o Kept(r, P)
  <2>1. one \in Seq(X) /\ q = one \o r
    BY <1>1, <1>2
  <2> HIDE DEF one, x, r, P
  <2>2. Kept(one \o r, P) = Kept(one, P) \o Kept(r, P)
    BY <1>1, <2>1, KeptConcat
  <2> QED
    BY <2>1, <2>2
<1>5. Kept(one, P) = IF p = x.phase THEN <<x>> ELSE <<>>
  <2>1. none \in Seq(X) /\ Append(none, x) = one /\ (x \in P) = (p = x.phase)
    BY <1>1 DEF Equal
  <2>2. Kept(none, P) = none
    BY KeptEmpty
  <2>3. Kept(Append(none, x), P) = IF x \in P THEN Append(Kept(none, P), x) ELSE Kept(none, P)
    <3>1. none \in Seq(X) /\ x \in X
      BY <1>1
    <3> HIDE DEF none, x, P
    <3> QED
      BY <3>1, KeptAppend
  <2> HIDE DEF x, r, P
  <2> QED
    BY <2>1, <2>2, <2>3
<1>6. Kept(r, P) \in Seq(X)
  BY <1>1, KeptElements
<1>7. <<>> \o Kept(r, P) = Kept(r, P)
  BY <1>6
<1> HIDE DEF x, r, P
<1>8. Kept(q, P) = IF p = x.phase THEN <<x>> \o Kept(r, P) ELSE Kept(r, P)
  BY <1>4, <1>5, <1>7
<1> QED
  BY <1>1, <1>3, <1>8 DEF x, r

-----------------------------------------------------------------------------
(* The inductive invariant. *)

\* That the entries and the keys are inverse to each other is what keeps the last clone of one
\* waiter from removing the entry of another.
TableInv ==
    /\ table \in [Key -> Waiter \cup {None}] /\ key \in [Waiter -> Key \cup {None}]
    /\ wakes \in Seq(Key) /\ drops \subseteq Key
    /\ life \in [Waiter -> {"new", "spawned", "live", "done"}]
    /\ held \in [Waiter -> BOOLEAN] /\ waking \in [Waiter -> BOOLEAN]
    /\ KeysAgree
    /\ \A e \in Waiter : key[e] # None => table[key[e]] = e
    /\ \A k \in Key : table[k] # None => key[table[k]] = k
    /\ \A e \in Waiter : life[e] \in {"new", "spawned"} => key[e] = None

\* User code runs under the dispatch of an action or of a reaction; only code under an action
\* opens a context.
CodeInv ==
    /\ code # None => \/ at \in {"actions", "react"}
                      \/ at \in {"unbind", "notify"} /\ back = "actions"
    /\ \A e \in Waiter : Polling(e) => life[e] = "live"

TaskInv == TasksEndWithRuntime /\ (raw = "none" => at = "user")

\* The types of the variables that TableInv leaves out.
ReactionItem == [phase : Phase, do : {"run"}, of : Effect]

QueueInv ==
    /\ actions \in Seq(Item) /\ batch \in Seq(Item) /\ reactions \in Seq(ReactionItem)
    /\ notifys \in Seq(Notify) /\ nbatch \in Seq(Notify)

FlatInv ==
    /\ config \in Config \cup {None}
    /\ unbinds \in SUBSET Effect
    /\ needWake \in BOOLEAN /\ waker \in BOOLEAN /\ wait \in {"none", "poll", "parked", "ready"}
    /\ tasks \in SUBSET Task /\ discards \in 0 .. MaxDiscards
    /\ ready \in [Waiter -> BOOLEAN] /\ woken \in [Waiter -> BOOLEAN]
    /\ fut \in [Effect -> BOOLEAN] /\ dirty \in [Effect -> BOOLEAN]
    /\ isWake \in [Effect -> BOOLEAN] /\ bound \in [Effect -> BOOLEAN]
    /\ raw \in {"owner", "globals", "caller", "none"}
    /\ at \in {"user", "actions", "unbind", "notify", "react", "discard"}
    /\ back \in {"user", "actions", "react", "discard"}
    /\ fn \in Dispatcher \cup {None} /\ arg \in Phase \cup {All} /\ handled \in BOOLEAN
    /\ code \in Item \cup {None}
    /\ runtimes \in 0 .. MaxRuntimes /\ fault \in {"none", "borrow", "phase"}

TypeInv == QueueInv /\ FlatInv

\* Who can be below whom on the stack of calls, and whose batch it is.
PlaceInv ==
    /\ back # "react" => at \in {"unbind", "notify"}
    /\ at = "notify" => back # "discard" /\ unbinds = {}
    /\ "user" \in {at, back} => fn = None
    /\ batch # <<>> => at \in {"actions", "react"} \/ back = "actions"
    /\ fn = "action" => arg \in Phase
    /\ fn = "flush" => arg = All
    /\ raw # "none" => config \in Config

\* A wait that is suspended has its waker in place, and every queue it looks at is empty, during a
\* call of try_call too.
ParkedInv ==
    wait = "parked" =>
        /\ waker /\ needWake
        /\ actions = <<>> /\ reactions = <<>> /\ notifys = <<>> /\ wakes = <<>>

Scheduled(e) == Reaction(e) \in ToSet(reactions) \cup ToSet(batch)
\* What an effect that was queued when its Runtime ended can no longer say.
Orphaned == runtimes > 1 \/ raw = "none"

NextPending(e) == \E x \in ToSet(actions) \cup ToSet(batch) : x.do = "next" /\ x.of = e
NotifyPending(e) == [of |-> e, slot |-> "wake"] \in ToSet(notifys) \cup ToSet(nbatch)

\* An effect whose flag says that it was woken is scheduled, as long as it has a future: it is why a
\* second wake needs no second reaction.
PendingInv ==
    /\ \A e \in Effect : fut[e] => life[e] = "live" /\ runtimes > 0
    /\ runtimes = 0 => raw = "none"
    /\ \A e \in Effect : fut[e] /\ isWake[e] => Scheduled(e) \/ Orphaned
    /\ \A e \in Waiter : woken[e] /\ Awaiting(e) =>
           \/ key[e] \in ToSet(wakes)
           \/ e \in Task /\ NextPending(e)
           \/ e \in Effect /\ NotifyPending(e)
           \/ e \in Effect /\ isWake[e] /\ (Scheduled(e) \/ Orphaned)

OnlyNext == \A x \in ToSet(actions) : x.do = "next"

\* flush has got to its reactions without an action left, and goes on to the discards only when
\* there was no reaction either.
FlushInv ==
    fn = "flush" =>
        /\ at \in {"unbind", "notify"} /\ back = "react" => OnlyNext
        /\ back = "discard" => handled
        /\ at \in {"react", "discard"} /\ ~handled =>
               /\ batch = <<>> /\ code = None
               /\ reactions = <<>> /\ notifys = <<>> /\ unbinds = {}
               /\ OnlyNext

-----------------------------------------------------------------------------
(* The operations on the table. *)

\* A waiter that was never registered gets a free key.
LEMMA InsertTable ==
    ASSUME TableInv, NEW e \in Waiter, life[e] \in {"new", "spawned"}, InsertWaker(e),
           life' = [life EXCEPT ![e] = "live"], UNCHANGED <<held, waking>>
    PROVE  TableInv'
<1>1. PICK k \in Key : /\ table[k] = None
                       /\ table' = [table EXCEPT ![k] = e]
                       /\ key' = [key EXCEPT ![e] = k]
                       /\ UNCHANGED <<wakes, drops>>
  BY DEF InsertWaker
<1>2. None \notin Waiter /\ None \notin Key
  BY RuntimeAssumption
<1>3. key[e] = None /\ \A j \in Key : table[j] # e
  BY <1>2 DEF TableInv
<1>4. k \notin drops /\ \A x \in Waiter : key[x] # k
  BY <1>1, <1>2 DEF TableInv, KeysAgree
<1>5. \A x \in Waiter : key'[x] = IF x = e THEN k ELSE key[x]
  BY <1>1 DEF TableInv
<1>6. \A j \in Key : table'[j] = IF j = k THEN e ELSE table[j]
  BY <1>1 DEF TableInv
<1>7. ~held[e] /\ ~waking[e]
  BY <1>2, <1>3 DEF TableInv, KeysAgree
<1>8. ToSet(wakes) \subseteq Key
  BY DEF TableInv, ToSet
<1>9. KeysAgree'
  BY <1>1, <1>2, <1>3, <1>4, <1>5, <1>6, <1>7, <1>8 DEF TableInv, KeysAgree, ToSet
<1> QED
  BY <1>1, <1>2, <1>3, <1>4, <1>5, <1>6, <1>9 DEF TableInv

\* Waiters end: the entries of those nobody else holds are asked to be removed.
LEMMA DropTable ==
    ASSUME TableInv, NEW gone \in SUBSET Waiter,
           life' = [e \in Waiter |-> IF e \in gone THEN "done" ELSE life[e]],
           drops' = drops \cup LastClones(gone),
           UNCHANGED <<table, key, wakes, held, waking>>
    PROVE  TableInv'
<1>1. None \notin Waiter /\ None \notin Key
  BY RuntimeAssumption
<1>2. \A k \in drops' \ drops :
          /\ k \in Key /\ table[k] \in Waiter
          /\ table[k] \in gone /\ ~held[table[k]] /\ ~waking[table[k]]
  BY <1>1 DEF TableInv, LastClones
<1>3. \A e \in Waiter : life'[e] = IF e \in gone THEN "done" ELSE life[e]
  OBVIOUS
<1>4. \A e \in gone :
          key[e] # None /\ ~held[e] /\ ~waking[e] => key[e] \in drops'
  BY DEF LastClones
<1>5. ASSUME NEW e \in Waiter, life'[e] = "live" \/ held[e] \/ waking[e]
      PROVE  key[e] \in Key \ drops' /\ table[key[e]] = e
  <2>1. key[e] \in Key \ drops /\ table[key[e]] = e
    BY <1>3, <1>5 DEF TableInv, KeysAgree
  <2> QED
    BY <1>2, <1>3, <1>5, <2>1
<1>6. ASSUME NEW k \in Key, table[k] # None, k \notin drops'
      PROVE  life'[table[k]] = "live" \/ held[table[k]] \/ waking[table[k]]
  <2>1. table[k] \in Waiter /\ key[table[k]] = k /\ k \notin drops
    BY <1>6 DEF TableInv
  <2>2. life[table[k]] = "live" \/ held[table[k]] \/ waking[table[k]]
    BY <1>6, <2>1 DEF TableInv, KeysAgree
  <2> QED
    BY <1>1, <1>3, <1>4, <1>6, <2>1, <2>2
<1>7. \A k \in ToSet(wakes) \cup drops' : table[k] # None
  BY <1>1, <1>2 DEF TableInv, KeysAgree
<1>8. KeysAgree'
  BY <1>5, <1>6, <1>7 DEF KeysAgree, ToSet
<1> QED
  BY <1>2, <1>3, <1>8 DEF TableInv

\* apply_wake removes the entries that nobody holds any more, and their keys.
LEMMA ApplyTable ==
    ASSUME TableInv, ApplyWake, UNCHANGED <<life, held, waking>>
    PROVE  TableInv'
<1>1. None \notin Waiter /\ None \notin Key
  BY RuntimeAssumption
<1>2. \A k \in Key : table'[k] = IF k \in drops THEN None ELSE table[k]
  BY DEF ApplyWake, Swept
<1>3. \A e \in Waiter : key'[e] = IF key[e] \in drops THEN None ELSE key[e]
  BY DEF ApplyWake
<1>4. wakes' = <<>> /\ drops' = {}
  BY DEF ApplyWake
<1>5. /\ table' \in [Key -> Waiter \cup {None}] /\ key' \in [Waiter -> Key \cup {None}]
      /\ wakes' \in Seq(Key)
  BY <1>4 DEF TableInv, ApplyWake, Swept
<1>6. KeysAgree'
  BY <1>1, <1>2, <1>3, <1>4, <1>5 DEF TableInv, KeysAgree, ToSet
<1>7. \A e \in Waiter : key'[e] # None => table'[key'[e]] = e
  BY <1>1, <1>2, <1>3, <1>5 DEF TableInv
<1>8. \A k \in Key : table'[k] # None => key'[table'[k]] = k
  BY <1>1, <1>2, <1>3, <1>5 DEF TableInv
<1> QED
  BY <1>1, <1>3, <1>4, <1>5, <1>6, <1>7, <1>8 DEF TableInv

\* A clone is made while a waiter is polled.
LEMMA HoldTable ==
    ASSUME TableInv, NEW e \in Waiter, life[e] = "live",
           held' = [held EXCEPT ![e] = TRUE], UNCHANGED <<requests, life, waking>>
    PROVE  TableInv'
<1>1. \A x \in Waiter : held'[x] = (held[x] \/ x = e)
  BY DEF TableInv
<1>2. KeysAgree'
  BY <1>1 DEF requests, TableInv, KeysAgree, ToSet
<1> QED
  BY <1>2 DEF TableInv, requests

\* A clone goes, and nothing asks for the removal if another one is left.
LEMMA ReleaseTable ==
    ASSUME TableInv, NEW e \in Waiter, held[e] \/ waking[e],
           held' \in [Waiter -> BOOLEAN], waking' \in [Waiter -> BOOLEAN],
           \A x \in Waiter \ {e} : held'[x] = held[x] /\ waking'[x] = waking[x],
           drops' = IF life[e] = "live" \/ held'[e] \/ waking'[e] THEN drops
                    ELSE drops \cup {key[e]},
           UNCHANGED <<table, key, wakes, life>>
    PROVE  TableInv'
<1>1. None \notin Waiter /\ None \notin Key
  BY RuntimeAssumption
<1>2. key[e] \in Key \ drops /\ table[key[e]] = e
  BY DEF TableInv, KeysAgree
<1>3. ASSUME NEW x \in Waiter, life[x] = "live" \/ held'[x] \/ waking'[x]
      PROVE  key[x] \in Key \ drops' /\ table[key[x]] = x
  BY <1>2, <1>3 DEF TableInv, KeysAgree
<1>4. ASSUME NEW k \in Key, table[k] # None, k \notin drops'
      PROVE  life[table[k]] = "live" \/ held'[table[k]] \/ waking'[table[k]]
  <2>1. table[k] \in Waiter /\ key[table[k]] = k
    BY <1>4 DEF TableInv
  <2> QED
    BY <1>4, <2>1 DEF TableInv, KeysAgree
<1>5. \A k \in ToSet(wakes) \cup drops' : table[k] # None
  BY <1>1, <1>2 DEF TableInv, KeysAgree
<1>6. KeysAgree'
  BY <1>3, <1>4, <1>5 DEF KeysAgree, ToSet
<1> QED
  BY <1>2, <1>6 DEF TableInv

\* A waiter that is woken still has an entry.
LEMMA WakeTable ==
    ASSUME TableInv, NEW e \in Waiter, Wake(e)
    PROVE  TableInv'
<1>1. key[e] \in Key \ drops /\ table[key[e]] = e /\ None \notin Waiter
  BY RuntimeAssumption DEF Wake, TableInv, KeysAgree
<1>2. /\ wakes' = Append(wakes, key[e]) /\ UNCHANGED <<table, key, drops, life>>
      /\ held' = [held EXCEPT ![e] = FALSE] /\ waking' = [waking EXCEPT ![e] = TRUE]
  BY DEF Wake
<1>3. wakes' \in Seq(Key) /\ \A x \in ToSet(wakes') : x \in ToSet(wakes) \cup {key[e]}
  <2>1. /\ wakes' \in Seq(Key) /\ Len(wakes') = Len(wakes) + 1 /\ Len(wakes) \in Nat
        /\ \A i \in 1 .. Len(wakes) + 1 :
               wakes'[i] = IF i <= Len(wakes) THEN wakes[i] ELSE key[e]
    BY <1>1, <1>2 DEF TableInv
  <2> QED
    BY <2>1 DEF TableInv, ToSet
<1>4. \A x \in Waiter : (held'[x] \/ waking'[x]) = (held[x] \/ waking[x] \/ x = e)
  BY <1>2 DEF TableInv
<1>5. KeysAgree'
  BY <1>1, <1>2, <1>3, <1>4 DEF TableInv, KeysAgree, ToSet, Wake
<1> QED
  BY <1>2, <1>3, <1>5 DEF TableInv

-----------------------------------------------------------------------------
(* The steps. *)

TableStays == UNCHANGED <<requests, life, held, waking>>

\* Most steps are none of the table's business.
LEMMA StayTable ==
    ASSUME TableInv, TableStays
    PROVE  TableInv'
BY DEF TableStays, requests, TableInv, KeysAgree, ToSet

\* What users do: only the ends of tasks and effects, and effects that are created.
LEMMA UserTable ==
    ASSUME TableInv, TaskInv, UserStep
    PROVE  TableInv'
<1>1. ASSUME NEW t \in Task, SpawnAsync(t)
      PROVE  TableInv'
  <2>1. /\ life[t] = "new" /\ life' = [life EXCEPT ![t] = "spawned"]
        /\ UNCHANGED <<table, key, wakes, drops, held, waking>> /\ t \in Waiter
    BY <1>1 DEF SpawnAsync, requests, arcs, Waiter
  <2>2. \A e \in Waiter : life'[e] = IF e = t THEN "spawned" ELSE life[e]
    BY <2>1 DEF TableInv
  <2>3. KeysAgree'
    BY <2>1, <2>2 DEF TableInv, KeysAgree, ToSet
  <2> QED
    BY <2>1, <2>2, <2>3 DEF TableInv
<1>2. ASSUME NEW e \in Effect, Subscribe(e)
      PROVE  TableInv'
  BY <1>2, InsertTable DEF Subscribe, arcs, Waiter
<1>3. ASSUME NEW e \in Effect, Unsubscribe(e)
      PROVE  TableInv'
  <2> DEFINE gone == {e}
  <2>1. /\ gone \in SUBSET Waiter
        /\ life' = [x \in Waiter |-> IF x \in gone THEN "done" ELSE life[x]]
        /\ drops' = drops \cup LastClones(gone)
        /\ UNCHANGED <<table, key, wakes, held, waking>>
    BY <1>3 DEF Unsubscribe, DropNodes, arcs, Waiter
  <2> HIDE DEF gone
  <2> QED
    BY <2>1, DropTable
<1>4. ASSUME DropRuntime
      PROVE  TableInv'
  <2>1. CASE \E e \in Discarded \cap Effect : bound[e]
    BY <1>4, <2>1, StayTable DEF DropRuntime, TableStays, arcs
  <2>2. CASE ~\E e \in Discarded \cap Effect : bound[e]
    <3>1. /\ DropNodes(Cancelled \cup Discarded) /\ Cancelled \cup Discarded \subseteq Waiter
          /\ UNCHANGED <<table, key, wakes, held, waking>>
      BY <1>4, <2>2 DEF DropRuntime, arcs, Cancelled, Discarded, TaskInv,
                        TasksEndWithRuntime, Waiter
    <3> QED
      BY <3>1, DropTable DEF DropNodes
  <2> QED
    BY <2>1, <2>2
<1>5. CASE TableStays
  BY <1>5, StayTable
<1> QED
  BY <1>1, <1>2, <1>3, <1>4, <1>5
  DEF UserStep, TableStays, SpawnAction, LooseNotify, SetState, NewRuntime, Dispatch,
      OpenContext, Lend, Unlend, EnterCall, LeaveCall, arcs

\* What runs inside a dispatch: tasks that start and end, closures that own an effect, polls that
\* leave a clone, and apply_wake.
LEMMA InternalTable ==
    ASSUME TableInv, CodeInv, Internal
    PROVE  TableInv'
<1>1. CASE GetAction
  BY <1>1, ApplyTable, StayTable DEF GetAction, TableStays, arcs
<1>2. CASE GetActions
  BY <1>2, ApplyTable DEF GetActions, arcs
<1>3. CASE GetNotifys
  BY <1>3, ApplyTable DEF GetNotifys, arcs
<1>4. CASE CallAction
  <2>1. UNCHANGED <<held, waking>>
    BY <1>4 DEF CallAction, arcs
  <2>2. ASSUME NEW t \in Task, life[t] = "spawned", InsertWaker(t),
               life' = [life EXCEPT ![t] = "live"]
        PROVE  TableInv'
    BY <2>1, <2>2, InsertTable DEF Waiter
  <2>3. CASE UNCHANGED <<requests, life>>
    BY <2>1, <2>3, StayTable DEF TableStays
  <2> QED
    BY <1>4, <2>2, <2>3 DEF CallAction
<1>5. CASE CodeReturns
  <2> DEFINE gone == {e \in Effect : code.of = e}
  <2>1. /\ gone \in SUBSET Waiter
        /\ life' = [x \in Waiter |-> IF x \in gone THEN "done" ELSE life[x]]
        /\ drops' = drops \cup LastClones(gone)
        /\ UNCHANGED <<table, key, wakes, held, waking>>
    BY <1>5 DEF CodeReturns, DropNodes, arcs, Waiter
  <2> HIDE DEF gone
  <2> QED
    BY <2>1, DropTable
<1>6. ASSUME NEW t \in Task, TaskPolled(t)
      PROVE  TableInv'
  <2>1. t \in Waiter /\ life[t] = "live"
    BY <1>6 DEF TaskPolled, CodeInv, Waiter
  <2>2. CASE ready[t]
    <3> DEFINE gone == {t}
    <3>1. /\ gone \in SUBSET Waiter
          /\ life' = [x \in Waiter |-> IF x \in gone THEN "done" ELSE life[x]]
          /\ drops' = drops \cup LastClones(gone)
          /\ UNCHANGED <<table, key, wakes, held, waking>>
      BY <1>6, <2>1, <2>2 DEF TaskPolled, TableInv
    <3> HIDE DEF gone
    <3> QED
      BY <3>1, DropTable
  <2>3. CASE ~ready[t]
    BY <1>6, <2>1, <2>3, HoldTable DEF TaskPolled, requests
  <2> QED
    BY <2>2, <2>3
<1>7. ASSUME NEW e \in Effect, EffectPolled(e)
      PROVE  TableInv'
  <2>1. e \in Waiter /\ life[e] = "live"
    BY <1>7 DEF EffectPolled, CodeInv, Waiter
  <2> QED
    BY <1>7, <2>1, HoldTable, StayTable DEF EffectPolled, TableStays
<1>8. CASE TableStays
  BY <1>8, StayTable
<1> QED
  BY <1>1, <1>2, <1>3, <1>4, <1>5, <1>6, <1>7, <1>8
  DEF Internal, TableStays, Unbind, UnbindsDone, CallNotify, PhasePanic, RunReaction,
      ReactionsDone, RunDiscard, DiscardsDone, arcs

\* Other threads wake waiters and drop clones.
LEMMA ThreadTable ==
    ASSUME TableInv, NEW e \in Waiter, Fire(e) \/ Wake(e) \/ Release(e) \/ Forget(e)
    PROVE  TableInv'
<1>1. CASE Fire(e)
  BY <1>1, StayTable DEF Fire, TableStays
<1>2. CASE Wake(e)
  BY <1>2, WakeTable
<1>3. CASE Release(e)
  <2>1. /\ waking[e] /\ waking' = [waking EXCEPT ![e] = FALSE] /\ held' = held
        /\ drops' = IF life[e] = "live" \/ held[e] THEN drops ELSE drops \cup {key[e]}
        /\ UNCHANGED <<table, key, wakes, life>>
    BY <1>3 DEF Release
  <2>2. /\ held' \in [Waiter -> BOOLEAN] /\ waking' \in [Waiter -> BOOLEAN]
        /\ ~waking'[e] /\ \A x \in Waiter \ {e} : waking'[x] = waking[x]
    BY <2>1 DEF TableInv
  <2> QED
    BY <2>1, <2>2, ReleaseTable
<1>4. CASE Forget(e)
  <2>1. /\ held[e] /\ held' = [held EXCEPT ![e] = FALSE] /\ waking' = waking
        /\ drops' = IF life[e] = "live" \/ waking[e] THEN drops ELSE drops \cup {key[e]}
        /\ UNCHANGED <<table, key, wakes, life>>
    BY <1>4 DEF Forget
  <2>2. /\ held' \in [Waiter -> BOOLEAN] /\ waking' \in [Waiter -> BOOLEAN]
        /\ ~held'[e] /\ \A x \in Waiter \ {e} : held'[x] = held[x]
    BY <2>1 DEF TableInv
  <2> QED
    BY <2>1, <2>2, ReleaseTable
<1> QED
  BY <1>1, <1>2, <1>3, <1>4

-----------------------------------------------------------------------------
(* User code and tasks. *)

CodeStays == UNCHANGED <<at, back, code>> /\ \A e \in Waiter : life[e] = "live" => life'[e] = "live"

\* User code starts and ends with the dispatch it is under.
LEMMA CodeStep ==
    ASSUME TableInv, CodeInv, Next
    PROVE  CodeInv'
<1> USE DEF CodeInv, Polling
<1>1. CASE CodeStays
  BY <1>1 DEF CodeStays
<1>2. ASSUME NEW f \in Dispatcher, NEW p \in Phase \cup {All}, Dispatch(f, p)
      PROVE  CodeInv'
  BY <1>2 DEF Dispatch
<1>3. CASE OpenContext
  BY <1>3 DEF OpenContext, HasContext
<1>4. ASSUME NEW e \in Effect, Unsubscribe(e)
      PROVE  CodeInv'
  BY <1>4 DEF Unsubscribe, DropNodes, place, Waiter
<1>5. CASE DropRuntime
  BY <1>5 DEF DropRuntime, place
<1>6. CASE GetAction \/ GetActions \/ ReactionsDone
  BY <1>6 DEF GetAction, GetActions, ReactionsDone, Idle, Finish
<1>7. CASE DiscardsDone \/ RunDiscard
  BY <1>7 DEF DiscardsDone, RunDiscard, DiscardsReturn, Finish
<1>8. CASE UnbindsDone \/ GetNotifys
  BY <1>8 DEF UnbindsDone, GetNotifys
<1>9. CASE CallAction
  <2>1. at = "actions" /\ UNCHANGED <<at, back>>
    BY <1>9 DEF CallAction
  <2>2. CASE code' = Head(batch) /\ Head(batch).do = "code" /\ UNCHANGED life
    BY <2>1, <2>2
  <2>3. ASSUME NEW t \in Task, Poll(t), life' = [life EXCEPT ![t] = "live"] \/
                                       (life[t] = "live" /\ UNCHANGED life)
        PROVE  CodeInv'
    <3>1. code' = [phase |-> PhaseOf[t], do |-> "poll", of |-> t] /\ t \in Waiter
      BY <2>3 DEF Poll, ActionItem, Waiter
    <3>2. life'[t] = "live"
      BY <2>3, <3>1 DEF TableInv
    <3> QED
      BY <2>1, <3>1, <3>2
  <2>4. CASE UNCHANGED <<code, life>>
    BY <2>1, <2>4
  <2> QED
    BY <1>9, <2>2, <2>3, <2>4 DEF CallAction
<1>10. CASE CodeReturns
  BY <1>10 DEF CodeReturns, place
<1>11. ASSUME NEW t \in Task, TaskPolled(t)
       PROVE  CodeInv'
  BY <1>11 DEF TaskPolled, place
<1>12. ASSUME NEW e \in Effect, EffectPolled(e)
       PROVE  CodeInv'
  BY <1>12 DEF EffectPolled, place
<1>13. CASE RunReaction
  <2>1. at = "react" /\ UNCHANGED <<at, back, life>>
    BY <1>13 DEF RunReaction
  <2>2. PICK e \in Effect : \/ UNCHANGED code
                            \/ life[e] = "live" /\ Poll(e)
    BY <1>13 DEF RunReaction
  <2> QED
    BY <2>1, <2>2 DEF Poll, ActionItem
<1>14. ASSUME NEW e \in Waiter, \/ e \in Task /\ SpawnAsync(e)
                                \/ e \in Effect /\ Subscribe(e)
       PROVE  CodeInv'
  <2>1. /\ life[e] = "new" /\ UNCHANGED <<at, back, code>>
        /\ life' = [life EXCEPT ![e] = "spawned"] \/ life' = [life EXCEPT ![e] = "live"]
    BY <1>14 DEF SpawnAsync, Subscribe, place
  <2> QED
    BY <1>1, <2>1 DEF CodeStays, TableInv
<1>15. CASE PollWait \/ Threads \/ Halted
  BY <1>1, <1>15 DEF PollWait, Threads, Fire, Wake, Release, Forget, Halted, vars, place,
                     CodeStays
<1>16. ASSUME NEW e \in Effect, LooseNotify(e) \/ SetState(e) \/ Unbind(e)
       PROVE  CodeInv'
  BY <1>1, <1>16 DEF LooseNotify, SetState, Unbind, place, CodeStays
<1>17. CASE \/ \E p \in Phase, e \in Effect \cup {None} : SpawnAction(p, e)
            \/ \E c \in Config : NewRuntime(c)
            \/ Lend \/ Unlend \/ EnterCall \/ LeaveCall \/ CallNotify \/ PhasePanic
  BY <1>1, <1>17 DEF SpawnAction, NewRuntime, Lend, Unlend, EnterCall, LeaveCall, CallNotify,
                     PhasePanic, place, CodeStays
<1> QED
  BY <1>2, <1>3, <1>4, <1>5, <1>6, <1>7, <1>8, <1>9, <1>10, <1>11, <1>12, <1>13, <1>14, <1>15,
     <1>16, <1>17 DEF Next, UserStep, Internal, Waiter

\* Which tasks live, for the steps that change life.
LEMMA TaskStep ==
    ASSUME TableInv, CodeInv, TaskInv, Next
    PROVE  TaskInv'
<1> USE DEF TaskInv, TasksEndWithRuntime
<1>0. Task \cap Effect = {} /\ Task \subseteq Waiter
  BY RuntimeAssumption DEF Waiter
<1>1. CASE /\ tasks' = tasks /\ \A t \in Task : (life'[t] = "live") = (life[t] = "live")
           /\ raw' = "none" => raw = "none" /\ (at = "user" => at' = "user")
  BY <1>1
<1>2. ASSUME NEW e \in Waiter, \/ e \in Task /\ SpawnAsync(e)
                               \/ e \in Effect /\ Subscribe(e)
                               \/ e \in Effect /\ Unsubscribe(e)
      PROVE  TaskInv'
  <2>1. /\ UNCHANGED <<tasks, raw, at>>
        /\ \A t \in Task : (life'[t] = "live") = (life[t] = "live")
    BY <1>0, <1>2 DEF SpawnAsync, Subscribe, Unsubscribe, DropNodes, data, place, TableInv
  <2> QED
    BY <1>1, <2>1
<1>3. CASE DropRuntime
  BY <1>0, <1>3 DEF DropRuntime, DropNodes, Cancelled, data, place, HasContext, UserCode
<1>4. CASE CallAction
  <2>1. at = "actions" /\ UNCHANGED <<at, raw>>
    BY <1>4 DEF CallAction
  <2>2. CASE UNCHANGED <<tasks, life>>
    BY <1>1, <2>1, <2>2
  <2>3. ASSUME NEW t \in Task, life' = [life EXCEPT ![t] = "live"], tasks' = tasks \cup {t}
        PROVE  TaskInv'
    <3>1. \A x \in Task : life'[x] = IF x = t THEN "live" ELSE life[x]
      BY <1>0, <2>3 DEF TableInv
    <3> QED
      BY <2>1, <2>3, <3>1
  <2> QED
    BY <1>4, <2>2, <2>3 DEF CallAction
<1>5. CASE CodeReturns
  BY <1>0, <1>5 DEF CodeReturns, DropNodes, data, place
<1>6. ASSUME NEW t \in Task, TaskPolled(t)
      PROVE  TaskInv'
  <2>1. UNCHANGED <<at, raw>> /\ at = "actions"
    BY <1>6 DEF TaskPolled, place
  <2>2. CASE ready[t]
    <3>1. \A x \in Task : life'[x] = IF x = t THEN "done" ELSE life[x]
      BY <1>0, <1>6, <2>2 DEF TaskPolled, TableInv
    <3> QED
      BY <1>6, <2>1, <2>2, <3>1 DEF TaskPolled
  <2>3. CASE ~ready[t]
    BY <1>1, <1>6, <2>1, <2>3 DEF TaskPolled
  <2> QED
    BY <2>2, <2>3
<1>7. ASSUME NEW f \in Dispatcher, NEW p \in Phase \cup {All}, Dispatch(f, p)
      PROVE  TaskInv'
  BY <1>7 DEF Dispatch, data
<1>8. CASE OpenContext
  BY <1>8 DEF OpenContext, HasContext, data
<1>9. CASE GetAction \/ GetActions \/ ReactionsDone
  BY <1>9 DEF GetAction, GetActions, ReactionsDone, Idle, data
<1>10. CASE DiscardsDone \/ RunDiscard
  BY <1>10 DEF DiscardsDone, RunDiscard, data
<1>11. CASE UnbindsDone \/ GetNotifys
  BY <1>11 DEF UnbindsDone, GetNotifys, data
<1>12. ASSUME NEW e \in Effect, \/ EffectPolled(e) \/ Unbind(e) \/ LooseNotify(e)
                                \/ SetState(e)
       PROVE  TaskInv'
  BY <1>1, <1>12 DEF EffectPolled, Unbind, LooseNotify, SetState, data, place
<1>13. CASE PollWait \/ Threads \/ Halted
  BY <1>1, <1>13 DEF PollWait, Threads, Fire, Wake, Release, Forget, Halted, vars, data, place
<1>14. CASE \/ \E p \in Phase, e \in Effect \cup {None} : SpawnAction(p, e)
            \/ \E c \in Config : NewRuntime(c)
            \/ Lend \/ Unlend \/ EnterCall \/ LeaveCall \/ CallNotify \/ PhasePanic
            \/ RunReaction
  BY <1>1, <1>14 DEF SpawnAction, NewRuntime, Lend, Unlend, EnterCall, LeaveCall, CallNotify,
                     PhasePanic, RunReaction, data, place
<1> QED
  BY <1>2, <1>3, <1>4, <1>5, <1>6, <1>7, <1>8, <1>9, <1>10, <1>11, <1>12, <1>13, <1>14
  DEF Next, UserStep, Internal, Waiter

-----------------------------------------------------------------------------
(* The queues. *)

\* The phases of actions and of reactions are integers, as the buckets need them.
LEMMA ItemPhases ==
    /\ Phased(Item) /\ Phased(ReactionItem) /\ ReactionItem \subseteq Item
    /\ \A p \in Phase : p \in Int \ {All}
BY RuntimeAssumption DEF Phased, Item, ReactionItem, Waiter

\* What apply_wake makes of the wakes: for each live entry an action or a notification, behind
\* those that are there.
LEMMA WokenOf ==
    ASSUME TableInv, actions \in Seq(Item), notifys \in Seq(Notify)
    PROVE  /\ WokenActions \in Seq(Item) /\ WokenNotifys \in Seq(Notify)
           /\ ToSet(actions) \subseteq ToSet(WokenActions)
           /\ ToSet(notifys) \subseteq ToSet(WokenNotifys)
           /\ \A x \in ToSet(WokenActions) : x \in ToSet(actions) \/ x.do = "next"
           /\ \A k \in ToSet(wakes), e \in Waiter : Swept[k] = e =>
                  /\ e \in Task => NextItem(e) \in ToSet(WokenActions)
                  /\ e \in Effect => [of |-> e, slot |-> "wake"] \in ToSet(WokenNotifys)
           /\ \A p \in Phase : \E r \in Seq(Item) :
                  OfPhase(WokenActions, p) = OfPhase(actions, p) \o r
           /\ wakes = <<>> => WokenActions = actions /\ WokenNotifys = notifys
<1> DEFINE h == Hits(Task)
           g == Hits(Effect)
           r == [i \in DOMAIN h |-> NextItem(Swept[h[i]])]
           n == [i \in DOMAIN g |-> [of |-> Swept[g[i]], slot |-> "wake"]]
<1>1. wakes \in Seq(Key) /\ Task \subseteq Waiter /\ Effect \subseteq Waiter
  BY DEF TableInv, Waiter
<1>2. /\ h \in Seq(Key) /\ ToSet(h) = ToSet(wakes) \cap {k \in Key : Swept[k] \in Task}
      /\ g \in Seq(Key) /\ ToSet(g) = ToSet(wakes) \cap {k \in Key : Swept[k] \in Effect}
  BY <1>1, KeptElements DEF Hits
<1>3. \A i \in DOMAIN h : Swept[h[i]] \in Task
  BY <1>2 DEF ToSet
<1>4. \A i \in DOMAIN g : Swept[g[i]] \in Effect
  BY <1>2 DEF ToSet
<1>5. \A t \in Task : NextItem(t) \in Item /\ NextItem(t).do = "next"
  BY <1>1, RuntimeAssumption DEF NextItem, ActionItem, Item
<1>6. \A e \in Effect : [of |-> e, slot |-> "wake"] \in Notify
  BY DEF Notify
<1>7. r \in Seq(Item) /\ DOMAIN r = DOMAIN h
  <2>1. DOMAIN h = 1 .. Len(h) /\ Len(h) \in Nat
    BY <1>2
  <2>2. \A i \in 1 .. Len(h) : NextItem(Swept[h[i]]) \in Item
    BY <1>3, <1>5, <2>1
  <2> HIDE DEF h
  <2> QED
    BY <2>1, <2>2
<1>8. n \in Seq(Notify) /\ DOMAIN n = DOMAIN g
  <2>1. DOMAIN g = 1 .. Len(g) /\ Len(g) \in Nat
    BY <1>2
  <2>2. \A i \in 1 .. Len(g) : [of |-> Swept[g[i]], slot |-> "wake"] \in Notify
    BY <1>4, <1>6, <2>1
  <2> HIDE DEF g
  <2> QED
    BY <2>1, <2>2
<1>9. WokenActions = PushAll(actions, r) /\ WokenNotifys = notifys \o n
  BY DEF WokenActions, WokenNotifys
<1>10. \A x \in ToSet(r) : x.do = "next"
  BY <1>3, <1>5, <1>7 DEF ToSet
<1>11. \A k \in ToSet(wakes), e \in Task : Swept[k] = e => NextItem(e) \in ToSet(r)
  <2>1. ASSUME NEW k \in ToSet(wakes), Swept[k] \in Task
        PROVE  NextItem(Swept[k]) \in ToSet(r)
    <3>1. k \in Key
      BY <1>1 DEF ToSet
    <3>2. PICK i \in DOMAIN h : h[i] = k
      BY <1>2, <2>1, <3>1 DEF ToSet
    <3>3. r[i] = NextItem(Swept[k])
      BY <3>2
    <3> QED
      BY <1>7, <3>2, <3>3 DEF ToSet
  <2> QED
    BY <2>1
<1>12. \A k \in ToSet(wakes), e \in Effect :
           Swept[k] = e => [of |-> e, slot |-> "wake"] \in ToSet(n)
  <2>1. ASSUME NEW k \in ToSet(wakes), Swept[k] \in Effect
        PROVE  [of |-> Swept[k], slot |-> "wake"] \in ToSet(n)
    <3>1. k \in Key
      BY <1>1 DEF ToSet
    <3>2. PICK i \in DOMAIN g : g[i] = k
      BY <1>2, <2>1, <3>1 DEF ToSet
    <3>3. n[i] = [of |-> Swept[k], slot |-> "wake"]
      BY <3>2
    <3> QED
      BY <1>8, <3>2, <3>3 DEF ToSet
  <2> QED
    BY <2>1
<1>13. wakes = <<>> => r = <<>> /\ n = <<>>
  BY KeptEmpty DEF Hits
<1> HIDE DEF h, g, r, n
<1>14. /\ WokenActions \in Seq(Item)
       /\ ToSet(WokenActions) = ToSet(actions) \cup ToSet(r)
       /\ \A p \in Phase : OfPhase(WokenActions, p) = OfPhase(actions, p) \o OfPhase(r, p)
  <2>1. Phased(Item) /\ \A p \in Phase : p \in Int
    BY ItemPhases
  <2>2. ASSUME NEW p \in Int
        PROVE  /\ PushAll(actions, r) \in Seq(Item)
               /\ ToSet(PushAll(actions, r)) = ToSet(actions) \cup ToSet(r)
               /\ OfPhase(PushAll(actions, r), p) = OfPhase(actions, p) \o OfPhase(r, p)
    BY <1>7, <2>1, PushAllOf
  <2>3. 0 \in Int
    OBVIOUS
  <2> QED
    BY <1>9, <2>1, <2>2, <2>3
<1>15. WokenNotifys \in Seq(Notify)
  BY <1>8, <1>9
<1>16. ToSet(WokenNotifys) = ToSet(notifys) \cup ToSet(n)
  BY <1>8, <1>9, ConcatElements
<1>17. \A p \in Phase : OfPhase(r, p) \in Seq(Item)
  BY <1>7, PartsOf, ItemPhases
<1>18. wakes = <<>> => WokenActions = actions /\ WokenNotifys = notifys
  <2>1. PushAll(actions, <<>>) = actions
    BY ItemPhases, PushAllEmpty
  <2>2. notifys \o <<>> = notifys
    OBVIOUS
  <2> QED
    BY <1>9, <1>13, <2>1, <2>2
<1> QED
  BY <1>10, <1>11, <1>12, <1>14, <1>15, <1>16, <1>17, <1>18

\* Push, for an item and for a reaction.
LEMMA PushItem ==
    ASSUME actions \in Seq(Item), NEW x \in Item
    PROVE  /\ Push(actions, x) \in Seq(Item)
           /\ ToSet(Push(actions, x)) = ToSet(actions) \cup {x}
           /\ \A p \in Phase : OfPhase(Push(actions, x), p) =
                  IF p = x.phase THEN Append(OfPhase(actions, p), x) ELSE OfPhase(actions, p)
<1>1. Phased(Item) /\ 0 \in Int /\ \A p \in Phase : p \in Int
  BY ItemPhases
<1>2. ASSUME NEW p \in Int
      PROVE  /\ Push(actions, x) \in Seq(Item)
             /\ ToSet(Push(actions, x)) = ToSet(actions) \cup {x}
             /\ OfPhase(Push(actions, x), p) =
                  IF p = x.phase THEN Append(OfPhase(actions, p), x) ELSE OfPhase(actions, p)
  BY <1>1, PushOf
<1> QED
  BY <1>1, <1>2

\* Push of a reaction.
LEMMA PushReaction ==
    ASSUME reactions \in Seq(ReactionItem), NEW x \in ReactionItem
    PROVE  /\ Push(reactions, x) \in Seq(ReactionItem)
           /\ ToSet(Push(reactions, x)) = ToSet(reactions) \cup {x}
<1>1. Phased(ReactionItem) /\ 0 \in Int
  BY ItemPhases
<1> QED
  BY <1>1, PushOf

\* What dispatch_actions_with takes out, and what it leaves.
LEMMA TakeItems ==
    ASSUME NEW q \in Seq(Item), NEW s \in Phase \cup {All}
    PROVE  /\ Drained(q, s) \in Seq(Item) /\ Remaining(q, s) \in Seq(Item)
           /\ ToSet(Drained(q, s)) \cup ToSet(Remaining(q, s)) = ToSet(q)
           /\ \A p \in Phase :
                  OfPhase(Drained(q, s), p) \o OfPhase(Remaining(q, s), p) = OfPhase(q, p)
<1>1. Phased(Item) /\ 0 \in Int /\ (s = All \/ s \in Int \ {All}) /\ \A p \in Phase : p \in Int
  BY ItemPhases
<1>2. ASSUME NEW p \in Int
      PROVE  /\ Drained(q, s) \in Seq(Item) /\ Remaining(q, s) \in Seq(Item)
             /\ ToSet(Drained(q, s)) \cup ToSet(Remaining(q, s)) = ToSet(q)
             /\ OfPhase(Drained(q, s), p) = IF s = All \/ s = p THEN OfPhase(q, p) ELSE <<>>
             /\ OfPhase(Remaining(q, s), p) = IF s = All \/ s = p THEN <<>> ELSE OfPhase(q, p)
  BY <1>1, DrainOf
<1>3. ASSUME NEW p \in Phase
      PROVE  OfPhase(Drained(q, s), p) \o OfPhase(Remaining(q, s), p) = OfPhase(q, p)
  <2>1. OfPhase(q, p) \in Seq(Item)
    BY <1>1, PartsOf
  <2>2. OfPhase(q, p) \o <<>> = OfPhase(q, p) /\ <<>> \o OfPhase(q, p) = OfPhase(q, p)
    BY <2>1
  <2> QED
    BY <1>1, <1>2, <2>2
<1> QED
  BY <1>1, <1>2, <1>3

\* What dispatch_reactions_with takes out, and what it leaves.
LEMMA TakeReactions ==
    ASSUME reactions \in Seq(ReactionItem), arg \in Phase \cup {All}
    PROVE  /\ Drained(reactions, arg) \in Seq(ReactionItem)
           /\ Remaining(reactions, arg) \in Seq(ReactionItem)
           /\ ToSet(Drained(reactions, arg)) \cup ToSet(Remaining(reactions, arg))
                  = ToSet(reactions)
<1>1. Phased(ReactionItem) /\ 0 \in Int /\ (arg = All \/ arg \in Int \ {All})
  BY ItemPhases
<1> QED
  BY <1>1, DrainOf

\* What dispatch_action takes out.
LEMMA TakeItem ==
    ASSUME NEW q \in Seq(Item), NEW s \in Phase, Drained(q, s) # <<>>
    PROVE  /\ Head(Drained(q, s)) \in Item /\ Popped(q, s) \in Seq(Item)
           /\ ToSet(Popped(q, s)) \cup {Head(Drained(q, s))} = ToSet(q)
           /\ \A p \in Phase :
                  OfPhase(<<Head(Drained(q, s))>>, p) \o OfPhase(Popped(q, s), p) = OfPhase(q, p)
<1> DEFINE x == Head(Drained(q, s))
           one == <<x>>
<1>1. Phased(Item) /\ 0 \in Int /\ s # All /\ s \in Int /\ \A p \in Phase : p \in Int
  BY ItemPhases
<1>2. Drained(q, s) = OfPhase(q, s) /\ OfPhase(q, s) # <<>>
  BY <1>1 DEF Drained
<1>3. ASSUME NEW p \in Int
      PROVE  /\ x \in Item /\ Popped(q, s) \in Seq(Item) /\ x.phase = s
             /\ ToSet(Popped(q, s)) \cup {x} = ToSet(q)
             /\ OfPhase(Popped(q, s), p) =
                    IF p = s THEN Tail(OfPhase(q, p)) ELSE OfPhase(q, p)
  BY <1>1, <1>2, PopOf
<1>4. ASSUME NEW p \in Phase
      PROVE  OfPhase(one, p) \o OfPhase(Popped(q, s), p) = OfPhase(q, p)
  <2>1. p \in Int /\ x \in Item /\ x.phase = s /\ one \in Seq(Item) /\ one # <<>>
        /\ Head(one) = x /\ Tail(one) = <<>>
    BY <1>1, <1>3
  <2>2. OfPhase(<<>>, p) = <<>>
    BY KeptEmpty DEF OfPhase
  <2>3. OfPhase(one, p) = IF p = s THEN <<x>> \o <<>> ELSE <<>>
    <3> HIDE DEF one, x
    <3> QED
      BY <1>1, <2>1, <2>2, TailOf
  <2>4. OfPhase(q, p) \in Seq(Item)
    BY <1>1, <2>1, PartsOf
  <2>5. CASE p = s
    <3>1. <<x>> \o Tail(OfPhase(q, p)) = OfPhase(q, p)
      BY <1>2, <2>4, <2>5
    <3>2. <<x>> \o <<>> = <<x>>
      OBVIOUS
    <3> HIDE DEF x, one
    <3> QED
      BY <1>3, <2>1, <2>3, <2>5, <3>1, <3>2
  <2>6. CASE p # s
    <3>1. <<>> \o OfPhase(q, p) = OfPhase(q, p)
      BY <2>4
    <3> HIDE DEF x, one
    <3> QED
      BY <1>3, <2>1, <2>3, <2>6, <3>1
  <2> QED
    BY <2>5, <2>6
<1> HIDE DEF x
<1> QED
  BY <1>1, <1>3, <1>4 DEF x

-----------------------------------------------------------------------------
(* Types. *)

\* A new reaction, and a waiter's poll.
LEMMA NewItems ==
    /\ \A e \in Effect : Reaction(e) \in ReactionItem /\ Reaction(e).of = e
    /\ \A e \in Waiter, what \in {"start", "next", "run", "poll"} :
           ActionItem(PhaseOf[e], what, e) \in Item
    /\ \A p \in Phase, e \in Effect \cup {None} : ActionItem(p, "code", e) \in Item
BY RuntimeAssumption DEF Reaction, ActionItem, Item, ReactionItem, Waiter

\* Globals::wake and RawWakeRequests::wake.
LEMMA WakerTypes ==
    ASSUME FlatInv, GlobalsWake \/ (TakeWaker /\ UNCHANGED needWake) \/ UNCHANGED wakers
    PROVE  /\ needWake' \in BOOLEAN /\ waker' \in BOOLEAN
           /\ wait' \in {"none", "poll", "parked", "ready"}
BY DEF FlatInv, GlobalsWake, TakeWaker, wakers

\* The types after a notification.
LEMMA NotifiedTypes ==
    ASSUME TypeInv, NEW e \in Effect, NEW slot \in {"wake", "deps"}, Notified(e, slot)
    PROVE  /\ reactions' \in Seq(ReactionItem)
           /\ dirty' \in [Effect -> BOOLEAN] /\ isWake' \in [Effect -> BOOLEAN]
           /\ needWake' \in BOOLEAN /\ waker' \in BOOLEAN
           /\ wait' \in {"none", "poll", "parked", "ready"}
<1>1. GlobalsWake \/ UNCHANGED wakers
  BY DEF Notified
<1>2. reactions' \in Seq(ReactionItem)
  BY NewItems, PushReaction DEF Notified, TypeInv, QueueInv
<1>3. dirty' \in [Effect -> BOOLEAN] /\ isWake' \in [Effect -> BOOLEAN]
  <2>1. Effect \subseteq Waiter
    BY DEF Waiter
  <2>2. (slot = "wake") \/ (slot # "wake")
    OBVIOUS
  <2>3. \/ isWake' = [isWake EXCEPT ![e] = @ \/ life[e] = "live"] /\ UNCHANGED dirty
        \/ dirty' = [dirty EXCEPT ![e] = @ \/ life[e] = "live"] /\ UNCHANGED isWake
    BY DEF Notified
  <2> QED
    BY <2>3 DEF TypeInv, FlatInv
<1> QED
  BY <1>1, <1>2, <1>3, WakerTypes DEF TypeInv

\* The nodes that are freed.
LEMMA DropTypes ==
    ASSUME FlatInv, NEW gone \in SUBSET Waiter, DropNodes(gone)
    PROVE  fut' \in [Effect -> BOOLEAN] /\ unbinds' \in SUBSET Effect
BY DEF FlatInv, DropNodes

\* The types after what users do.
LEMMA UserTypes ==
    ASSUME TableInv, TypeInv, UserStep
    PROVE  TypeInv'
<1> USE DEF queues, wakers, requests, data, arcs, effects, place, history
<1>1. ASSUME NEW p \in Phase, NEW e \in Effect \cup {None}, SpawnAction(p, e)
      PROVE  TypeInv'
  <2>1. QueueInv'
    <3>1. ActionItem(p, "code", e) \in Item
      BY NewItems
    <3> QED
      BY <1>1, <3>1, PushItem DEF SpawnAction, TypeInv, QueueInv
  <2>2. GlobalsWake
    BY <1>1 DEF SpawnAction
  <2> QED
    BY <1>1, <2>1, <2>2, WakerTypes DEF SpawnAction, TypeInv, FlatInv
<1>2. ASSUME NEW t \in Task, SpawnAsync(t)
      PROVE  TypeInv'
  <2>1. QueueInv'
    <3>1. ActionItem(PhaseOf[t], "start", t) \in Item
      BY NewItems DEF Waiter
    <3> QED
      BY <1>2, <3>1, PushItem DEF SpawnAsync, TypeInv, QueueInv
  <2>2. GlobalsWake
    BY <1>2 DEF SpawnAsync
  <2> QED
    BY <1>2, <2>1, <2>2, WakerTypes DEF SpawnAsync, TypeInv, FlatInv
<1>3. ASSUME NEW e \in Effect, Subscribe(e)
      PROVE  TypeInv'
  <2>1. QueueInv'
    <3>1. Reaction(e) \in ReactionItem
      BY NewItems
    <3> QED
      BY <1>3, <3>1, PushReaction DEF Subscribe, TypeInv, QueueInv
  <2>2. GlobalsWake
    BY <1>3 DEF Subscribe
  <2> QED
    BY <1>3, <2>1, <2>2, WakerTypes DEF Subscribe, TypeInv, FlatInv
<1>4. ASSUME NEW e \in Effect, Unsubscribe(e)
      PROVE  TypeInv'
  <2>1. DropNodes({e}) /\ {e} \in SUBSET Waiter
    BY <1>4 DEF Unsubscribe, Waiter
  <2>2. fut' \in [Effect -> BOOLEAN] /\ unbinds' \in SUBSET Effect
    BY <2>1, DropTypes DEF TypeInv
  <2> QED
    BY <1>4, <2>2 DEF Unsubscribe, TypeInv, QueueInv, FlatInv
<1>5. ASSUME NEW e \in Effect, LooseNotify(e)
      PROVE  TypeInv'
  <2>1. QueueInv'
    <3>1. [of |-> e, slot |-> "deps"] \in Notify
      BY DEF Notify
    <3> QED
      BY <1>5, <3>1 DEF LooseNotify, TypeInv, QueueInv
  <2>2. GlobalsWake
    BY <1>5 DEF LooseNotify
  <2> QED
    BY <1>5, <2>1, <2>2, WakerTypes DEF LooseNotify, TypeInv, FlatInv
<1>6. ASSUME NEW e \in Effect, SetState(e)
      PROVE  TypeInv'
  <2>1. Notified(e, "deps")
    BY <1>6 DEF SetState
  <2> QED
    BY <1>6, <2>1, NotifiedTypes DEF SetState, TypeInv, QueueInv, FlatInv
<1>7. ASSUME NEW c \in Config, NewRuntime(c)
      PROVE  TypeInv'
  BY <1>7, RuntimeAssumption DEF NewRuntime, TypeInv, QueueInv, FlatInv
<1>8. ASSUME NEW f \in Dispatcher, NEW p \in Phase \cup {All}, Dispatch(f, p)
      PROVE  TypeInv'
  <2>1. EntryOf(f) \in {"actions", "unbind", "discard"}
    BY DEF EntryOf, Dispatcher
  <2>2. QueueInv'
    BY <1>8 DEF Dispatch, TypeInv, QueueInv
  <2>3. FlatInv'
    <3>1. /\ fn' = f /\ arg' = p /\ handled' = FALSE /\ at' = EntryOf(f) /\ back' = "react"
          /\ UNCHANGED <<config, unbinds, needWake, waker, wait, tasks, discards, ready, woken,
                         fut, dirty, isWake, bound, raw, code, runtimes, fault>>
      BY <1>8 DEF Dispatch
    <3>2. FlatInv
      BY DEF TypeInv
    <3>3. (at \in {"user", "actions", "unbind", "notify", "react", "discard"})'
          /\ (back \in {"user", "actions", "react", "discard"})'
      BY <2>1, <3>1
    <3>4. (fn \in Dispatcher \cup {None} /\ arg \in Phase \cup {All} /\ handled \in BOOLEAN)'
      BY <1>8, <3>1
    <3> QED
      BY <3>1, <3>2, <3>3, <3>4 DEF FlatInv
  <2> QED
    BY <2>2, <2>3 DEF TypeInv
<1>9. CASE OpenContext
  BY <1>9 DEF OpenContext, HasContext, TypeInv, QueueInv, FlatInv
<1>10. CASE Lend \/ Unlend \/ EnterCall \/ LeaveCall
  BY <1>10 DEF Lend, Unlend, EnterCall, LeaveCall, TypeInv, QueueInv, FlatInv
<1>11. CASE DropRuntime
  <2>1. CASE \E e \in Discarded \cap Effect : bound[e]
    BY <1>11, <2>1 DEF DropRuntime, TypeInv, QueueInv, FlatInv
  <2>2. CASE ~\E e \in Discarded \cap Effect : bound[e]
    <3>1. Cancelled \cup Discarded \in SUBSET Waiter
      BY DEF Cancelled, Discarded, TypeInv, FlatInv, Waiter
    <3>2. fut' \in [Effect -> BOOLEAN] /\ unbinds' \in SUBSET Effect
      BY <1>11, <2>2, <3>1, DropTypes DEF DropRuntime, TypeInv
    <3>3. QueueInv'
      BY <1>11, <2>2 DEF DropRuntime, TypeInv, QueueInv
    <3>4. MaxDiscards \in Nat
      BY RuntimeAssumption
    <3> QED
      BY <1>11, <2>2, <3>2, <3>3, <3>4 DEF DropRuntime, TypeInv, FlatInv
  <2> QED
    BY <2>1, <2>2
<1> QED
  BY <1>1, <1>2, <1>3, <1>4, <1>5, <1>6, <1>7, <1>8, <1>9, <1>10, <1>11 DEF UserStep

\* The types after what runs inside a dispatch.
LEMMA InternalTypes ==
    ASSUME TableInv, TypeInv, PlaceInv, Internal
    PROVE  TypeInv'
<1> USE DEF queues, wakers, requests, data, arcs, effects, place, history
<1>0. /\ WokenActions \in Seq(Item) /\ WokenNotifys \in Seq(Notify)
      /\ <<>> \in Seq(Notify) /\ arg \in Phase \cup {All}
  BY WokenOf DEF TypeInv, QueueInv, FlatInv
<1>1. CASE GetAction
  <2>1. notifys' \in Seq(Notify) /\ actions' \in Seq(Item) /\ batch' \in Seq(Item)
    <3>1. CASE handled
      BY <1>1, <3>1 DEF GetAction, TypeInv, QueueInv
    <3>2. CASE ~handled /\ Drained(WokenActions, arg) = <<>>
      BY <1>0, <1>1, <3>2 DEF GetAction, TypeInv, QueueInv
    <3>3. CASE ~handled /\ Drained(WokenActions, arg) # <<>>
      <4>1. /\ batch' = <<Head(Drained(WokenActions, arg))>>
            /\ actions' = Popped(WokenActions, arg) /\ notifys' = WokenNotifys
        BY <1>1, <3>3 DEF GetAction
      <4>2. arg \in Phase
        BY <1>1 DEF GetAction, PlaceInv
      <4>3. Head(Drained(WokenActions, arg)) \in Item /\ Popped(WokenActions, arg) \in Seq(Item)
        BY <1>0, <3>3, <4>2, TakeItem
      <4> QED
        BY <1>0, <4>1, <4>3
    <3> QED
      BY <3>1, <3>2, <3>3
  <2>2. QueueInv'
    BY <1>1, <2>1 DEF GetAction, TypeInv, QueueInv
  <2>3. FlatInv'
    <3>1. \/ UNCHANGED <<at, back, fn, arg, handled>>
          \/ Finish /\ UNCHANGED back
          \/ /\ at' \in {"actions", "unbind", "discard"} /\ back' \in {back, "react", "discard"}
             /\ handled' \in BOOLEAN /\ UNCHANGED <<fn, arg>>
      BY <1>1 DEF GetAction, Idle
    <3>2. /\ at' \in {"user", "actions", "unbind", "notify", "react", "discard"}
          /\ back' \in {"user", "actions", "react", "discard"}
          /\ fn' \in Dispatcher \cup {None} /\ arg' \in Phase \cup {All} /\ handled' \in BOOLEAN
      BY <3>1 DEF Finish, TypeInv, FlatInv
    <3> QED
      BY <1>1, <3>2 DEF GetAction, TypeInv, FlatInv
  <2> QED
    BY <2>2, <2>3 DEF TypeInv
<1>2. CASE GetActions
  <2>1. QueueInv'
    BY <1>0, <1>2, TakeItems DEF GetActions, TypeInv, QueueInv
  <2>2. FlatInv'
    <3>1. \/ UNCHANGED <<at, back, fn, arg, handled>>
          \/ Finish /\ UNCHANGED back
          \/ /\ at' \in {"actions", "unbind", "discard"} /\ back' \in {back, "react", "discard"}
             /\ handled' \in BOOLEAN /\ UNCHANGED <<fn, arg>>
      BY <1>2 DEF GetActions, Idle
    <3>2. /\ at' \in {"user", "actions", "unbind", "notify", "react", "discard"}
          /\ back' \in {"user", "actions", "react", "discard"}
          /\ fn' \in Dispatcher \cup {None} /\ arg' \in Phase \cup {All} /\ handled' \in BOOLEAN
      BY <3>1 DEF Finish, TypeInv, FlatInv
    <3> QED
      BY <1>2, <3>2 DEF GetActions, TypeInv, FlatInv
  <2> QED
    BY <2>1, <2>2 DEF TypeInv
<1>3. CASE CallAction
  <2>1. batch # <<>> /\ batch' = Tail(batch)
    BY <1>3 DEF CallAction
  <2>2. Tail(batch) \in Seq(Item) /\ Head(batch) \in Item
    BY <2>1, HeadElements DEF TypeInv, QueueInv
  <2>3. QueueInv'
    BY <1>3, <2>1, <2>2 DEF CallAction, TypeInv, QueueInv
  <2>4. \A t \in Task : ActionItem(PhaseOf[t], "poll", t) \in Item
    BY NewItems DEF Waiter
  <2>5. \/ code' = Head(batch) /\ UNCHANGED <<tasks, woken>>
        \/ \E t \in Task : /\ tasks' = tasks \/ tasks' = tasks \cup {t}
                           /\ Poll(t) \/ UNCHANGED <<code, woken>>
    BY <1>3 DEF CallAction
  <2>6. code' \in Item \cup {None} /\ woken' \in [Waiter -> BOOLEAN] /\ tasks' \in SUBSET Task
    BY <2>2, <2>4, <2>5 DEF Poll, TypeInv, FlatInv
  <2>7. FlatInv'
    BY <1>3, <2>6 DEF CallAction, TypeInv, FlatInv
  <2> QED
    BY <2>3, <2>7 DEF TypeInv
<1>4. CASE CodeReturns
  <2> DEFINE gone == {e \in Effect : code.of = e}
  <2>1. DropNodes(gone) /\ gone \in SUBSET Waiter
    BY <1>4 DEF CodeReturns, Waiter
  <2> HIDE DEF gone
  <2>2. fut' \in [Effect -> BOOLEAN] /\ unbinds' \in SUBSET Effect
    BY <2>1, DropTypes DEF TypeInv
  <2> QED
    BY <1>4, <2>2 DEF CodeReturns, TypeInv, QueueInv, FlatInv
<1>5. ASSUME NEW t \in Task, TaskPolled(t)
      PROVE  TypeInv'
  BY <1>5 DEF TaskPolled, TypeInv, QueueInv, FlatInv
<1>6. ASSUME NEW e \in Effect, Unbind(e)
      PROVE  TypeInv'
  BY <1>6, RuntimeAssumption DEF Unbind, TypeInv, QueueInv, FlatInv
<1>7. ASSUME NEW e \in Effect, EffectPolled(e)
      PROVE  TypeInv'
  <2>1. QueueInv'
    BY <1>7 DEF EffectPolled, TypeInv, QueueInv
  <2>2. bound' \in [Effect -> BOOLEAN] /\ fut' \in [Effect -> BOOLEAN]
    BY <1>7 DEF EffectPolled, TypeInv, FlatInv
  <2>3. FlatInv'
    BY <1>7, <2>2 DEF EffectPolled, TypeInv, FlatInv
  <2> QED
    BY <2>1, <2>3 DEF TypeInv
<1>8. CASE UnbindsDone \/ PhasePanic
  BY <1>8 DEF UnbindsDone, PhasePanic, TypeInv, QueueInv, FlatInv
<1>9. CASE CallNotify
  <2>1. nbatch # <<>> /\ nbatch' = Tail(nbatch) /\ Notified(Head(nbatch).of, Head(nbatch).slot)
    BY <1>9 DEF CallNotify
  <2>2. Tail(nbatch) \in Seq(Notify) /\ Head(nbatch) \in Notify
    BY <2>1, HeadElements DEF TypeInv, QueueInv
  <2>3. Head(nbatch).of \in Effect /\ Head(nbatch).slot \in {"wake", "deps"}
    BY <2>2 DEF Notify
  <2>4. /\ reactions' \in Seq(ReactionItem)
        /\ dirty' \in [Effect -> BOOLEAN] /\ isWake' \in [Effect -> BOOLEAN]
        /\ needWake' \in BOOLEAN /\ waker' \in BOOLEAN
        /\ wait' \in {"none", "poll", "parked", "ready"}
    BY <2>1, <2>3, NotifiedTypes
  <2> QED
    BY <1>9, <2>1, <2>2, <2>4 DEF CallNotify, TypeInv, QueueInv, FlatInv
<1>10. CASE GetNotifys
  <2>1. QueueInv'
    <3>1. reactions' \in Seq(ReactionItem) /\ batch' \in Seq(Item)
      <4>1. /\ Drained(reactions, arg) \in Seq(ReactionItem)
            /\ Remaining(reactions, arg) \in Seq(ReactionItem)
        BY <1>0, TakeReactions DEF TypeInv, QueueInv
      <4>2. Drained(reactions, arg) \in Seq(Item)
        BY <4>1, ItemPhases
      <4> QED
        BY <1>10, <4>1, <4>2 DEF GetNotifys, TypeInv, QueueInv
    <3> QED
      BY <1>0, <1>10, <3>1 DEF GetNotifys, TypeInv, QueueInv
  <2>2. FlatInv'
    <3>1. handled' \in BOOLEAN
      BY <1>10 DEF GetNotifys, TypeInv, FlatInv
    <3>2. discards' \in 0 .. MaxDiscards
      BY <1>10, RuntimeAssumption DEF GetNotifys, TypeInv, FlatInv
    <3>3. at' \in {"user", "actions", "unbind", "notify", "react", "discard"}
          /\ back' \in {"user", "actions", "react", "discard"}
      BY <1>10 DEF GetNotifys, TypeInv, FlatInv
    <3> QED
      BY <1>10, <3>1, <3>2, <3>3 DEF GetNotifys, TypeInv, FlatInv
  <2> QED
    BY <2>1, <2>2 DEF TypeInv
<1>11. CASE RunReaction
  <2>1. batch # <<>> /\ batch' = Tail(batch)
    BY <1>11 DEF RunReaction
  <2>2. Tail(batch) \in Seq(Item)
    BY <2>1, HeadElements DEF TypeInv, QueueInv
  <2>3. QueueInv'
    BY <1>11, <2>1, <2>2 DEF RunReaction, TypeInv, QueueInv
  <2>4. PICK e \in Effect :
            \/ UNCHANGED <<effects, code, woken>>
            \/ /\ dirty' = [dirty EXCEPT ![e] = FALSE]
               /\ fut' = [fut EXCEPT ![e] = @ \/ dirty[e]]
               /\ bound' = [bound EXCEPT ![e] = @ /\ ~dirty[e]]
               /\ isWake' = [isWake EXCEPT ![e] = @ /\ ~fut'[e]]
               /\ Poll(e) \/ UNCHANGED <<code, woken>>
    BY <1>11 DEF RunReaction
  <2>5. ActionItem(PhaseOf[e], "poll", e) \in Item
    BY NewItems DEF Waiter
  <2>6. code' \in Item \cup {None} /\ woken' \in [Waiter -> BOOLEAN]
    BY <2>4, <2>5 DEF Poll, TypeInv, FlatInv
  <2>7. /\ dirty' \in [Effect -> BOOLEAN] /\ fut' \in [Effect -> BOOLEAN]
        /\ bound' \in [Effect -> BOOLEAN] /\ isWake' \in [Effect -> BOOLEAN]
    BY <2>4 DEF TypeInv, FlatInv
  <2>8. FlatInv'
    BY <1>11, <2>6, <2>7 DEF RunReaction, TypeInv, FlatInv
  <2> QED
    BY <2>3, <2>8 DEF TypeInv
<1>12. CASE ReactionsDone
  <2>1. QueueInv'
    BY <1>12 DEF ReactionsDone, TypeInv, QueueInv
  <2>2. FlatInv'
    <3>1. \/ UNCHANGED <<at, back, fn, arg, handled>>
          \/ Finish /\ UNCHANGED back
          \/ /\ at' \in {"actions", "unbind", "discard"} /\ back' \in {back, "react", "discard"}
             /\ handled' \in BOOLEAN /\ UNCHANGED <<fn, arg>>
      BY <1>12 DEF ReactionsDone
    <3>2. /\ at' \in {"user", "actions", "unbind", "notify", "react", "discard"}
          /\ back' \in {"user", "actions", "react", "discard"}
          /\ fn' \in Dispatcher \cup {None} /\ arg' \in Phase \cup {All} /\ handled' \in BOOLEAN
      BY <3>1 DEF Finish, TypeInv, FlatInv
    <3> QED
      BY <1>12, <3>2 DEF ReactionsDone, TypeInv, FlatInv
  <2> QED
    BY <2>1, <2>2 DEF TypeInv
<1>13. CASE RunDiscard
  BY <1>13, RuntimeAssumption DEF RunDiscard, TypeInv, QueueInv, FlatInv
<1>14. CASE DiscardsDone
  <2>1. QueueInv'
    BY <1>14 DEF DiscardsDone, TypeInv, QueueInv
  <2>2. FlatInv'
    <3>1. \/ UNCHANGED <<at, back, fn, arg, handled>>
          \/ Finish /\ UNCHANGED back
          \/ /\ at' \in {"actions", "unbind", "discard"} /\ back' \in {back, "react", "discard"}
             /\ handled' \in BOOLEAN /\ UNCHANGED <<fn, arg>>
      BY <1>14 DEF DiscardsDone, DiscardsReturn
    <3>2. /\ at' \in {"user", "actions", "unbind", "notify", "react", "discard"}
          /\ back' \in {"user", "actions", "react", "discard"}
          /\ fn' \in Dispatcher \cup {None} /\ arg' \in Phase \cup {All} /\ handled' \in BOOLEAN
      BY <3>1 DEF Finish, TypeInv, FlatInv
    <3> QED
      BY <1>14, <3>2 DEF DiscardsDone, TypeInv, FlatInv
  <2> QED
    BY <2>1, <2>2 DEF TypeInv
<1> QED
  BY <1>1, <1>2, <1>3, <1>4, <1>5, <1>6, <1>7, <1>8, <1>9, <1>10, <1>11, <1>12, <1>13, <1>14
  DEF Internal

\* The types after what other threads and the executor do.
LEMMA OtherTypes ==
    ASSUME TypeInv, Threads \/ PollWait \/ UNCHANGED vars
    PROVE  TypeInv'
<1> USE DEF queues, wakers, requests, data, arcs, effects, place, history
<1>1. ASSUME NEW e \in Waiter, Wake(e)
      PROVE  TypeInv'
  <2>1. TakeWaker /\ UNCHANGED needWake /\ woken' = [woken EXCEPT ![e] = Awaiting(e)]
    BY <1>1 DEF Wake
  <2>2. Awaiting(e) \in BOOLEAN
    BY DEF Awaiting
  <2>3. woken' \in [Waiter -> BOOLEAN]
    BY <2>1, <2>2 DEF TypeInv, FlatInv
  <2> QED
    BY <1>1, <2>1, <2>3, WakerTypes DEF Wake, TypeInv, QueueInv, FlatInv
<1>2. ASSUME NEW e \in Waiter, Fire(e) \/ Release(e) \/ Forget(e)
      PROVE  TypeInv'
  <2>1. QueueInv'
    BY <1>2 DEF Fire, Release, Forget, TypeInv, QueueInv
  <2>2. ready' \in [Waiter -> BOOLEAN]
    BY <1>2 DEF Fire, Release, Forget, TypeInv, FlatInv
  <2>3. FlatInv'
    BY <1>2, <2>2 DEF Fire, Release, Forget, TypeInv, FlatInv
  <2> QED
    BY <2>1, <2>3 DEF TypeInv
<1>3. CASE PollWait
  <2>1. QueueInv'
    BY <1>3 DEF PollWait, TypeInv, QueueInv
  <2>2. FlatInv'
    BY <1>3 DEF PollWait, TypeInv, FlatInv
  <2> QED
    BY <2>1, <2>2 DEF TypeInv
<1>4. CASE UNCHANGED vars
  BY <1>4 DEF vars, TypeInv, QueueInv, FlatInv
<1> QED
  BY <1>1, <1>2, <1>3, <1>4 DEF Threads

-----------------------------------------------------------------------------
(* Places, waits. *)

\* Calls return to where they came from, and no batch outlives its dispatch.
LEMMA PlaceStep ==
    ASSUME TypeInv, PlaceInv, [Next]_vars
    PROVE  PlaceInv'
<1> USE DEF queues, wakers, requests, data, arcs, effects, place, history, PlaceInv
<1>0. None \notin {"action", "flush"}
  BY RuntimeAssumption DEF Dispatcher
<1>1. ASSUME NEW f \in Dispatcher, NEW p \in Phase \cup {All}, Dispatch(f, p)
      PROVE  PlaceInv'
  <2>1. f = "action" => p \in Phase
    BY <1>1, RuntimeAssumption DEF Dispatch
  <2>2. f = "flush" => p = All
    BY <1>1 DEF Dispatch
  <2>3. EntryOf(f) \in {"actions", "unbind", "discard"}
    BY DEF EntryOf, Dispatcher
  <2> QED
    BY <1>1, <2>1, <2>2, <2>3 DEF Dispatch
<1>2. CASE OpenContext
  BY <1>2 DEF OpenContext, HasContext
<1>3. CASE DropRuntime
  BY <1>3 DEF DropRuntime
<1>4. ASSUME NEW c \in Config, NewRuntime(c)
      PROVE  PlaceInv'
  BY <1>4 DEF NewRuntime, UserCode
<1>5. ASSUME NEW e \in Effect, Unsubscribe(e)
      PROVE  PlaceInv'
  BY <1>5 DEF Unsubscribe, UserCode
<1>6. CASE Lend \/ Unlend \/ EnterCall \/ LeaveCall
  BY <1>6 DEF Lend, Unlend, EnterCall, LeaveCall
<1>7. CASE GetAction
  BY <1>0, <1>7 DEF GetAction, Idle, Finish
<1>8. CASE GetActions
  BY <1>0, <1>8 DEF GetActions, Idle, Finish
<1>9. CASE CallAction \/ RunReaction
  BY <1>9 DEF CallAction, RunReaction
<1>10. CASE CodeReturns
  BY <1>10 DEF CodeReturns
<1>11. ASSUME NEW e \in Effect, Unbind(e)
       PROVE  PlaceInv'
  BY <1>11 DEF Unbind
<1>12. CASE UnbindsDone
  BY <1>12 DEF UnbindsDone, TypeInv, FlatInv
<1>13. CASE GetNotifys
  BY <1>13 DEF GetNotifys, TypeInv, FlatInv
<1>14. CASE ReactionsDone
  BY <1>0, <1>14 DEF ReactionsDone, Idle, Finish
<1>15. CASE RunDiscard
  BY <1>15 DEF RunDiscard
<1>16. CASE DiscardsDone
  BY <1>0, <1>16 DEF DiscardsDone, DiscardsReturn, Finish
<1>17. CASE UNCHANGED <<at, back, fn, arg, batch, unbinds, config, raw>>
  BY <1>17
<1> QED
  BY <1>1, <1>2, <1>3, <1>4, <1>5, <1>6, <1>7, <1>8, <1>9, <1>10, <1>11, <1>12, <1>13, <1>14,
     <1>15, <1>16, <1>17
  DEF Next, UserStep, Internal, Threads, Halted, vars, SpawnAction, SpawnAsync, Subscribe,
      LooseNotify, SetState, TaskPolled, EffectPolled, CallNotify, PhasePanic, PollWait, Fire,
      Wake, Release, Forget

\* Whoever pushes to an empty queue takes the waker.
LEMMA ParkedStep ==
    ASSUME TableInv, TypeInv, ParkedInv, [Next]_vars
    PROVE  ParkedInv'
<1> USE DEF queues, wakers, requests, data, arcs, effects, place, history, ParkedInv
<1>1. ASSUME GlobalsWake \/ TakeWaker
      PROVE  ParkedInv'
  BY <1>1 DEF GlobalsWake, TakeWaker
<1>2. ASSUME ApplyWake, notifys' \in {WokenNotifys, <<>>}, UNCHANGED wakers,
             WokenActions = <<>> => actions' = <<>>, reactions = <<>> => reactions' = <<>>
      PROVE  ParkedInv'
  <2>1. wakes = <<>> => WokenActions = actions /\ WokenNotifys = notifys
    BY WokenOf DEF TypeInv, QueueInv
  <2> QED
    BY <1>2, <2>1 DEF ApplyWake
<1>3. ASSUME UNCHANGED wakers, UNCHANGED <<actions, reactions, notifys, wakes>>
      PROVE  ParkedInv'
  BY <1>3
<1>4. Drained(<<>>, arg) = <<>> /\ Remaining(<<>>, arg) = <<>>
  <2>1. OfPhase(<<>>, arg) = <<>> /\ Below(<<>>, arg) = <<>> /\ Above(<<>>, arg) = <<>>
    BY KeptEmpty DEF OfPhase, Below, Above
  <2> QED
    BY <2>1 DEF Drained, Remaining
<1>5. CASE GetAction
  BY <1>2, <1>3, <1>4, <1>5 DEF GetAction
<1>6. CASE GetActions
  BY <1>2, <1>4, <1>6 DEF GetActions
<1>7. CASE GetNotifys
  BY <1>2, <1>4, <1>7 DEF GetNotifys
<1>8. CASE PollWait \/ Lend \/ Unlend
  BY <1>8 DEF PollWait, Lend, Unlend, NothingToDo
<1>9. CASE DropRuntime
  BY <1>9 DEF DropRuntime
<1>10. ASSUME NEW e \in Waiter, Wake(e)
       PROVE  ParkedInv'
  BY <1>1, <1>10 DEF Wake
<1>11. CASE CallNotify
  BY <1>1, <1>3, <1>11 DEF CallNotify, Notified
<1>12. ASSUME NEW e \in Effect, SetState(e)
       PROVE  ParkedInv'
  BY <1>1, <1>3, <1>12 DEF SetState, Notified
<1>13. CASE \/ \E p \in Phase, e \in Effect \cup {None} : SpawnAction(p, e)
            \/ \E t \in Task : SpawnAsync(t)
            \/ \E e \in Effect : Subscribe(e) \/ LooseNotify(e)
  BY <1>1, <1>13 DEF SpawnAction, SpawnAsync, Subscribe, LooseNotify
<1>14. CASE \/ \E e \in Effect : Unsubscribe(e)
            \/ \E c \in Config : NewRuntime(c)
            \/ \E f \in Dispatcher, p \in Phase \cup {All} : Dispatch(f, p)
            \/ OpenContext \/ EnterCall \/ LeaveCall
  BY <1>3, <1>14
  DEF Unsubscribe, DropNodes, NewRuntime, Dispatch, OpenContext, EnterCall, LeaveCall
<1>15. CASE CallAction
  <2>1. wakes' = wakes
    BY <1>15 DEF CallAction, InsertWaker
  <2> QED
    BY <1>3, <1>15, <2>1 DEF CallAction
<1>16. CASE \/ CodeReturns \/ \E t \in Task : TaskPolled(t)
            \/ \E e \in Effect : Unbind(e) \/ EffectPolled(e)
            \/ UnbindsDone \/ PhasePanic \/ RunReaction \/ ReactionsDone \/ RunDiscard
            \/ DiscardsDone
  BY <1>3, <1>16
  DEF CodeReturns, DropNodes, TaskPolled, Unbind, EffectPolled, UnbindsDone, PhasePanic,
      RunReaction, ReactionsDone, RunDiscard, DiscardsDone
<1>17. CASE UNCHANGED vars \/ \E e \in Waiter : Fire(e) \/ Release(e) \/ Forget(e)
  BY <1>3, <1>17 DEF vars, Fire, Release, Forget
<1> QED
  BY <1>5, <1>6, <1>7, <1>8, <1>9, <1>10, <1>11, <1>12, <1>13, <1>14, <1>15, <1>16, <1>17
  DEF Next, UserStep, Internal, Threads, Halted

-----------------------------------------------------------------------------
(* Wakes that are not lost. *)

Misses(e) == woken[e] /\ Awaiting(e)

\* What a step must not do to PendingInv.
LEMMA PendingKept ==
    ASSUME PendingInv,
           runtimes \in Nat, runtimes' \in Nat, runtimes' >= runtimes,
           runtimes' = 0 => raw' = "none",
           \A e \in Effect : fut'[e] => fut[e] /\ life'[e] = "live",
           \A e \in Waiter : Misses(e)' => Misses(e),
           \A e \in Waiter : Misses(e)' /\ key[e] \in ToSet(wakes) =>
               \/ key'[e] \in ToSet(wakes')
               \/ e \in Task /\ NextPending(e)'
               \/ e \in Effect /\ NotifyPending(e)',
           \A e \in Task : Misses(e)' /\ NextPending(e) => NextPending(e)',
           \A e \in Effect : Misses(e)' /\ NotifyPending(e) =>
               NotifyPending(e)' \/ (isWake'[e] /\ (Scheduled(e)' \/ Orphaned')),
           \A e \in Effect : fut'[e] /\ isWake'[e] =>
               \/ isWake[e] /\ (Scheduled(e) \/ Orphaned => Scheduled(e)' \/ Orphaned')
               \/ Scheduled(e)' \/ Orphaned',
           \A e \in Effect : Misses(e)' /\ isWake[e] => isWake'[e]
    PROVE  PendingInv'
<1> USE DEF PendingInv
<1>1. \A e \in Effect : fut'[e] => life'[e] = "live" /\ runtimes' > 0
  <2>1. ASSUME NEW e \in Effect, fut'[e]
        PROVE  life'[e] = "live" /\ runtimes' > 0
    <3>1. fut[e] /\ life'[e] = "live" /\ runtimes > 0
      BY <2>1
    <3> QED
      BY <3>1
  <2> QED
    BY <2>1
<1>2. \A e \in Effect : fut'[e] /\ isWake'[e] => Scheduled(e)' \/ Orphaned'
  <2>1. ASSUME NEW e \in Effect, fut'[e], isWake'[e]
        PROVE  Scheduled(e)' \/ Orphaned'
    <3>1. fut[e]
      BY <2>1
    <3>2. isWake[e] => Scheduled(e) \/ Orphaned
      BY <3>1
    <3> QED
      BY <2>1, <3>2
  <2> QED
    BY <2>1
<1>3. ASSUME NEW e \in Waiter, woken'[e], Awaiting(e)'
      PROVE  \/ key'[e] \in ToSet(wakes')
             \/ e \in Task /\ NextPending(e)'
             \/ e \in Effect /\ NotifyPending(e)'
             \/ e \in Effect /\ isWake'[e] /\ (Scheduled(e)' \/ Orphaned')
  <2>1. Misses(e)'
    BY <1>3 DEF Misses
  <2>2. Misses(e)
    BY <2>1
  <2>3. woken[e] /\ Awaiting(e)
    BY <2>2 DEF Misses
  <2>4. CASE key[e] \in ToSet(wakes)
    BY <2>1, <2>4
  <2>5. CASE e \in Task /\ NextPending(e)
    BY <2>1, <2>5
  <2>6. CASE e \in Effect /\ NotifyPending(e)
    BY <2>1, <2>6
  <2>7. CASE e \in Effect /\ isWake[e]
    <3>1. isWake'[e]
      BY <2>1, <2>7
    <3>2. fut'[e]
      BY <1>3, <2>7 DEF Awaiting
    <3> QED
      BY <1>2, <2>7, <3>1, <3>2
  <2> QED
    BY <2>3, <2>4, <2>5, <2>6, <2>7
<1> QED
  BY <1>1, <1>2, <1>3

\* Steps that end nothing and take nothing out of a queue.
LEMMA PendingGrows ==
    ASSUME PendingInv, runtimes \in Nat, UNCHANGED <<fut, isWake, woken, runtimes>>,
           raw = "none" => raw' = "none",
           \A e \in Waiter : Awaiting(e)' => Awaiting(e) /\ key'[e] = key[e],
           \A e \in Effect : fut[e] => life'[e] = "live",
           ToSet(wakes) \subseteq ToSet(wakes'),
           ToSet(actions) \cup ToSet(batch) \subseteq ToSet(actions') \cup ToSet(batch'),
           ToSet(reactions) \cup ToSet(batch) \subseteq ToSet(reactions') \cup ToSet(batch'),
           ToSet(notifys) \cup ToSet(nbatch) \subseteq ToSet(notifys') \cup ToSet(nbatch')
    PROVE  PendingInv'
<1>1. \A e \in Waiter : Misses(e)' => Misses(e) /\ key'[e] = key[e]
  BY DEF Misses
<1>2. \A e \in Waiter : NextPending(e) => NextPending(e)'
  BY DEF NextPending
<1>3. \A e \in Effect : NotifyPending(e) => NotifyPending(e)'
  BY DEF NotifyPending
<1>4. \A e \in Effect : Scheduled(e) => Scheduled(e)'
  BY DEF Scheduled, Reaction, ActionItem
<1>5. Orphaned => Orphaned'
  BY DEF Orphaned
<1>6. runtimes' >= runtimes /\ (runtimes' = 0 => raw' = "none")
  BY DEF PendingInv
<1>7. \A e \in Waiter : Misses(e)' /\ key[e] \in ToSet(wakes) => key'[e] \in ToSet(wakes')
  BY <1>1
<1>8. \A e \in Effect : fut'[e] => fut[e] /\ life'[e] = "live"
  OBVIOUS
<1>9. \A e \in Effect : fut'[e] /\ isWake'[e] =>
          isWake[e] /\ (Scheduled(e) \/ Orphaned => Scheduled(e)' \/ Orphaned')
  BY <1>4, <1>5
<1>10. \A e \in Task : Misses(e)' /\ NextPending(e) => NextPending(e)'
  BY <1>2 DEF Waiter
<1>11. \A e \in Effect : Misses(e)' /\ isWake[e] => isWake'[e]
  OBVIOUS
<1>12. runtimes' \in Nat
  OBVIOUS
<1>13. \A e \in Waiter : Misses(e)' => Misses(e)
  BY <1>1
<1> QED
  BY <1>3, <1>6, <1>7, <1>8, <1>9, <1>10, <1>11, <1>12, <1>13, PendingKept, Zenon

\* Nodes that are freed miss nothing.
LEMMA PendingDrops ==
    ASSUME TableInv, TypeInv, PendingInv, NEW gone \in SUBSET Waiter, DropNodes(gone),
           UNCHANGED <<key, wakes, actions, batch, reactions, notifys, nbatch, isWake, woken,
                       runtimes, raw>>
    PROVE  PendingInv'
<1>1. \A e \in Waiter : life'[e] = IF e \in gone THEN "done" ELSE life[e]
  BY DEF DropNodes
<1>2. \A e \in Effect : fut'[e] = (fut[e] /\ e \notin gone)
  BY DEF DropNodes
<1>3. Effect \subseteq Waiter /\ Task \subseteq Waiter /\ runtimes \in Nat /\ runtimes' = runtimes
  BY RuntimeAssumption DEF Waiter, TypeInv, FlatInv
<1>4. \A e \in Waiter : Misses(e)' => Misses(e)
  BY <1>1, <1>2, <1>3 DEF Misses, Awaiting
<1>5. \A e \in Effect : fut'[e] => fut[e] /\ life'[e] = "live"
  BY <1>1, <1>2, <1>3 DEF PendingInv
<1>6. \A e \in Waiter : /\ NextPending(e)' = NextPending(e)
                        /\ NotifyPending(e)' = NotifyPending(e)
                        /\ Scheduled(e)' = Scheduled(e)
  BY DEF NextPending, NotifyPending, Scheduled, Reaction, ActionItem
<1>7. Orphaned' = Orphaned
  BY DEF Orphaned
<1>8. runtimes' >= runtimes /\ (runtimes' = 0 => raw' = "none")
  BY <1>3 DEF PendingInv
<1>9. \A e \in Waiter : key[e] \in ToSet(wakes) => key'[e] \in ToSet(wakes')
  OBVIOUS
<1>10. isWake' = isWake
  OBVIOUS
<1> QED
  BY <1>3, <1>4, <1>5, <1>6, <1>7, <1>8, <1>9, <1>10, PendingKept

\* apply_wake turns the wake of each live waiter into what the waiter's dispatch looks at.
LEMMA PendingApply ==
    ASSUME TableInv, TypeInv, PendingInv, ApplyWake,
           UNCHANGED <<life, fut, isWake, woken, runtimes, raw>>,
           ToSet(WokenActions) \cup ToSet(batch) \subseteq ToSet(actions') \cup ToSet(batch'),
           ToSet(reactions) \cup ToSet(batch) \subseteq ToSet(reactions') \cup ToSet(batch'),
           ToSet(WokenNotifys) \cup ToSet(nbatch) \subseteq ToSet(notifys') \cup ToSet(nbatch')
    PROVE  PendingInv'
<1>1. /\ ToSet(actions) \subseteq ToSet(WokenActions)
      /\ ToSet(notifys) \subseteq ToSet(WokenNotifys)
      /\ \A k \in ToSet(wakes), e \in Waiter : Swept[k] = e =>
             /\ e \in Task => NextItem(e) \in ToSet(WokenActions)
             /\ e \in Effect => [of |-> e, slot |-> "wake"] \in ToSet(WokenNotifys)
  BY WokenOf DEF TypeInv, QueueInv
<1>2. \A e \in Waiter : NextPending(e) => NextPending(e)'
  BY <1>1 DEF NextPending
<1>3. \A e \in Effect : NotifyPending(e) => NotifyPending(e)'
  BY <1>1 DEF NotifyPending
<1>4. \A e \in Effect : Scheduled(e) => Scheduled(e)'
  BY DEF Scheduled, Reaction, ActionItem
<1>5. Orphaned' = Orphaned
  BY DEF Orphaned
<1>6. \A e \in Waiter : Misses(e)' = Misses(e)
  BY DEF Misses, Awaiting
<1>7. ASSUME NEW e \in Waiter, Misses(e), key[e] \in ToSet(wakes)
      PROVE  \/ e \in Task /\ NextPending(e)'
             \/ e \in Effect /\ NotifyPending(e)'
  <2>1. key[e] \in Key \ drops /\ table[key[e]] = e
    BY <1>7 DEF Misses, Awaiting, TableInv, KeysAgree
  <2>2. Swept[key[e]] = e
    BY <2>1 DEF Swept
  <2>3. CASE e \in Task
    <3>1. NextItem(e) \in ToSet(WokenActions)
      BY <1>1, <1>7, <2>2, <2>3
    <3>2. NextItem(e).do = "next" /\ NextItem(e).of = e
      BY DEF NextItem, ActionItem
    <3> QED
      BY <2>3, <3>1, <3>2 DEF NextPending
  <2>4. CASE e \in Effect
    <3>1. [of |-> e, slot |-> "wake"] \in ToSet(WokenNotifys)
      BY <1>1, <1>7, <2>2, <2>4
    <3> QED
      BY <2>4, <3>1 DEF NotifyPending
  <2> QED
    BY <2>3, <2>4 DEF Waiter
<1>8. runtimes \in Nat /\ runtimes' = runtimes /\ runtimes' >= runtimes
      /\ (runtimes' = 0 => raw' = "none")
  BY RuntimeAssumption DEF TypeInv, FlatInv, PendingInv
<1>9. \A e \in Effect : fut'[e] => fut[e] /\ life'[e] = "live"
  BY DEF PendingInv
<1>10. isWake' = isWake /\ Task \subseteq Waiter
  BY DEF Waiter
<1> QED
  BY <1>2, <1>3, <1>4, <1>5, <1>6, <1>7, <1>8, <1>9, <1>10, PendingKept

\* Users take no wake away but from waiters they end.
LEMMA UserPending ==
    ASSUME TableInv, TaskInv, TypeInv, PendingInv, UserStep
    PROVE  PendingInv'
<1> USE DEF queues, wakers, requests, data, arcs, effects, place, history
<1>0. /\ Effect \subseteq Waiter /\ Task \subseteq Waiter /\ Task \cap Effect = {}
      /\ runtimes \in Nat /\ life \in [Waiter -> {"new", "spawned", "live", "done"}]
  BY RuntimeAssumption DEF Waiter, TypeInv, FlatInv, TableInv
<1>1. ASSUME NEW p \in Phase, NEW e \in Effect \cup {None}, SpawnAction(p, e)
      PROVE  PendingInv'
  <2>1. ToSet(actions) \subseteq ToSet(actions')
    <3>1. ActionItem(p, "code", e) \in Item
      BY NewItems
    <3> QED
      BY <1>1, <3>1, PushItem DEF SpawnAction, TypeInv, QueueInv
  <2>2. \A x \in Waiter : Awaiting(x)' => Awaiting(x) /\ key'[x] = key[x]
    BY <1>1 DEF SpawnAction, Awaiting
  <2>3. \A x \in Effect : fut[x] => life'[x] = "live"
    BY <1>1 DEF SpawnAction, PendingInv
  <2>4. UNCHANGED <<fut, isWake, woken, runtimes, raw, wakes, batch, reactions, notifys, nbatch>>
    BY <1>1 DEF SpawnAction
  <2> QED
    BY <1>0, <2>1, <2>2, <2>3, <2>4, PendingGrows
<1>2. ASSUME NEW t \in Task, SpawnAsync(t)
      PROVE  PendingInv'
  <2>1. ToSet(actions) \subseteq ToSet(actions')
    <3>1. ActionItem(PhaseOf[t], "start", t) \in Item
      BY NewItems DEF Waiter
    <3> QED
      BY <1>2, <3>1, PushItem DEF SpawnAsync, TypeInv, QueueInv
  <2>2. \A x \in Waiter : life'[x] = IF x = t THEN "spawned" ELSE life[x]
    BY <1>0, <1>2 DEF SpawnAsync
  <2>3. \A x \in Waiter : Awaiting(x)' => Awaiting(x) /\ key'[x] = key[x]
    BY <1>2, <2>2 DEF SpawnAsync, Awaiting
  <2>4. \A x \in Effect : fut[x] => life'[x] = "live"
    BY <1>0, <2>2 DEF PendingInv
  <2>5. UNCHANGED <<fut, isWake, woken, runtimes, raw, wakes, batch, reactions, notifys, nbatch>>
    BY <1>2 DEF SpawnAsync
  <2> QED
    BY <1>0, <2>1, <2>3, <2>4, <2>5, PendingGrows
<1>3. ASSUME NEW e \in Effect, Subscribe(e)
      PROVE  PendingInv'
  <2>1. ToSet(reactions) \subseteq ToSet(reactions')
    <3>1. Reaction(e) \in ReactionItem
      BY NewItems
    <3> QED
      BY <1>3, <3>1, PushReaction DEF Subscribe, TypeInv, QueueInv
  <2>2. \A x \in Waiter : life'[x] = IF x = e THEN "live" ELSE life[x]
    BY <1>0, <1>3 DEF Subscribe
  <2>3. \A x \in Waiter \ {e} : key'[x] = key[x]
    BY <1>3 DEF Subscribe, InsertWaker, TableInv
  <2>4. ~fut[e] /\ fut' = fut
    BY <1>3 DEF Subscribe, PendingInv
  <2>5. \A x \in Waiter : Awaiting(x)' => Awaiting(x) /\ key'[x] = key[x]
    BY <2>2, <2>3, <2>4 DEF Awaiting
  <2>6. \A x \in Effect : fut[x] => life'[x] = "live"
    BY <1>0, <2>2 DEF PendingInv
  <2>7. UNCHANGED <<fut, isWake, woken, runtimes, raw, wakes, actions, batch, notifys, nbatch>>
    BY <1>3 DEF Subscribe, InsertWaker
  <2> QED
    BY <1>0, <2>1, <2>5, <2>6, <2>7, PendingGrows
<1>4. ASSUME NEW e \in Effect, Unsubscribe(e)
      PROVE  PendingInv'
  <2>1. DropNodes({e}) /\ {e} \in SUBSET Waiter
    BY <1>4 DEF Unsubscribe, Waiter
  <2> QED
    BY <1>4, <2>1, PendingDrops DEF Unsubscribe
<1>5. ASSUME NEW e \in Effect, LooseNotify(e)
      PROVE  PendingInv'
  <2>1. ToSet(notifys) \subseteq ToSet(notifys')
    <3>1. notifys \in Seq(Notify) /\ [of |-> e, slot |-> "deps"] \in Notify
      BY DEF Notify, TypeInv, QueueInv
    <3> QED
      BY <1>5, <3>1, AppendElements DEF LooseNotify
  <2>2. \A x \in Waiter : Awaiting(x)' => Awaiting(x) /\ key'[x] = key[x]
    BY <1>5 DEF LooseNotify, Awaiting
  <2>3. \A x \in Effect : fut[x] => life'[x] = "live"
    BY <1>5 DEF LooseNotify, PendingInv
  <2>4. UNCHANGED <<fut, isWake, woken, runtimes, raw, wakes, actions, batch, reactions, nbatch>>
    BY <1>5 DEF LooseNotify
  <2> QED
    BY <1>0, <2>1, <2>2, <2>3, <2>4, PendingGrows
<1>6. ASSUME NEW e \in Effect, SetState(e)
      PROVE  PendingInv'
  <2>1. Notified(e, "deps")
    BY <1>6 DEF SetState
  <2>2. ToSet(reactions) \subseteq ToSet(reactions')
    BY <2>1, NewItems, PushReaction DEF Notified, TypeInv, QueueInv
  <2>3. isWake' = isWake
    BY <2>1 DEF Notified
  <2>4. \A x \in Waiter : Awaiting(x)' => Awaiting(x) /\ key'[x] = key[x]
    BY <1>6 DEF SetState, Awaiting
  <2>5. \A x \in Effect : fut[x] => life'[x] = "live"
    BY <1>6 DEF SetState, PendingInv
  <2>6. UNCHANGED <<fut, woken, runtimes, raw, wakes, actions, batch, notifys, nbatch>>
    BY <1>6 DEF SetState
  <2> QED
    BY <1>0, <2>2, <2>3, <2>4, <2>5, <2>6, PendingGrows
<1>7. ASSUME NEW c \in Config, NewRuntime(c)
      PROVE  PendingInv'
  <2>1. /\ raw = "none" /\ runtimes' = runtimes + 1
        /\ UNCHANGED <<life, key, wakes, fut, isWake, woken, actions, batch, reactions, notifys,
                       nbatch>>
    BY <1>7 DEF NewRuntime
  <2>2. \A e \in Effect : fut[e] => Orphaned' /\ runtimes' > 0 /\ life'[e] = "live"
    BY <1>0, <2>1 DEF PendingInv, Orphaned
  <2>3. \A e \in Waiter : /\ NextPending(e)' = NextPending(e)
                          /\ NotifyPending(e)' = NotifyPending(e)
                          /\ Misses(e)' = Misses(e)
    BY <2>1 DEF NextPending, NotifyPending, Misses, Awaiting
  <2>4. runtimes' \in Nat /\ runtimes' # 0 /\ runtimes' >= runtimes
    BY <1>0, <2>1
  <2>5. \A e \in Effect : Misses(e)' => fut[e]
    BY <2>1 DEF Misses, Awaiting
  <2> QED
    BY <1>0, <2>1, <2>2, <2>3, <2>4, <2>5, PendingKept
<1>8. CASE \/ \E f \in Dispatcher, p \in Phase \cup {All} : Dispatch(f, p)
           \/ OpenContext \/ Lend \/ Unlend \/ EnterCall \/ LeaveCall
  <2>1. /\ UNCHANGED <<life, key, wakes, fut, isWake, woken, actions, batch, reactions, notifys,
                       nbatch, runtimes>>
        /\ raw = "none" => raw' = "none"
    BY <1>8
    DEF Dispatch, OpenContext, HasContext, Lend, Unlend, EnterCall, LeaveCall
  <2>2. \A x \in Waiter : Awaiting(x)' => Awaiting(x) /\ key'[x] = key[x]
    BY <2>1 DEF Awaiting
  <2>3. \A x \in Effect : fut[x] => life'[x] = "live"
    BY <2>1 DEF PendingInv
  <2> QED
    BY <1>0, <2>1, <2>2, <2>3, PendingGrows
<1>9. CASE DropRuntime
  <2>1. CASE \E e \in Discarded \cap Effect : bound[e]
    <3>1. UNCHANGED <<life, key, wakes, fut, isWake, woken, actions, batch, reactions, notifys,
                      nbatch, runtimes, raw>>
      BY <1>9, <2>1 DEF DropRuntime
    <3>2. \A x \in Waiter : Awaiting(x)' => Awaiting(x) /\ key'[x] = key[x]
      BY <3>1 DEF Awaiting
    <3>3. \A x \in Effect : fut[x] => life'[x] = "live"
      BY <3>1 DEF PendingInv
    <3> QED
      BY <1>0, <3>1, <3>2, <3>3, PendingGrows
  <2>2. CASE ~\E e \in Discarded \cap Effect : bound[e]
    <3> DEFINE gone == Cancelled \cup Discarded
    <3>1. /\ DropNodes(gone) /\ raw' = "none"
          /\ UNCHANGED <<key, wakes, isWake, woken, notifys, nbatch, runtimes, batch>>
      BY <1>9, <2>2 DEF DropRuntime
    <3>2. \A t \in Task : life[t] = "live" => t \in gone
      BY DEF Cancelled, TaskInv, TasksEndWithRuntime
    <3> HIDE DEF gone
    <3>3. /\ \A e \in Waiter : life'[e] = IF e \in gone THEN "done" ELSE life[e]
          /\ \A e \in Effect : fut'[e] = (fut[e] /\ e \notin gone)
      BY <3>1 DEF DropNodes
    <3>4. \A e \in Waiter : Misses(e)' => Misses(e) /\ e \in Effect
      BY <1>0, <3>1, <3>2, <3>3 DEF Misses, Awaiting, Waiter
    <3>5. \A e \in Effect : NotifyPending(e)' = NotifyPending(e)
      BY <3>1 DEF NotifyPending
    <3>6. Orphaned' /\ runtimes' \in Nat /\ runtimes' >= runtimes
      BY <1>0, <3>1 DEF Orphaned
    <3>7. \A e \in Effect : fut'[e] => fut[e] /\ life'[e] = "live"
      BY <1>0, <3>3 DEF PendingInv
    <3> QED
      BY <1>0, <3>1, <3>4, <3>5, <3>6, <3>7, PendingKept
  <2> QED
    BY <2>1, <2>2
<1> QED
  BY <1>1, <1>2, <1>3, <1>4, <1>5, <1>6, <1>7, <1>8, <1>9 DEF UserStep

\* The action of a woken task leaves the batch when the task is polled, or has ended.
LEMMA CallActionPending ==
    ASSUME TableInv, TypeInv, PendingInv, CallAction
    PROVE  PendingInv'
<1> USE DEF queues, wakers, requests, data, arcs, effects, place, history
<1>0. /\ Effect \subseteq Waiter /\ Task \subseteq Waiter /\ Task \cap Effect = {}
      /\ runtimes \in Nat /\ life \in [Waiter -> {"new", "spawned", "live", "done"}]
  BY RuntimeAssumption DEF Waiter, TypeInv, FlatInv, TableInv
<1>1. /\ batch # <<>> /\ batch' = Tail(batch)
      /\ UNCHANGED <<actions, reactions, notifys, nbatch, fut, isWake, runtimes, raw>>
  BY DEF CallAction
<1>2. ToSet(batch) = ToSet(batch') \cup {Head(batch)}
  BY <1>1, HeadElements DEF TypeInv, QueueInv
<1>3. wakes' = wakes
  BY DEF CallAction, InsertWaker
<1>4. \A e \in Effect : life'[e] = life[e]
  BY <1>0 DEF CallAction
<1>5. ASSUME NEW e \in Waiter, Misses(e)'
      PROVE  /\ Misses(e) /\ key'[e] = key[e]
             /\ ~(e \in Task /\ Head(batch).do = "next" /\ Head(batch).of = e)
  <2>1. CASE e \in Effect
    <3>1. UNCHANGED <<woken>> \/ \E t \in Task : woken' = [woken EXCEPT ![t] = FALSE]
      BY DEF CallAction, Poll
    <3>2. woken'[e] = woken[e]
      BY <1>0, <2>1, <3>1 DEF TypeInv, FlatInv
    <3>3. UNCHANGED key \/ \E t \in Task, k \in Key : key' = [key EXCEPT ![t] = k]
      BY DEF CallAction, InsertWaker
    <3>4. key'[e] = key[e]
      BY <1>0, <2>1, <3>3 DEF TableInv
    <3> QED
      BY <1>0, <1>1, <1>4, <1>5, <2>1, <3>2, <3>4 DEF Misses, Awaiting
  <2>2. CASE e \in Task
    <3>1. CASE UNCHANGED <<woken, requests, life>> /\ Head(batch).do # "next"
      BY <1>0, <1>5, <2>2, <3>1 DEF Misses, Awaiting
    <3>2. ASSUME NEW t \in Task, life' = [life EXCEPT ![t] = "live"], InsertWaker(t), Poll(t),
                 Head(batch).do # "next"
          PROVE  /\ Misses(e) /\ key'[e] = key[e]
                 /\ ~(e \in Task /\ Head(batch).do = "next" /\ Head(batch).of = e)
      <4>1. e # t
        BY <1>0, <1>5, <2>2, <3>2 DEF Misses, Poll, TypeInv, FlatInv
      <4> QED
        BY <1>0, <1>5, <2>2, <3>2, <4>1
        DEF Misses, Awaiting, Poll, InsertWaker, TypeInv, FlatInv, TableInv
    <3>3. ASSUME NEW t \in Task, Head(batch).of = t,
                 IF life[t] = "live" THEN Poll(t) ELSE UNCHANGED <<code, woken>>,
                 UNCHANGED <<requests, tasks, life>>
          PROVE  /\ Misses(e) /\ key'[e] = key[e]
                 /\ ~(e \in Task /\ Head(batch).do = "next" /\ Head(batch).of = e)
      <4>1. e # t
        BY <1>0, <1>5, <2>2, <3>3 DEF Misses, Awaiting, Poll, TypeInv, FlatInv
      <4> QED
        BY <1>0, <1>5, <2>2, <3>3, <4>1 DEF Misses, Awaiting, Poll, TypeInv, FlatInv
    <3> QED
      BY <3>1, <3>2, <3>3 DEF CallAction
  <2> QED
    BY <2>1, <2>2 DEF Waiter
<1>6. \A e \in Task : Misses(e)' /\ NextPending(e) => NextPending(e)'
  BY <1>0, <1>1, <1>2, <1>5 DEF NextPending
<1>7. \A e \in Effect : NotifyPending(e)' = NotifyPending(e)
  BY <1>1 DEF NotifyPending
<1>8. ASSUME NEW e \in Effect, Scheduled(e)
      PROVE  Scheduled(e)'
  <2>1. Reaction(e).do = "run" /\ Reaction(e)' = Reaction(e)
    BY DEF Reaction, ActionItem
  <2>2. Head(batch).do # "run"
    BY DEF CallAction
  <2> QED
    BY <1>1, <1>2, <1>8, <2>1, <2>2 DEF Scheduled
<1>9. Orphaned' = Orphaned
  BY <1>1 DEF Orphaned
<1>10. \A e \in Effect : fut'[e] => fut[e] /\ life'[e] = "live"
  BY <1>1, <1>4 DEF PendingInv
<1>11. runtimes' \in Nat /\ runtimes' >= runtimes /\ (runtimes' = 0 => raw' = "none")
  BY <1>0, <1>1 DEF PendingInv
<1>12. \A e \in Waiter : Misses(e)' /\ key[e] \in ToSet(wakes) => key'[e] \in ToSet(wakes')
  BY <1>3, <1>5
<1>13. \A e \in Waiter : Misses(e)' => Misses(e)
  BY <1>5
<1>14. isWake' = isWake
  BY <1>1
<1> QED
  BY <1>0, <1>6, <1>7, <1>8, <1>9, <1>10, <1>11, <1>12, <1>13, <1>14, PendingKept

\* A notification that finds the flag set needs no second reaction.
LEMMA CallNotifyPending ==
    ASSUME TypeInv, PendingInv, CallNotify
    PROVE  PendingInv'
<1> USE DEF queues, wakers, requests, data, arcs, effects, place, history
<1>0. /\ Effect \subseteq Waiter /\ Task \subseteq Waiter /\ Task \cap Effect = {}
      /\ runtimes \in Nat
  BY RuntimeAssumption DEF Waiter, TypeInv, FlatInv
<1>1. /\ nbatch # <<>> /\ nbatch' = Tail(nbatch)
      /\ Notified(Head(nbatch).of, Head(nbatch).slot)
      /\ UNCHANGED <<actions, batch, notifys, wakes, key, life, fut, woken, runtimes, raw>>
  BY DEF CallNotify
<1>2. ToSet(nbatch) = ToSet(nbatch') \cup {Head(nbatch)} /\ Head(nbatch) \in Notify
  BY <1>1, HeadElements DEF TypeInv, QueueInv
<1>3. PICK e \in Effect, slot \in {"wake", "deps"} : Head(nbatch) = [of |-> e, slot |-> slot]
  BY <1>2 DEF Notify
<1>4. Notified(e, slot)
  BY <1>1, <1>3
<1>5. Reaction(e) \in ReactionItem
  BY NewItems
<1>6. /\ ToSet(reactions) \subseteq ToSet(reactions')
      /\ reactions' # reactions => Reaction(e) \in ToSet(reactions')
  BY <1>4, <1>5, PushReaction DEF Notified, TypeInv, QueueInv
<1>7. \A x \in Effect : /\ isWake[x] => isWake'[x]
                        /\ isWake'[x] => isWake[x] \/ (x = e /\ slot = "wake")
  BY <1>4 DEF Notified, TypeInv, FlatInv
<1>8. slot = "wake" /\ life[e] = "live" => isWake'[e]
  BY <1>4 DEF Notified, TypeInv, FlatInv
<1>9. slot = "wake" /\ life[e] = "live" /\ ~isWake[e] => Reaction(e) \in ToSet(reactions')
  BY <1>4, <1>5, PushReaction DEF Notified, TypeInv, QueueInv
<1>10. \A x \in Effect : Reaction(x)' = Reaction(x)
  BY DEF Reaction, ActionItem
<1>11. \A x \in Effect : Scheduled(x) => Scheduled(x)'
  BY <1>1, <1>6, <1>10 DEF Scheduled
<1>12. Orphaned' = Orphaned
  BY <1>1 DEF Orphaned
<1>13. \A x \in Waiter : Misses(x)' = Misses(x)
  BY <1>1 DEF Misses, Awaiting
<1>14. \A x \in Waiter : NextPending(x)' = NextPending(x)
  BY <1>1 DEF NextPending
<1>15. ASSUME NEW x \in Effect, fut[x], isWake'[x]
       PROVE  Scheduled(x)' \/ Orphaned'
  <2>1. CASE isWake[x]
    BY <1>11, <1>12, <1>15, <2>1 DEF PendingInv
  <2>2. CASE ~isWake[x]
    <3>1. x = e /\ slot = "wake" /\ life[e] = "live"
      BY <1>7, <1>15, <2>2 DEF PendingInv
    <3> QED
      BY <1>9, <1>10, <2>2, <3>1 DEF Scheduled
  <2> QED
    BY <2>1, <2>2
<1>16. ASSUME NEW x \in Effect, Misses(x), NotifyPending(x)
       PROVE  NotifyPending(x)' \/ (isWake'[x] /\ (Scheduled(x)' \/ Orphaned'))
  <2>1. fut[x] /\ life[x] = "live"
    BY <1>16 DEF Misses, Awaiting
  <2>2. CASE Head(nbatch) = [of |-> x, slot |-> "wake"]
    <3>1. x = e /\ slot = "wake"
      BY <1>3, <2>2
    <3> QED
      BY <1>8, <1>15, <2>1, <3>1
  <2>3. CASE Head(nbatch) # [of |-> x, slot |-> "wake"]
    BY <1>1, <1>2, <1>16, <2>3 DEF NotifyPending
  <2> QED
    BY <2>2, <2>3
<1>17. runtimes' \in Nat /\ runtimes' >= runtimes /\ (runtimes' = 0 => raw' = "none")
  BY <1>0, <1>1 DEF PendingInv
<1>18. \A x \in Effect : fut'[x] => fut[x] /\ life'[x] = "live"
  BY <1>1 DEF PendingInv
<1>19. /\ fut' = fut /\ \A x \in Waiter : key[x] \in ToSet(wakes) => key'[x] \in ToSet(wakes')
  BY <1>1
<1> QED
  BY <1>0, <1>7, <1>13, <1>14, <1>15, <1>16, <1>17, <1>18, <1>19, PendingKept

\* A reaction that runs looks at the flag before it polls.
LEMMA RunReactionPending ==
    ASSUME TaskInv, TypeInv, PendingInv, RunReaction
    PROVE  PendingInv'
<1> USE DEF queues, wakers, requests, data, arcs, effects, place, history
<1>0. /\ Effect \subseteq Waiter /\ Task \subseteq Waiter /\ Task \cap Effect = {}
      /\ runtimes \in Nat /\ runtimes > 0
  BY RuntimeAssumption DEF Waiter, TypeInv, FlatInv, PendingInv, RunReaction, TaskInv
<1>1. /\ batch # <<>> /\ batch' = Tail(batch)
      /\ UNCHANGED <<actions, reactions, notifys, nbatch, wakes, key, life, runtimes, raw>>
  BY DEF RunReaction
<1>2. ToSet(batch) = ToSet(batch') \cup {Head(batch)}
  BY <1>1, HeadElements DEF TypeInv, QueueInv
<1>3. PICK e \in Effect :
          /\ Head(batch).of = e
          /\ IF life[e] # "live" \/ ~(dirty[e] \/ isWake[e])
             THEN UNCHANGED <<effects, code, woken>>
             ELSE /\ dirty' = [dirty EXCEPT ![e] = FALSE]
                  /\ fut' = [fut EXCEPT ![e] = @ \/ dirty[e]]
                  /\ bound' = [bound EXCEPT ![e] = @ /\ ~dirty[e]]
                  /\ isWake' = [isWake EXCEPT ![e] = @ /\ ~fut'[e]]
                  /\ IF fut'[e] THEN Poll(e) ELSE UNCHANGED <<code, woken>>
  BY DEF RunReaction
<1>4. ASSUME NEW x \in Effect, x # e
      PROVE  fut'[x] = fut[x] /\ isWake'[x] = isWake[x]
  BY <1>3, <1>4 DEF TypeInv, FlatInv
<1>5. \A x \in Waiter : x # e => woken'[x] = woken[x]
  BY <1>3 DEF Poll, TypeInv, FlatInv
<1>6. \/ ~Awaiting(e)' /\ ~(fut'[e] /\ isWake'[e])
      \/ ~woken'[e] /\ ~(fut'[e] /\ isWake'[e])
      \/ ~isWake[e] /\ fut' = fut /\ isWake' = isWake /\ woken' = woken
  <2>1. CASE life[e] # "live"
    BY <1>0, <1>1, <1>3, <2>1 DEF Awaiting, PendingInv
  <2>2. CASE life[e] = "live" /\ ~(dirty[e] \/ isWake[e])
    BY <1>3, <2>2
  <2>3. CASE life[e] = "live" /\ (dirty[e] \/ isWake[e])
    <3>1. /\ fut' = [fut EXCEPT ![e] = @ \/ dirty[e]]
          /\ isWake' = [isWake EXCEPT ![e] = @ /\ ~fut'[e]]
          /\ IF fut'[e] THEN Poll(e) ELSE UNCHANGED <<code, woken>>
      BY <1>3, <2>3
    <3>2. ~(fut'[e] /\ isWake'[e])
      BY <3>1 DEF TypeInv, FlatInv
    <3>3. CASE fut'[e]
      BY <1>0, <3>1, <3>2, <3>3 DEF Poll, TypeInv, FlatInv
    <3>4. CASE ~fut'[e]
      BY <3>2, <3>4 DEF Awaiting
    <3> QED
      BY <3>3, <3>4
  <2> QED
    BY <2>1, <2>2, <2>3
<1>7. \A x \in Waiter : Misses(x)' => Misses(x) /\ (x = e => ~isWake[x] /\ UNCHANGED isWake)
  <2>1. ASSUME NEW x \in Waiter, Misses(x)', x # e
        PROVE  Misses(x)
    BY <1>1, <1>4, <1>5, <2>1 DEF Misses, Awaiting
  <2>2. ASSUME Misses(e)'
        PROVE  Misses(e) /\ ~isWake[e] /\ UNCHANGED isWake
    BY <1>1, <1>6, <2>2 DEF Misses, Awaiting
  <2> QED
    BY <2>1, <2>2
<1>8. \A x \in Effect : fut'[x] => life'[x] = "live" /\ (x # e => fut[x])
  BY <1>1, <1>3, <1>4 DEF PendingInv, TypeInv, FlatInv
<1>9. \A x \in Effect : Reaction(x).of = x /\ Reaction(x)' = Reaction(x)
  BY DEF Reaction, ActionItem
<1>10. \A x \in Effect : Scheduled(x) /\ x # e => Scheduled(x)'
  BY <1>1, <1>2, <1>3, <1>9 DEF Scheduled
<1>11. Orphaned' = Orphaned
  BY <1>1 DEF Orphaned
<1>12. ASSUME NEW x \in Task, NextPending(x)
       PROVE  NextPending(x)'
  <2>1. Head(batch).of # x
    BY <1>0, <1>3
  <2> QED
    BY <1>1, <1>2, <1>12, <2>1 DEF NextPending
<1>13. \A x \in Effect : NotifyPending(x)' = NotifyPending(x)
  BY <1>1 DEF NotifyPending
<1>14. \A x \in Effect : fut'[x] /\ isWake'[x] => Scheduled(x)' \/ Orphaned'
  <2>1. ASSUME NEW x \in Effect, fut'[x], isWake'[x]
        PROVE  Scheduled(x)' \/ Orphaned'
    <3>1. x # e
      BY <1>6, <2>1
    <3> QED
      BY <1>4, <1>10, <1>11, <2>1, <3>1 DEF PendingInv
  <2> QED
    BY <2>1
<1>15. ASSUME NEW x \in Waiter, woken'[x], Awaiting(x)'
       PROVE  \/ key'[x] \in ToSet(wakes')
              \/ x \in Task /\ NextPending(x)'
              \/ x \in Effect /\ NotifyPending(x)'
              \/ x \in Effect /\ isWake'[x] /\ (Scheduled(x)' \/ Orphaned')
  <2>1. Misses(x)'
    BY <1>15 DEF Misses
  <2>2. Misses(x)
    BY <1>7, <2>1
  <2>3. \/ key[x] \in ToSet(wakes)
        \/ x \in Task /\ NextPending(x)
        \/ x \in Effect /\ NotifyPending(x)
        \/ x \in Effect /\ isWake[x] /\ (Scheduled(x) \/ Orphaned)
    BY <2>2 DEF Misses, PendingInv
  <2>4. CASE x \in Effect /\ isWake[x]
    <3>1. x # e
      BY <1>7, <2>1, <2>4
    <3>2. isWake'[x] /\ fut'[x]
      BY <1>4, <1>15, <2>4, <3>1 DEF Awaiting
    <3> QED
      BY <1>14, <2>4, <3>2
  <2> QED
    BY <1>1, <1>12, <1>13, <2>3, <2>4
<1> QED
  BY <1>0, <1>1, <1>8, <1>14, <1>15 DEF PendingInv

\* What runs inside a dispatch moves the wakes on and loses none.
LEMMA InternalPending ==
    ASSUME TableInv, TaskInv, TypeInv, PlaceInv, PendingInv, Internal
    PROVE  PendingInv'
<1> USE DEF queues, wakers, requests, data, arcs, effects, place, history
<1>0. /\ Effect \subseteq Waiter /\ Task \subseteq Waiter /\ Task \cap Effect = {}
      /\ runtimes \in Nat /\ arg \in Phase \cup {All}
  BY RuntimeAssumption DEF Waiter, TypeInv, FlatInv
<1>1. WokenActions \in Seq(Item)
  BY WokenOf DEF TypeInv, QueueInv
<1>2. ASSUME UNCHANGED <<life, key, wakes, fut, isWake, woken, runtimes, raw, actions, batch,
                         reactions, notifys, nbatch>>
      PROVE  PendingInv'
  <2>1. \A x \in Waiter : Awaiting(x)' => Awaiting(x) /\ key'[x] = key[x]
    BY <1>2 DEF Awaiting
  <2>2. \A x \in Effect : fut[x] => life'[x] = "live"
    BY <1>2 DEF PendingInv
  <2> QED
    BY <1>0, <1>2, <2>1, <2>2, PendingGrows
<1>3. CASE GetAction
  <2>1. CASE handled
    BY <1>2, <1>3, <2>1 DEF GetAction
  <2>2. CASE ~handled
    <3>1. /\ ApplyWake /\ notifys' = WokenNotifys /\ batch = <<>>
          /\ UNCHANGED <<life, fut, isWake, woken, runtimes, raw, reactions, nbatch>>
      BY <1>3, <2>2 DEF GetAction, Idle
    <3>2. ToSet(batch) = {}
      BY <3>1 DEF ToSet
    <3>3. ToSet(WokenActions) \subseteq ToSet(actions') \cup ToSet(batch')
      <4>1. CASE Drained(WokenActions, arg) = <<>>
        BY <1>3, <2>2, <4>1 DEF GetAction
      <4>2. CASE Drained(WokenActions, arg) # <<>>
        <5>1. /\ batch' = <<Head(Drained(WokenActions, arg))>>
              /\ actions' = Popped(WokenActions, arg)
          BY <1>3, <2>2, <4>2 DEF GetAction
        <5>2. arg \in Phase
          BY <1>3 DEF GetAction, PlaceInv
        <5>3. ToSet(Popped(WokenActions, arg)) \cup {Head(Drained(WokenActions, arg))}
                  = ToSet(WokenActions)
          BY <1>1, <4>2, <5>2, TakeItem
        <5>4. Head(Drained(WokenActions, arg)) \in ToSet(batch')
          BY <5>1 DEF ToSet
        <5> QED
          BY <5>1, <5>3, <5>4
      <4> QED
        BY <4>1, <4>2
    <3> QED
      BY <3>1, <3>2, <3>3, PendingApply
  <2> QED
    BY <2>1, <2>2
<1>4. CASE GetActions
  <2>1. /\ ApplyWake /\ notifys' = WokenNotifys /\ batch = <<>>
        /\ batch' = Drained(WokenActions, arg) /\ actions' = Remaining(WokenActions, arg)
        /\ UNCHANGED <<life, fut, isWake, woken, runtimes, raw, reactions, nbatch>>
    BY <1>4 DEF GetActions, Idle
  <2>2. ToSet(batch) = {}
    BY <2>1 DEF ToSet
  <2>3. ToSet(WokenActions) = ToSet(actions') \cup ToSet(batch')
    BY <1>0, <1>1, <2>1, TakeItems
  <2> QED
    BY <2>1, <2>2, <2>3, PendingApply
<1>5. CASE GetNotifys
  <2>1. /\ ApplyWake /\ nbatch' = WokenNotifys /\ notifys' = <<>> /\ nbatch = <<>>
        /\ actions' = WokenActions
        /\ UNCHANGED <<life, fut, isWake, woken, runtimes, raw>>
    BY <1>5 DEF GetNotifys
  <2>2. ToSet(nbatch) = {}
    BY <2>1 DEF ToSet
  <2>3. ToSet(reactions) \cup ToSet(batch) \subseteq ToSet(reactions') \cup ToSet(batch')
        /\ ToSet(batch) \subseteq ToSet(batch')
    <3>1. CASE WokenNotifys = <<>> /\ back = "react"
      <4>1. batch = <<>>
        BY <1>5, <3>1 DEF GetNotifys, PlaceInv
      <4>2. batch' = Drained(reactions, arg) /\ reactions' = Remaining(reactions, arg)
        BY <1>5, <3>1 DEF GetNotifys
      <4>3. ToSet(batch) = {}
        BY <4>1 DEF ToSet
      <4> QED
        BY <1>0, <4>2, <4>3, TakeReactions DEF TypeInv, QueueInv
    <3>2. CASE ~(WokenNotifys = <<>> /\ back = "react")
      BY <1>5, <3>2 DEF GetNotifys
    <3> QED
      BY <3>1, <3>2
  <2> QED
    BY <2>1, <2>2, <2>3, PendingApply
<1>6. CASE CodeReturns
  <2> DEFINE gone == {e \in Effect : code.of = e}
  <2>1. DropNodes(gone) /\ gone \in SUBSET Waiter
    BY <1>6 DEF CodeReturns, Waiter
  <2> HIDE DEF gone
  <2> QED
    BY <1>6, <2>1, PendingDrops DEF CodeReturns
<1>7. ASSUME NEW t \in Task, TaskPolled(t)
      PROVE  PendingInv'
  <2>1. UNCHANGED <<key, wakes, fut, isWake, woken, runtimes, raw, actions, batch, reactions,
                    notifys, nbatch>>
    BY <1>7 DEF TaskPolled
  <2>2. \A x \in Waiter : life'[x] = life[x] \/ (x = t /\ life'[x] = "done")
    BY <1>7 DEF TaskPolled, TableInv
  <2>3. \A x \in Waiter : Awaiting(x)' => Awaiting(x) /\ key'[x] = key[x]
    BY <2>1, <2>2 DEF Awaiting
  <2>4. \A x \in Effect : fut[x] => life'[x] = "live"
    BY <1>0, <2>2 DEF PendingInv
  <2> QED
    BY <1>0, <2>1, <2>3, <2>4, PendingGrows
<1>8. ASSUME NEW e \in Effect, EffectPolled(e)
      PROVE  PendingInv'
  <2>1. UNCHANGED <<life, key, wakes, isWake, woken, runtimes, raw, actions, batch, reactions,
                    notifys, nbatch>>
    BY <1>8 DEF EffectPolled
  <2>2. \A x \in Effect : fut'[x] => fut[x]
    BY <1>8 DEF EffectPolled, TypeInv, FlatInv
  <2>3. \A x \in Waiter : Misses(x)' => Misses(x)
    BY <2>1, <2>2 DEF Misses, Awaiting
  <2>4. \A x \in Waiter : /\ NextPending(x)' = NextPending(x)
                          /\ NotifyPending(x)' = NotifyPending(x)
                          /\ Scheduled(x)' = Scheduled(x)
    BY <2>1 DEF NextPending, NotifyPending, Scheduled, Reaction, ActionItem
  <2>5. Orphaned' = Orphaned
    BY <2>1 DEF Orphaned
  <2>6. \A x \in Effect : fut'[x] => fut[x] /\ life'[x] = "live"
    BY <2>1, <2>2 DEF PendingInv
  <2>7. runtimes' \in Nat /\ runtimes' >= runtimes /\ (runtimes' = 0 => raw' = "none")
    BY <1>0, <2>1 DEF PendingInv
  <2>8. /\ isWake' = isWake
        /\ \A x \in Waiter : key[x] \in ToSet(wakes) => key'[x] \in ToSet(wakes')
    BY <2>1
  <2> QED
    BY <1>0, <2>3, <2>4, <2>5, <2>6, <2>7, <2>8, PendingKept
<1>9. CASE \/ \E e \in Effect : Unbind(e)
           \/ UnbindsDone \/ PhasePanic \/ ReactionsDone \/ RunDiscard \/ DiscardsDone
  BY <1>2, <1>9 DEF Unbind, UnbindsDone, PhasePanic, ReactionsDone, RunDiscard, DiscardsDone
<1> QED
  BY <1>3, <1>4, <1>5, <1>6, <1>7, <1>8, <1>9, CallActionPending, CallNotifyPending,
     RunReactionPending DEF Internal

\* What other threads do, and the executor: a wake is in the requests at once.
LEMMA OtherPending ==
    ASSUME TableInv, TypeInv, PendingInv, Threads \/ PollWait \/ UNCHANGED vars
    PROVE  PendingInv'
<1> USE DEF queues, wakers, requests, data, arcs, effects, place, history
<1>0. runtimes \in Nat /\ Task \subseteq Waiter /\ Effect \subseteq Waiter
  BY RuntimeAssumption DEF TypeInv, FlatInv, Waiter
<1>1. ASSUME NEW e \in Waiter, Wake(e)
      PROVE  PendingInv'
  <2>1. /\ wakes' = Append(wakes, key[e]) /\ woken' = [woken EXCEPT ![e] = Awaiting(e)]
        /\ UNCHANGED <<life, key, fut, isWake, runtimes, raw, actions, batch, reactions, notifys,
                       nbatch>>
    BY <1>1 DEF Wake
  <2>2. key[e] \in Key /\ wakes \in Seq(Key)
    BY <1>1 DEF Wake, TableInv, KeysAgree
  <2>3. ToSet(wakes') = ToSet(wakes) \cup {key[e]}
    BY <2>1, <2>2, AppendElements
  <2>4. \A x \in Waiter : x # e => woken'[x] = woken[x]
    BY <2>1 DEF TypeInv, FlatInv
  <2>5. /\ \A x \in Waiter : Awaiting(x)' = Awaiting(x)
        /\ \A x \in Effect : Reaction(x)' = Reaction(x)
    BY <2>1 DEF Awaiting, Reaction, ActionItem
  <2>6. \A x \in Waiter : /\ NextPending(x)' = NextPending(x)
                          /\ NotifyPending(x)' = NotifyPending(x)
                          /\ Scheduled(x)' = Scheduled(x)
    BY <2>1 DEF NextPending, NotifyPending, Scheduled, Reaction, ActionItem
  <2>7. Orphaned' = Orphaned
    BY <2>1 DEF Orphaned
  <2>8. ASSUME NEW x \in Waiter, woken'[x], Awaiting(x)'
        PROVE  \/ key'[x] \in ToSet(wakes')
               \/ x \in Task /\ NextPending(x)'
               \/ x \in Effect /\ NotifyPending(x)'
               \/ x \in Effect /\ isWake'[x] /\ (Scheduled(x)' \/ Orphaned')
    <3>1. CASE x = e
      BY <2>1, <2>3, <3>1
    <3>2. CASE x # e
      <4>1. woken[x] /\ Awaiting(x)
        BY <2>4, <2>5, <2>8, <3>2
      <4>2. \/ key[x] \in ToSet(wakes)
            \/ x \in Task /\ NextPending(x)
            \/ x \in Effect /\ NotifyPending(x)
            \/ x \in Effect /\ isWake[x] /\ (Scheduled(x) \/ Orphaned)
        BY <4>1 DEF PendingInv
      <4> QED
        BY <2>1, <2>3, <2>6, <2>7, <4>2
    <3> QED
      BY <3>1, <3>2
  <2>9. \A x \in Effect : fut'[x] => life'[x] = "live" /\ runtimes' > 0
    BY <2>1 DEF PendingInv
  <2>10. \A x \in Effect : fut'[x] /\ isWake'[x] => Scheduled(x)' \/ Orphaned'
    BY <1>0, <2>1, <2>6, <2>7 DEF PendingInv
  <2>11. runtimes' = 0 => raw' = "none"
    BY <2>1 DEF PendingInv
  <2> QED
    BY <2>8, <2>9, <2>10, <2>11 DEF PendingInv
<1>2. ASSUME UNCHANGED <<life, key, wakes, fut, isWake, woken, runtimes, raw, actions, batch,
                         reactions, notifys, nbatch>>
      PROVE  PendingInv'
  <2>1. \A x \in Waiter : Awaiting(x)' => Awaiting(x) /\ key'[x] = key[x]
    BY <1>2 DEF Awaiting
  <2>2. \A x \in Effect : fut[x] => life'[x] = "live"
    BY <1>2 DEF PendingInv
  <2> QED
    BY <1>0, <1>2, <2>1, <2>2, PendingGrows
<1> QED
  BY <1>1, <1>2 DEF Threads, Fire, Release, Forget, PollWait, vars

-----------------------------------------------------------------------------
(* What flush leaves. *)

\* flush reaches its reactions without an action, and its discards without a reaction.
LEMMA FlushStep ==
    ASSUME TableInv, CodeInv, TypeInv, PlaceInv, PlaceInv', FlushInv, [Next]_vars
    PROVE  FlushInv'
<1> USE DEF queues, wakers, requests, data, arcs, effects, place, history, FlushInv, PlaceInv
<1>0. None # "flush"
  BY RuntimeAssumption DEF Dispatcher
<1>1. ASSUME NEW f \in Dispatcher, NEW p \in Phase \cup {All}, Dispatch(f, p)
      PROVE  FlushInv'
  <2>1. f = "flush" => EntryOf(f) = "actions"
    BY DEF EntryOf
  <2> QED
    BY <1>1, <2>1 DEF Dispatch
<1>2. ASSUME at' = "actions" \/ fn' = None
      PROVE  FlushInv'
  BY <1>0, <1>2
<1>3. ASSUME UserCode, UNCHANGED <<at, back, fn, handled>>
      PROVE  FlushInv'
  BY <1>0, <1>3 DEF UserCode
<1>4. ASSUME UNCHANGED <<at, back, fn, handled, batch, code, reactions, notifys, unbinds, actions>>
      PROVE  FlushInv'
  BY <1>4 DEF OnlyNext
<1>5. CASE OpenContext
  BY <1>0, <1>5 DEF OpenContext, HasContext
<1>6. CASE GetActions
  <2>1. CASE at' = "actions" \/ fn' = None
    BY <1>2, <2>1
  <2>2. CASE ~(at' = "actions" \/ fn' = None)
    <3>1. /\ fn = "flush" /\ fn' = fn /\ at' = "unbind" /\ back' = "react" /\ ~handled
          /\ batch' = <<>> /\ batch' = Drained(WokenActions, arg)
          /\ actions' = Remaining(WokenActions, arg)
      BY <1>6, <2>2 DEF GetActions, Idle, Finish
    <3>2. actions' = <<>>
      BY <3>1 DEF Remaining
    <3>3. OnlyNext'
      BY <3>2 DEF OnlyNext, ToSet
    <3> QED
      BY <3>1, <3>3
  <2> QED
    BY <2>1, <2>2
<1>7. CASE GetAction
  BY <1>2, <1>7 DEF GetAction, Idle, Finish
<1>8. CASE CallAction \/ CodeReturns \/ \E t \in Task : TaskPolled(t)
  BY <1>2, <1>8 DEF CallAction, CodeReturns, TaskPolled
<1>9. ASSUME NEW e \in Effect, Unbind(e)
      PROVE  FlushInv'
  BY <1>9 DEF Unbind, OnlyNext
<1>10. CASE UnbindsDone
  <2>1. CASE back = "discard"
    <3>1. at' = "discard" /\ fn' = fn /\ handled' = handled /\ at = "unbind"
      BY <1>10, <2>1 DEF UnbindsDone
    <3> QED
      BY <1>10, <2>1, <3>1
  <2>2. CASE back # "discard"
    BY <1>10, <2>2 DEF UnbindsDone, OnlyNext
  <2> QED
    BY <2>1, <2>2
<1>11. CASE CallNotify
  BY <1>11 DEF CallNotify, OnlyNext
<1>12. CASE GetNotifys
  <2>1. /\ at = "notify" /\ notifys' = <<>> /\ actions' = WokenActions /\ unbinds' = {}
        /\ UNCHANGED <<fn, code, arg>>
    BY <1>12 DEF GetNotifys
  <2>2. OnlyNext => OnlyNext'
    <3>1. \A x \in ToSet(WokenActions) : x \in ToSet(actions) \/ x.do = "next"
      BY WokenOf DEF TypeInv, QueueInv
    <3> QED
      BY <2>1, <3>1 DEF OnlyNext
  <2>3. CASE WokenNotifys # <<>>
    BY <1>12, <2>1, <2>2, <2>3 DEF GetNotifys
  <2>4. CASE WokenNotifys = <<>> /\ back = "react"
    <3>1. /\ at' = "react" /\ back' = "react" /\ batch' = Drained(reactions, arg)
          /\ reactions' = Remaining(reactions, arg) /\ handled' = (batch' # <<>>)
      BY <1>12, <2>4 DEF GetNotifys
    <3>2. fn = "flush" => batch' = reactions /\ reactions' = <<>>
      BY <3>1 DEF Drained, Remaining
    <3>3. code = None
      BY <2>1, <2>4 DEF CodeInv
    <3> QED
      BY <2>1, <2>2, <2>4, <3>1, <3>2, <3>3
  <2>5. CASE WokenNotifys = <<>> /\ back # "react"
    <3>1. at' = back /\ back' = "react" /\ back \in {"user", "actions"}
      BY <1>12, <2>1, <2>5 DEF GetNotifys, TypeInv, FlatInv
    <3> QED
      BY <1>0, <2>1, <3>1
  <2> QED
    BY <2>3, <2>4, <2>5
<1>13. CASE RunReaction
  BY <1>13 DEF RunReaction
<1>14. ASSUME NEW e \in Effect, EffectPolled(e)
       PROVE  FlushInv'
  BY <1>14 DEF EffectPolled, Polling
<1>15. CASE ReactionsDone
  <2>1. CASE fn' = None \/ at' = "actions"
    BY <1>2, <2>1
  <2>2. CASE ~(fn' = None \/ at' = "actions")
    <3>1. /\ at = "react" /\ ~handled /\ at' = "discard"
          /\ UNCHANGED <<fn, back, batch, code, reactions, notifys, unbinds, actions>>
      BY <1>15, <2>2 DEF ReactionsDone, Idle, Finish
    <3> QED
      BY <3>1 DEF OnlyNext
  <2> QED
    BY <2>1, <2>2
<1>16. CASE RunDiscard
  BY <1>16 DEF RunDiscard
<1>17. CASE DiscardsDone
  <2>1. CASE unbinds # {}
    BY <1>17, <2>1 DEF DiscardsDone
  <2>2. CASE unbinds = {}
    BY <1>2, <1>17, <2>2 DEF DiscardsDone, DiscardsReturn, Finish
  <2> QED
    BY <2>1, <2>2
<1>18. CASE UserStep /\ ~OpenContext
            /\ ~\E f \in Dispatcher, p \in Phase \cup {All} : Dispatch(f, p)
  BY <1>3, <1>18
  DEF UserStep, SpawnAction, SpawnAsync, Subscribe, Unsubscribe, LooseNotify, SetState,
      HasContext, UserCode, NewRuntime, Lend, Unlend, EnterCall, LeaveCall, DropRuntime
<1>19. CASE PhasePanic \/ PollWait \/ Threads \/ Halted \/ UNCHANGED vars
  BY <1>4, <1>19
  DEF PhasePanic, PollWait, Threads, Fire, Wake, Release, Forget, Halted, vars
<1> QED
  BY <1>1, <1>5, <1>6, <1>7, <1>8, <1>9, <1>10, <1>11, <1>12, <1>13, <1>14, <1>15, <1>16, <1>17,
     <1>18, <1>19 DEF Next, Internal, UserStep

-----------------------------------------------------------------------------
(* The order of the actions. *)

InOrder(p) ==
    \/ IsPrefix(Upcoming(p), Upcoming(p)')
    \/ Upcoming(p) # <<>> /\ Tail(Upcoming(p)) = Upcoming(p)'

\* The batch that Upcoming counts.
Current == IF "actions" \in {at, back} THEN batch ELSE <<>>

\* The upcoming actions of a phase: those of the batch, then those of the queue.
LEMMA UpcomingType ==
    ASSUME TypeInv, NEW p \in Phase
    PROVE  /\ Current \in Seq(Item) /\ Upcoming(p) \in Seq(Item)
           /\ Upcoming(p) = OfPhase(Current, p) \o OfPhase(actions, p)
           /\ OfPhase(Current, p) \in Seq(Item) /\ OfPhase(actions, p) \in Seq(Item)
<1>1. Phased(Item) /\ p \in Int
  BY ItemPhases
<1>2. Current \in Seq(Item) /\ actions \in Seq(Item)
  BY DEF Current, TypeInv, QueueInv
<1>3. OfPhase(Current, p) \in Seq(Item) /\ OfPhase(actions, p) \in Seq(Item)
  BY <1>1, <1>2, PartsOf
<1>4. Upcoming(p) = OfPhase(Current, p) \o OfPhase(actions, p)
  BY DEF Upcoming, Current
<1> QED
  BY <1>2, <1>3, <1>4

\* Steps that leave the upcoming actions, push one, or apply the wakes.
LEMMA OrderGrows ==
    ASSUME TypeInv, TypeInv', NEW p \in Phase, OfPhase(Current', p) = OfPhase(Current, p),
           NEW r \in Seq(Item), OfPhase(actions', p) = OfPhase(actions, p) \o r
    PROVE  InOrder(p)
<1> DEFINE c == OfPhase(Current, p)
           a == OfPhase(actions, p)
<1>1. c \in Seq(Item) /\ a \in Seq(Item) /\ Upcoming(p) = c \o a
  BY UpcomingType
<1>2. Upcoming(p)' = c \o (a \o r)
  BY DEF Upcoming, Current
<1> HIDE DEF c, a
<1>3. c \o (a \o r) = (c \o a) \o r /\ c \o a \in Seq(Item)
  BY <1>1
<1>4. IsPrefix(c \o a, (c \o a) \o r)
  BY <1>3, PrefixOf
<1> QED
  BY <1>1, <1>2, <1>3, <1>4 DEF InOrder

\* Steps that leave the upcoming actions alone.
LEMMA OrderStays ==
    ASSUME TypeInv, TypeInv', NEW p \in Phase, Upcoming(p)' = Upcoming(p)
    PROVE  InOrder(p)
<1>1. Upcoming(p) \in Seq(Item) /\ <<>> \in Seq(Item)
  BY UpcomingType
<1> QED
  BY <1>1, PrefixOf DEF InOrder

\* apply_wake, and what is taken out goes to the batch.
LEMMA OrderTakes ==
    ASSUME TableInv, TypeInv, TypeInv', NEW p \in Phase, Current = <<>>,
           OfPhase(Current', p) \o OfPhase(actions', p) = OfPhase(WokenActions, p)
    PROVE  InOrder(p)
<1>1. PICK r \in Seq(Item) : OfPhase(WokenActions, p) = OfPhase(actions, p) \o r
  BY WokenOf DEF TypeInv, QueueInv
<1>2. Upcoming(p)' = OfPhase(WokenActions, p)
  BY DEF Upcoming, Current
<1>3. OfPhase(<<>>, p) = <<>>
  BY KeptEmpty DEF OfPhase
<1>4. OfPhase(actions, p) \in Seq(Item) /\ Upcoming(p) = <<>> \o OfPhase(actions, p)
  BY <1>3, UpcomingType
<1>5. <<>> \o OfPhase(actions, p) = OfPhase(actions, p)
  BY <1>4
<1> QED
  BY <1>1, <1>2, <1>4, <1>5, PrefixOf DEF InOrder

\* Every step keeps the order of the actions of a phase.
LEMMA OrderStep ==
    ASSUME TableInv, TypeInv, TypeInv', PlaceInv, PlaceInv', [Next]_vars,
           raw' # "none", NEW p \in Phase
    PROVE  InOrder(p)
<1> USE DEF queues, wakers, requests, data, arcs, effects, place, history
<1>0. /\ Phased(Item) /\ p \in Int /\ arg \in Phase \cup {All}
      /\ OfPhase(<<>>, p) = <<>> /\ <<>> \in Seq(Item)
  BY ItemPhases, KeptEmpty DEF OfPhase, TypeInv, FlatInv
<1>1. WokenActions \in Seq(Item)
  BY WokenOf DEF TypeInv, QueueInv
<1>2. /\ batch = <<>> => Current = <<>>
      /\ "actions" \notin {at, back} => Current = <<>>
      /\ at \notin {"actions", "react"} /\ back # "actions" => Current = <<>>
      /\ "actions" \in {at, back} => Current = batch
  BY DEF Current, PlaceInv
<1>3. ASSUME Current' = Current, actions' = actions
      PROVE  InOrder(p)
  BY <1>3, OrderStays DEF Upcoming, Current
<1>4. ASSUME NEW x \in Item, actions' = Push(actions, x), UNCHANGED <<at, back, batch>>
      PROVE  InOrder(p)
  <2>1. OfPhase(Current', p) = OfPhase(Current, p)
    BY <1>4 DEF Current
  <2>2. OfPhase(actions', p) =
            IF p = x.phase THEN Append(OfPhase(actions, p), x) ELSE OfPhase(actions, p)
    BY <1>4, PushItem DEF TypeInv, QueueInv
  <2>3. OfPhase(actions, p) \in Seq(Item)
    BY UpcomingType
  <2>4. \E r \in Seq(Item) : OfPhase(actions', p) = OfPhase(actions, p) \o r
    <3>1. CASE p = x.phase
      <4>1. OfPhase(actions', p) = OfPhase(actions, p) \o <<x>> /\ <<x>> \in Seq(Item)
        BY <2>2, <2>3, <3>1
      <4> QED
        BY <4>1
    <3>2. CASE p # x.phase
      <4>1. OfPhase(actions, p) \o <<>> = OfPhase(actions, p)
        BY <2>3
      <4> QED
        BY <1>0, <2>2, <3>2, <4>1
    <3> QED
      BY <3>1, <3>2
  <2> QED
    BY <2>1, <2>4, OrderGrows
<1>5. ASSUME NEW q \in Phase, NEW e \in Effect \cup {None}, SpawnAction(q, e)
      PROVE  InOrder(p)
  BY <1>4, <1>5, NewItems DEF SpawnAction
<1>6. ASSUME NEW t \in Task, SpawnAsync(t)
      PROVE  InOrder(p)
  <2>1. ActionItem(PhaseOf[t], "start", t) \in Item
    BY NewItems DEF Waiter
  <2> QED
    BY <1>4, <1>6, <2>1 DEF SpawnAsync
<1>7. ASSUME NEW f \in Dispatcher, NEW s \in Phase \cup {All}, Dispatch(f, s)
      PROVE  InOrder(p)
  <2>1. batch = <<>>
    BY <1>7 DEF Dispatch, PlaceInv
  <2>2. Current = <<>> /\ Current' = <<>>
    BY <1>7, <2>1 DEF Dispatch, Current
  <2> QED
    BY <1>3, <1>7, <2>2 DEF Dispatch
<1>8. CASE OpenContext
  <2>1. batch' = batch /\ back' = at /\ at' = "unbind" /\ at \in {"user", "actions"}
    BY <1>8 DEF OpenContext, HasContext
  <2>2. Current' = Current
    BY <2>1 DEF Current, PlaceInv
  <2> QED
    BY <1>3, <1>8, <2>2 DEF OpenContext
<1>9. CASE GetAction
  <2>1. at = "actions" /\ batch = <<>> /\ Current = <<>>
    BY <1>2, <1>9 DEF GetAction, Idle
  <2>2. CASE handled
    <3>1. actions' = actions /\ batch' = <<>>
      BY <1>9, <2>1, <2>2 DEF GetAction
    <3>2. Current' = <<>>
      BY <3>1 DEF Current
    <3> QED
      BY <1>3, <2>1, <3>1, <3>2
  <2>3. CASE ~handled /\ Drained(WokenActions, arg) = <<>>
    <3>1. actions' = WokenActions /\ batch' = <<>>
      BY <1>9, <2>1, <2>3 DEF GetAction
    <3>2. OfPhase(Current', p) = <<>>
      BY <1>0, <3>1 DEF Current
    <3>3. OfPhase(WokenActions, p) \in Seq(Item)
      BY <1>0, <1>1, PartsOf
    <3>4. OfPhase(Current', p) \o OfPhase(actions', p) = OfPhase(WokenActions, p)
      BY <3>1, <3>2, <3>3
    <3> QED
      BY <2>1, <3>4, OrderTakes
  <2>4. CASE ~handled /\ Drained(WokenActions, arg) # <<>>
    <3>1. /\ batch' = <<Head(Drained(WokenActions, arg))>>
          /\ actions' = Popped(WokenActions, arg) /\ at' = at
      BY <1>9, <2>4 DEF GetAction
    <3>2. Current' = batch'
      BY <2>1, <3>1 DEF Current
    <3>3. arg \in Phase
      BY <1>9 DEF GetAction, PlaceInv
    <3>4. OfPhase(<<Head(Drained(WokenActions, arg))>>, p) \o OfPhase(Popped(WokenActions, arg), p)
              = OfPhase(WokenActions, p)
      BY <1>1, <2>4, <3>3, TakeItem
    <3> QED
      BY <2>1, <3>1, <3>2, <3>4, OrderTakes
  <2> QED
    BY <2>2, <2>3, <2>4
<1>10. CASE GetActions
  <2>1. /\ at = "actions" /\ Current = <<>>
        /\ batch' = Drained(WokenActions, arg) /\ actions' = Remaining(WokenActions, arg)
        /\ batch' # <<>> => at' = at
    BY <1>2, <1>10 DEF GetActions, Idle
  <2>2. Current' = batch'
    BY <2>1 DEF Current
  <2>3. OfPhase(Drained(WokenActions, arg), p) \o OfPhase(Remaining(WokenActions, arg), p)
            = OfPhase(WokenActions, p)
    BY <1>0, <1>1, TakeItems
  <2> QED
    BY <2>1, <2>2, <2>3, OrderTakes
<1>11. CASE CallAction
  <2>1. /\ batch # <<>> /\ batch' = Tail(batch) /\ at = "actions"
        /\ UNCHANGED <<at, back, actions>>
    BY <1>11 DEF CallAction
  <2>2. Current = batch /\ Current' = Tail(batch)
    BY <2>1 DEF Current
  <2> DEFINE x == Head(batch)
             c == OfPhase(Tail(batch), p)
             a == OfPhase(actions, p)
  <2>3. x \in Item /\ c \in Seq(Item) /\ a \in Seq(Item)
    <3>1. Tail(batch) \in Seq(Item) /\ x \in Item
      BY <2>1, HeadElements DEF TypeInv, QueueInv
    <3>2. a \in Seq(Item)
      BY UpcomingType
    <3> QED
      BY <1>0, <3>1, <3>2, PartsOf
  <2>4. OfPhase(batch, p) = IF p = x.phase THEN <<x>> \o c ELSE c
    BY <1>0, <2>1, TailOf DEF TypeInv, QueueInv
  <2>5. Upcoming(p) = OfPhase(batch, p) \o a /\ Upcoming(p)' = c \o a
    BY <2>1, <2>2, UpcomingType DEF Upcoming, Current
  <2> HIDE DEF x, c, a
  <2>6. CASE p = x.phase
    <3>1. Upcoming(p) = (<<x>> \o c) \o a
      BY <2>4, <2>5, <2>6
    <3>2. (<<x>> \o c) \o a # <<>> /\ Tail((<<x>> \o c) \o a) = c \o a
      BY <2>3
    <3> QED
      BY <2>5, <3>1, <3>2 DEF InOrder
  <2>7. CASE p # x.phase
    BY <2>4, <2>5, <2>7, OrderStays
  <2> QED
    BY <2>6, <2>7
<1>12. CASE UnbindsDone
  <2>1. /\ batch' = batch /\ actions' = actions /\ at = "unbind"
        /\ at' = IF back = "discard" THEN "discard" ELSE "notify"
        /\ back' = IF back = "discard" THEN "react" ELSE back
    BY <1>12 DEF UnbindsDone
  <2>2. Current' = Current
    BY <2>1 DEF Current
  <2> QED
    BY <1>3, <2>1, <2>2
<1>13. CASE GetNotifys
  <2>1. at = "notify" /\ actions' = WokenActions
    BY <1>13 DEF GetNotifys
  <2>2. Current' = Current
    <3>1. CASE WokenNotifys # <<>>
      BY <1>13, <3>1 DEF GetNotifys, Current
    <3>2. CASE WokenNotifys = <<>> /\ back = "react"
      BY <1>13, <2>1, <3>2 DEF GetNotifys, Current
    <3>3. CASE WokenNotifys = <<>> /\ back # "react"
      BY <1>13, <2>1, <3>3 DEF GetNotifys, Current
    <3> QED
      BY <3>1, <3>2, <3>3
  <2>3. PICK r \in Seq(Item) : OfPhase(WokenActions, p) = OfPhase(actions, p) \o r
    BY WokenOf DEF TypeInv, QueueInv
  <2> QED
    BY <2>1, <2>2, <2>3, OrderGrows
<1>14. CASE RunReaction
  <2>1. at = "react" /\ UNCHANGED <<at, back, actions>>
    BY <1>14 DEF RunReaction
  <2>2. Current = <<>> /\ Current' = <<>>
    BY <2>1 DEF Current, PlaceInv
  <2> QED
    BY <1>3, <2>1, <2>2
<1>15. CASE ReactionsDone \/ DiscardsDone
  <2>1. at \in {"react", "discard"} /\ UNCHANGED <<batch, actions>>
        /\ (at = "react" => batch = <<>>)
    BY <1>15 DEF ReactionsDone, DiscardsDone, Idle
  <2>2. batch = <<>>
    BY <2>1 DEF PlaceInv
  <2>3. Current = <<>> /\ Current' = <<>>
    BY <2>1, <2>2 DEF Current
  <2> QED
    BY <1>3, <2>1, <2>3
<1>16. CASE DropRuntime
  BY <1>3, <1>16 DEF DropRuntime, Current
<1>17. CASE UNCHANGED <<at, back, batch, actions>>
  BY <1>3, <1>17 DEF Current
<1> QED
  BY <1>5, <1>6, <1>7, <1>8, <1>9, <1>10, <1>11, <1>12, <1>13, <1>14, <1>15, <1>16, <1>17
  DEF Next, UserStep, Internal, Threads, Halted, vars, Subscribe, Unsubscribe, LooseNotify,
      SetState, NewRuntime, Lend, Unlend, EnterCall, LeaveCall, CodeReturns, TaskPolled, Unbind,
      EffectPolled, CallNotify, PhasePanic, RunDiscard, PollWait, Fire, Wake, Release, Forget

-----------------------------------------------------------------------------
(* The theorems. *)

RuntimeInv ==
    /\ TableInv /\ CodeInv /\ TaskInv
    /\ TypeInv /\ PlaceInv /\ ParkedInv /\ PendingInv /\ FlushInv

\* The invariant holds at first.
LEMMA RuntimeInit == Init => RuntimeInv
<1>1. Init => TableInv /\ CodeInv /\ TaskInv
  BY DEF Init, TableInv, KeysAgree, ToSet, CodeInv, Polling, TaskInv, TasksEndWithRuntime, Waiter
<1>2. Init => TypeInv
  <2>1. 0 \in 0 .. MaxDiscards /\ 0 \in 0 .. MaxRuntimes
    BY RuntimeAssumption
  <2>2. Init => QueueInv
    BY DEF Init, QueueInv
  <2>3. Init => FlatInv
    <3> SUFFICES ASSUME Init
                 PROVE  FlatInv
      OBVIOUS
    <3>1. PICK h : h = held
      OBVIOUS
    <3>2. h = [e \in Waiter |-> FALSE] /\ ready = h /\ woken = h
      BY <3>1 DEF Init
    <3>3. PICK g : g = fut
      OBVIOUS
    <3>4. g = [e \in Effect |-> FALSE] /\ fut = g /\ dirty = g /\ isWake = g /\ bound = g
      BY <3>3 DEF Init
    <3>5. h \in [Waiter -> BOOLEAN] /\ g \in [Effect -> BOOLEAN]
      BY <3>2, <3>4
    <3>6. /\ config = None /\ unbinds = {} /\ needWake = FALSE /\ waker = FALSE /\ wait = "none"
          /\ tasks = {} /\ discards = 0 /\ raw = "none"
          /\ at = "user" /\ back = "react" /\ fn = None /\ arg = All /\ handled = FALSE
          /\ code = None /\ runtimes = 0 /\ fault = "none"
      BY DEF Init
    <3> QED
      BY <2>1, <3>2, <3>4, <3>5, <3>6 DEF FlatInv
  <2> QED
    BY <2>2, <2>3 DEF TypeInv
<1>3. Init => PlaceInv /\ ParkedInv /\ FlushInv
  BY RuntimeAssumption DEF Init, PlaceInv, ParkedInv, FlushInv, Dispatcher
<1>4. Init => PendingInv
  BY DEF Init, PendingInv
<1> QED
  BY <1>1, <1>2, <1>3, <1>4 DEF RuntimeInv

\* Every step keeps the invariant.
LEMMA RuntimeStep == RuntimeInv /\ [Next]_vars => RuntimeInv'
<1> SUFFICES ASSUME RuntimeInv, [Next]_vars
             PROVE  RuntimeInv'
  OBVIOUS
<1> USE DEF RuntimeInv
<1>1. UserStep \/ Internal \/ Threads \/ PollWait \/ UNCHANGED vars
  BY DEF Next, Halted
<1>2. TableInv'
  <2>1. UserStep => TableInv'
    BY UserTable
  <2>2. Internal => TableInv'
    BY InternalTable
  <2>3. Threads => TableInv'
    BY ThreadTable DEF Threads
  <2>4. PollWait \/ UNCHANGED vars => TableInv'
    BY StayTable DEF PollWait, vars, TableStays, arcs
  <2> QED
    BY <1>1, <2>1, <2>2, <2>3, <2>4
<1>3. CodeInv' /\ TaskInv'
  <2>1. Next => CodeInv' /\ TaskInv'
    BY CodeStep, TaskStep
  <2>2. UNCHANGED vars => CodeInv' /\ TaskInv'
    BY DEF vars, data, place, TaskInv, TasksEndWithRuntime, CodeInv, Polling
  <2> QED
    BY <2>1, <2>2
<1>4. TypeInv'
  BY <1>1, UserTypes, InternalTypes, OtherTypes
<1>5. PlaceInv' /\ ParkedInv'
  BY PlaceStep, ParkedStep
<1>6. PendingInv'
  BY <1>1, UserPending, InternalPending, OtherPending
<1>7. FlushInv'
  BY <1>5, FlushStep
<1> QED
  BY <1>2, <1>3, <1>4, <1>5, <1>6, <1>7

\* The invariant holds in every state of the Runtime.
THEOREM SpecRuntimeInv == Spec => []RuntimeInv
BY RuntimeInit, RuntimeStep, PTL DEF Spec

\* As long as anybody has the waker of a waiter, its entry in the wake table stays, and every wake
\* and every removal that other threads asked for finds the entry it means (RawWake, WakeTable).
THEOREM SpecKeysAgree == Spec => []KeysAgree
<1>1. RuntimeInv => KeysAgree
  BY DEF RuntimeInv, TableInv
<1> QED
  BY <1>1, SpecRuntimeInv, PTL

\* apply_wake frees no future while it holds the lock that the future's wakers need.
THEOREM SpecRemovalFreesNoFuture == Spec => []RemovalFreesNoFuture
<1>1. ASSUME RuntimeInv, NEW k \in drops, table[k] \in Task
      PROVE  life[table[k]] = "done"
  <2>1. table[k] \in Waiter /\ k \in Key /\ None \notin Waiter /\ None \notin Key
    BY <1>1, RuntimeAssumption DEF RuntimeInv, TableInv, Waiter
  <2>2. key[table[k]] = k
    BY <1>1, <2>1 DEF RuntimeInv, TableInv
  <2>3. life[table[k]] # "live"
    BY <1>1, <2>1, <2>2 DEF RuntimeInv, TableInv, KeysAgree
  <2>4. life[table[k]] \notin {"new", "spawned"}
    BY <1>1, <2>1, <2>2 DEF RuntimeInv, TableInv
  <2> QED
    BY <1>1, <2>1, <2>3, <2>4 DEF RuntimeInv, TableInv
<1>2. RuntimeInv => RemovalFreesNoFuture
  BY <1>1 DEF RemovalFreesNoFuture
<1> QED
  BY <1>2, SpecRuntimeInv, PTL

\* RuntimeData::async_actions has the futures that exist, and none outlives its Runtime.
THEOREM SpecTasksEndWithRuntime == Spec => []TasksEndWithRuntime
<1>1. RuntimeInv => TasksEndWithRuntime
  BY DEF RuntimeInv, TaskInv
<1> QED
  BY <1>1, SpecRuntimeInv, PTL

\* An index of the table changes its owner only after apply_wake has emptied the requests: a wake
\* under way never reaches another waiter.
THEOREM SpecEntryGoesWithItsWakes == Spec => EntryGoesWithItsWakes
<1> DEFINE Leaves == \A k \in Key : table[k] # None /\ table'[k] # table[k]
                         => table'[k] = None /\ k \notin ToSet(wakes')
<1>1. ASSUME RuntimeInv, [Next]_vars
      PROVE  Leaves
  <2>1. CASE UNCHANGED table
    BY <2>1
  <2>2. CASE ApplyWake
    BY <2>2 DEF ApplyWake, Swept, ToSet
  <2>3. CASE \E e \in Waiter : InsertWaker(e)
    BY <1>1, <2>3 DEF InsertWaker, RuntimeInv, TableInv
  <2> HIDE DEF Leaves
  <2>4. CASE UserStep
    BY <2>1, <2>3, <2>4
    DEF UserStep, Waiter, requests, SpawnAction, SpawnAsync, Subscribe, Unsubscribe, LooseNotify,
        SetState, NewRuntime, Dispatch, OpenContext, Lend, Unlend, EnterCall, LeaveCall,
        DropRuntime
  <2>5. CASE Internal
    <3>1. CASE GetAction \/ GetActions \/ GetNotifys \/ CallAction
      BY <2>1, <2>2, <2>3, <3>1
      DEF GetAction, GetActions, GetNotifys, CallAction, requests, Waiter
    <3> QED
      BY <2>1, <2>5, <3>1
      DEF Internal, requests, CodeReturns, TaskPolled, Unbind, EffectPolled, UnbindsDone,
          CallNotify, PhasePanic, RunReaction, ReactionsDone, RunDiscard, DiscardsDone
  <2>6. CASE PollWait \/ Threads \/ Halted \/ UNCHANGED vars
    BY <2>1, <2>6
    DEF PollWait, Threads, Fire, Wake, Release, Forget, Halted, vars, requests
  <2> QED
    BY <1>1, <2>4, <2>5, <2>6 DEF Next
<1> QED
  BY <1>1, SpecRuntimeInv, PTL DEF Spec, EntryGoesWithItsWakes

\* What wait_for_ready promises an executor: as long as its future is suspended, there is a waker to
\* be taken, and no action, reaction, notification or wake is left that needs flush.
THEOREM SpecParkedMeansIdle == Spec => []ParkedMeansIdle
<1>1. RuntimeInv => ParkedMeansIdle
  BY DEF RuntimeInv, ParkedInv, ParkedMeansIdle
<1> QED
  BY <1>1, SpecRuntimeInv, PTL

\* No wake is lost between RawWake::wake and the poll of the waiter: it is in the requests, in a
\* queue, or in the flag of an effect whose reaction is scheduled.  (With the types.)
THEOREM SpecWokenIsPending == Spec => []WokenIsPending
<1>1. RuntimeInv => TypeOK
  <2>1. \A X, q : q \in Seq(X) => ToSet(q) \subseteq X
    BY DEF ToSet
  <2> QED
    BY <2>1 DEF RuntimeInv, TypeInv, QueueInv, FlatInv, TableInv, ReactionItem, TypeOK
<1>2. RuntimeInv =>
        \A e \in Waiter : woken[e] /\ Awaiting(e) =>
            \/ key[e] \in ToSet(wakes)
            \/ e \in Task /\ \E x \in ToSet(actions) \cup ToSet(batch) :
                                 x.do = "next" /\ x.of = e
            \/ e \in Effect /\ [of |-> e, slot |-> "wake"] \in ToSet(notifys) \cup ToSet(nbatch)
            \/ e \in Effect /\ isWake[e] /\ (\/ Reaction(e) \in ToSet(reactions) \cup ToSet(batch)
                                             \/ runtimes > 1 \/ raw = "none")
  BY DEF RuntimeInv, PendingInv, NextPending, NotifyPending, Scheduled, Orphaned
<1>3. RuntimeInv => WokenIsPending
  BY <1>1, <1>2 DEF WokenIsPending
<1> QED
  BY <1>3, SpecRuntimeInv, PTL

\* Runtime::flush returns only when there is nothing to do, but for tasks that were woken while it
\* was past the actions.
THEOREM SpecFlushLeavesOnlyWoken == Spec => FlushLeavesOnlyWoken
<1> DEFINE Leaves == fn = "flush" /\ fn' = None =>
               /\ reactions' = <<>> /\ notifys' = <<>> /\ unbinds' = {} /\ discards' = 0
               /\ \A x \in ToSet(actions') : x.do = "next"
<1>1. ASSUME RuntimeInv, [Next]_vars
      PROVE  Leaves
  <2> SUFFICES ASSUME fn = "flush", fn' = None
               PROVE  /\ reactions' = <<>> /\ notifys' = <<>> /\ unbinds' = {} /\ discards' = 0
                      /\ \A x \in ToSet(actions') : x.do = "next"
    OBVIOUS
  <2>0. None # "flush"
    BY RuntimeAssumption DEF Dispatcher
  <2>1. UserStep => UNCHANGED fn \/ fn' \in Dispatcher
    BY DEF UserStep, SpawnAction, SpawnAsync, Subscribe, Unsubscribe, LooseNotify, SetState,
           NewRuntime, Dispatch, OpenContext, Lend, Unlend, EnterCall, LeaveCall, DropRuntime,
           place
  <2>2. PollWait \/ Threads \/ Halted \/ UNCHANGED vars => UNCHANGED fn
    BY DEF PollWait, Threads, Fire, Wake, Release, Forget, Halted, vars, place
  <2>3. Internal => UNCHANGED fn \/ DiscardsDone
    BY <2>0
    DEF Internal, GetAction, GetActions, CallAction, CodeReturns, TaskPolled, Unbind,
        EffectPolled, UnbindsDone, CallNotify, GetNotifys, PhasePanic, RunReaction,
        ReactionsDone, RunDiscard, Finish, place
  <2>4. None \notin Dispatcher
    BY RuntimeAssumption
  <2>5. DiscardsDone
    BY <1>1, <2>0, <2>1, <2>2, <2>3, <2>4 DEF Next
  <2>6. at = "discard" /\ ~handled /\ discards = 0 /\ unbinds = {}
        /\ UNCHANGED <<actions, reactions, notifys, unbinds, discards>>
    BY <2>0, <2>5 DEF DiscardsDone, DiscardsReturn, queues, data
  <2>7. reactions = <<>> /\ notifys = <<>> /\ \A x \in ToSet(actions) : x.do = "next"
    BY <1>1, <2>6 DEF RuntimeInv, FlushInv, OnlyNext
  <2> QED
    BY <2>6, <2>7
<1> QED
  BY <1>1, SpecRuntimeInv, PTL DEF Spec, FlushLeavesOnlyWoken

\* The actions of a phase run in the order in which they were scheduled, whatever is taken out,
\* pushed or woken meanwhile.
THEOREM SpecActionsKeepOrder == Spec => ActionsKeepOrder
<1> DEFINE Orders == raw' # "none" => \A p \in Phase :
               \/ IsPrefix(Upcoming(p), Upcoming(p)')
               \/ Upcoming(p) # <<>> /\ Tail(Upcoming(p)) = Upcoming(p)'
<1>1. ASSUME RuntimeInv, RuntimeInv', [Next]_vars
      PROVE  Orders
  BY <1>1, OrderStep DEF RuntimeInv, InOrder
<1>2. RuntimeInv /\ RuntimeInv' /\ [Next]_vars => Orders
  BY <1>1
<1> QED
  BY <1>2, SpecRuntimeInv, PTL DEF Spec, ActionsKeepOrder
===============================================================================
