--------------------------- MODULE FeedNodesProofs ---------------------------
(***************************************************************************)
(* For every set of effects and of items: no change of a change feed or a  *)
(* slab map is lost to a dependant (ChangesReachReaders), no dependant     *)
(* runs for nothing or asks a dependency that is not resolved (RunsAreDue).*)
(*                                                                         *)
(* Both follow from what EffectInv says of one effect: it is stale         *)
(* exactly if it or one of its bindings is "Dirty", or a loose edit's      *)
(* notification is on its way to it.                                       *)
(***************************************************************************)
EXTENDS FeedNodes, CommonLemmas

SourceType == [slot : Key \cup {"any"}, dirty : Dirty]
EffectType == [dirty : Dirty, queued : BOOLEAN, sources : Seq(SourceType),
               stale : BOOLEAN, last : {"never", "skipped", "due", "undue"}]

HasDirty(x) == \E i \in DOMAIN x.sources : x.sources[i].dirty = "Dirty"
Reads(x, slots) == \E i \in DOMAIN x.sources : x.sources[i].slot \in slots

\* Of one effect x: b is the dirtiness of the scan, s whether a loose notification is queued.
\* While the scan is clean no binding is unresolved, and while it is not, none is clean.
EffectInv(b, s, x) ==
    /\ \A i \in DOMAIN x.sources : x.sources[i].slot \in Slots
    /\ x.queued <=> x.dirty # "Clean"
    /\ \A i \in DOMAIN x.sources : x.sources[i].dirty # "Clean" => x.dirty # "Clean"
    /\ b = "Clean" => \A i \in DOMAIN x.sources : x.sources[i].dirty # "MaybeDirty"
    /\ b # "Clean" => \A i \in DOMAIN x.sources : x.sources[i].dirty # "Clean"
    /\ x.dirty = "Dirty" \/ HasDirty(x) => x.stale
    /\ s /\ Reads(x, {"any"}) => x.stale
    /\ x.stale => x.dirty = "Dirty" \/ HasDirty(x) \/ (s /\ Reads(x, {"any"}))
    /\ x.last # "undue"

EffectsInv(b, s, eff) ==
    /\ eff \in [Effect -> EffectType]
    /\ \A e \in Effect : EffectInv(b, s, eff[e])

EffectsAreKnown == EffectsInv(binder, scheduled, effect)

FeedInv ==
    /\ kind \in Kind /\ binder \in Dirty /\ scheduled \in BOOLEAN /\ panicked # "asked"
    /\ ~Scanned => binder = "Clean"
    /\ scheduled => kind \in {"state", "derived"}
    /\ EffectsAreKnown

-----------------------------------------------------------------------------
(* What the operations on sinks do to one effect. *)

\* The same bindings, with other flags.
SameReads(y, x) ==
    /\ DOMAIN y.sources = DOMAIN x.sources
    /\ \A i \in DOMAIN x.sources : y.sources[i].slot = x.sources[i].slot

\* A sequence with an element in the place of each of another.
LEMMA Mapped ==
    ASSUME NEW S, NEW T, NEW s \in Seq(S), NEW t, DOMAIN t = DOMAIN s,
           t = [i \in DOMAIN s |-> t[i]], \A i \in DOMAIN s : t[i] \in T
    PROVE  t \in Seq(T)
<1>1. t \in [1 .. Len(s) -> T]
  OBVIOUS
<1> QED
  BY <1>1

MadeStale(y, x, slots) ==
    /\ y \in EffectType /\ y.sources = x.sources
    /\ y.dirty = x.dirty /\ y.queued = x.queued /\ y.last = x.last
    /\ y.stale <=> x.stale \/ Reads(x, slots)

LEMMA StaleIs ==
    ASSUME NEW eff \in [Effect -> EffectType], NEW slots
    PROVE  /\ Stale(eff, slots) \in [Effect -> EffectType]
           /\ \A e \in Effect : MadeStale(Stale(eff, slots)[e], eff[e], slots)
<1>1. ASSUME NEW f \in Effect
      PROVE  MadeStale(Stale(eff, slots)[f], eff[f], slots)
  <2>1. PICK x \in EffectType : x = eff[f]
    OBVIOUS
  <2>2. Stale(eff, slots)[f] = [x EXCEPT !.stale = x.stale \/ Reads(x, slots)]
    BY <2>1 DEF Stale, Reads
  <2>3. [x EXCEPT !.stale = x.stale \/ Reads(x, slots)] \in EffectType
    BY DEF EffectType
  <2> QED
    BY <2>1, <2>2, <2>3 DEF MadeStale, EffectType
<1> QED
  BY <1>1 DEF MadeStale, Stale

\* SinkBindings::update
SinksResolved(y, x, slots, isDirty) ==
    /\ y \in EffectType /\ SameReads(y, x)
    /\ y.dirty = x.dirty /\ y.queued = x.queued /\ y.last = x.last /\ y.stale = x.stale
    /\ \A i \in DOMAIN x.sources :
          y.sources[i].dirty = IF x.sources[i].slot \in slots /\ x.sources[i].dirty = "MaybeDirty"
                               THEN FromIsDirty(isDirty) ELSE x.sources[i].dirty

LEMMA SinksUpdatedIs ==
    ASSUME NEW eff \in [Effect -> EffectType], NEW slots, NEW isDirty \in BOOLEAN
    PROVE  /\ SinksUpdated(eff, slots, isDirty) \in [Effect -> EffectType]
           /\ \A e \in Effect :
                 SinksResolved(SinksUpdated(eff, slots, isDirty)[e], eff[e], slots, isDirty)
<1> DEFINE Told(s) == IF s.slot \in slots /\ s.dirty = "MaybeDirty"
                      THEN [s EXCEPT !.dirty = FromIsDirty(isDirty)] ELSE s
<1>1. ASSUME NEW s \in SourceType
      PROVE  /\ Told(s) \in SourceType /\ Told(s).slot = s.slot
             /\ Told(s).dirty = IF s.slot \in slots /\ s.dirty = "MaybeDirty"
                                THEN FromIsDirty(isDirty) ELSE s.dirty
  BY DEF SourceType, FromIsDirty, Dirty
<1>2. ASSUME NEW f \in Effect
      PROVE  SinksResolved(SinksUpdated(eff, slots, isDirty)[f], eff[f], slots, isDirty)
  <2>1. PICK x \in EffectType : x = eff[f]
    OBVIOUS
  <2>2. PICK t : t = [i \in DOMAIN x.sources |-> Told(x.sources[i])]
    OBVIOUS
  <2>3. SinksUpdated(eff, slots, isDirty)[f] = [x EXCEPT !.sources = t]
    BY <2>1, <2>2 DEF SinksUpdated
  <2>4. x.sources \in Seq(SourceType)
    BY DEF EffectType
  <2>5. \A i \in DOMAIN x.sources : x.sources[i] \in SourceType
    BY <2>4
  <2>6. t \in Seq(SourceType)
    <3> HIDE DEF Told
    <3> QED
      BY <1>1, <2>2, <2>4, <2>5, Mapped
  <2>7. [x EXCEPT !.sources = t] \in EffectType
    BY <2>6 DEF EffectType
  <2>8. SinksResolved([x EXCEPT !.sources = t], x, slots, isDirty)
    <3> HIDE DEF Told
    <3> QED
      BY <1>1, <2>2, <2>5, <2>7 DEF SinksResolved, SameReads, EffectType
  <2> QED
    BY <2>1, <2>3, <2>8
<1> QED
  BY <1>2 DEF SinksResolved, SinksUpdated

\* SinkBindings::notify
SinksTold(y, x, slots, level) ==
    /\ y \in EffectType /\ SameReads(y, x)
    /\ y.last = x.last /\ y.stale = x.stale
    /\ \A i \in DOMAIN x.sources :
          y.sources[i].dirty = IF x.sources[i].slot \in slots
                               THEN ApplyNotify(x.sources[i].dirty, level)
                               ELSE x.sources[i].dirty
    /\ LET hit == \E i \in DOMAIN x.sources :
                     x.sources[i].slot \in slots /\ NeedsNotify(x.sources[i].dirty)
       IN  /\ y.dirty = IF hit THEN ApplyNotify(x.dirty, level) ELSE x.dirty
           /\ y.queued <=> x.queued \/ (hit /\ NeedsNotify(x.dirty))

LEMMA NotifiedIs ==
    ASSUME NEW eff \in [Effect -> EffectType], NEW slots, NEW level \in DirtyLevel
    PROVE  /\ Notified(eff, slots, level) \in [Effect -> EffectType]
           /\ \A e \in Effect : SinksTold(Notified(eff, slots, level)[e], eff[e], slots, level)
<1> DEFINE Told(s) == IF s.slot \in slots THEN [s EXCEPT !.dirty = ApplyNotify(s.dirty, level)]
                      ELSE s
           Hit(x) == \E i \in DOMAIN x.sources :
                        x.sources[i].slot \in slots /\ NeedsNotify(x.sources[i].dirty)
<1>1. ASSUME NEW s \in SourceType
      PROVE  /\ Told(s) \in SourceType /\ Told(s).slot = s.slot
             /\ Told(s).dirty = IF s.slot \in slots THEN ApplyNotify(s.dirty, level) ELSE s.dirty
  BY DEF SourceType, ApplyNotify, Dirty, DirtyLevel
<1>2. ASSUME NEW f \in Effect
      PROVE  SinksTold(Notified(eff, slots, level)[f], eff[f], slots, level)
  <2>1. PICK x \in EffectType : x = eff[f]
    OBVIOUS
  <2>2. PICK t : t = [i \in DOMAIN x.sources |-> Told(x.sources[i])]
    OBVIOUS
  <2>3. PICK d, q : /\ d = IF Hit(x) THEN ApplyNotify(x.dirty, level) ELSE x.dirty
                    /\ q = (x.queued \/ (Hit(x) /\ NeedsNotify(x.dirty)))
    OBVIOUS
  <2>4. Notified(eff, slots, level)[f] = [x EXCEPT !.sources = t, !.dirty = d, !.queued = q]
    BY <2>1, <2>2, <2>3 DEF Notified
  <2>5. x.sources \in Seq(SourceType)
    BY DEF EffectType
  <2>6. \A i \in DOMAIN x.sources : x.sources[i] \in SourceType
    BY <2>5
  <2>7. t \in Seq(SourceType)
    <3> HIDE DEF Told
    <3> QED
      BY <1>1, <2>2, <2>5, <2>6, Mapped
  <2>8. d \in Dirty /\ q \in BOOLEAN
    <3> HIDE DEF Hit
    <3> QED
      BY <2>3 DEF EffectType, ApplyNotify, Dirty, DirtyLevel
  <2>9. [x EXCEPT !.sources = t, !.dirty = d, !.queued = q] \in EffectType
    BY <2>7, <2>8 DEF EffectType
  <2>10. SinksTold([x EXCEPT !.sources = t, !.dirty = d, !.queued = q], x, slots, level)
    <3> HIDE DEF Told
    <3> QED
      BY <1>1, <2>2, <2>3, <2>6, <2>9 DEF SinksTold, SameReads, EffectType
  <2> QED
    BY <2>1, <2>4, <2>10
<1> QED
  BY <1>2 DEF SinksTold, Notified
-----------------------------------------------------------------------------
(* An update of the node. *)

\* What an update leaves alone.
KeepsPlace(y, x) == y.dirty = x.dirty /\ y.last = x.last /\ SameReads(y, x)

\* The flags and history of an effect whose bindings are resolved as the slots in touched
\* say: dirty there, clean elsewhere.
LEMMA ResolvedEffect ==
    ASSUME NEW b \in Dirty \ {"Clean"}, NEW s \in BOOLEAN,
           NEW x \in EffectType, EffectInv(b, s, x), NEW y \in EffectType, NEW touched,
           KeepsPlace(y, x), y.queued = x.queued,
           y.stale <=> x.stale \/ Reads(x, touched),
           \A i \in DOMAIN x.sources :
               y.sources[i].dirty = IF x.sources[i].dirty # "MaybeDirty" THEN x.sources[i].dirty
                                    ELSE IF x.sources[i].slot \in touched THEN "Dirty" ELSE "Clean"
    PROVE  EffectInv("Clean", s, y)
<1>1. \A i \in DOMAIN x.sources : x.sources[i].dirty \in {"MaybeDirty", "Dirty"}
  <2>1. x.sources \in Seq(SourceType)
    BY DEF EffectType
  <2>2. \A i \in DOMAIN x.sources : x.sources[i] \in SourceType
    BY <2>1
  <2> QED
    BY <2>2 DEF EffectInv, SourceType, Dirty
<1>2. HasDirty(x) => HasDirty(y)
  BY DEF HasDirty, KeepsPlace, SameReads
<1>3. Reads(x, touched) => HasDirty(y)
  BY <1>1 DEF HasDirty, Reads, KeepsPlace, SameReads
<1>4. HasDirty(y) => HasDirty(x) \/ Reads(x, touched)
  BY DEF HasDirty, Reads, KeepsPlace, SameReads
<1>5. Reads(y, {"any"}) <=> Reads(x, {"any"})
  BY DEF Reads, KeepsPlace, SameReads
<1>6. \A i \in DOMAIN y.sources : y.sources[i].slot \in Slots /\ y.sources[i].dirty # "MaybeDirty"
  BY DEF EffectInv, KeepsPlace, SameReads
<1>7. \A i \in DOMAIN y.sources : y.sources[i].dirty # "Clean" => y.dirty # "Clean"
  BY <1>1 DEF EffectInv, KeepsPlace, SameReads
<1> QED
  BY <1>2, <1>3, <1>4, <1>5, <1>6, <1>7 DEF EffectInv, KeepsPlace

LEMMA ResolvedInv ==
    ASSUME NEW b \in Dirty \ {"Clean"}, NEW s \in BOOLEAN, NEW eff, EffectsInv(b, s, eff),
           kind \in Kind, Scanned, NEW keys \in EditKeys
    PROVE  /\ EffectsInv("Clean", s, Resolved(eff, keys))
           /\ \A e \in Effect : KeepsPlace(Resolved(eff, keys)[e], eff[e])
<1>1. PICK st : st = Stale(eff, Touched(keys))
  OBVIOUS
<1>2. eff \in [Effect -> EffectType]
  BY DEF EffectsInv
<1>3. st \in [Effect -> EffectType] /\ \A e \in Effect : MadeStale(st[e], eff[e], Touched(keys))
  BY <1>1, <1>2, StaleIs
<1>4. CASE kind = "slabscan"
  <2>1. PICK m : m = SinksUpdated(st, Touched(keys), TRUE)
    OBVIOUS
  <2>2. m \in [Effect -> EffectType]
        /\ \A e \in Effect : SinksResolved(m[e], st[e], Touched(keys), TRUE)
    BY <1>3, <2>1, SinksUpdatedIs
  <2>3. PICK r : r = SinksUpdated(m, Slots, FALSE)
    OBVIOUS
  <2>4. r \in [Effect -> EffectType]
        /\ \A e \in Effect : SinksResolved(r[e], m[e], Slots, FALSE)
    BY <2>2, <2>3, SinksUpdatedIs
  <2>5. Resolved(eff, keys) = r
    BY <1>1, <1>4, <2>1, <2>3 DEF Resolved, SetUpdated
  <2>6. ASSUME NEW e \in Effect
        PROVE  KeepsPlace(r[e], eff[e]) /\ EffectInv("Clean", s, r[e])
    <3>1. PICK x, u, v, y : x = eff[e] /\ u = st[e] /\ v = m[e] /\ y = r[e]
      OBVIOUS
    <3>2. x \in EffectType /\ y \in EffectType /\ EffectInv(b, s, x)
      BY <1>2, <2>4, <3>1 DEF EffectsInv
    <3>3. /\ MadeStale(u, x, Touched(keys)) /\ SinksResolved(v, u, Touched(keys), TRUE)
          /\ SinksResolved(y, v, Slots, FALSE)
      BY <1>3, <2>2, <2>4, <3>1
    <3>4. KeepsPlace(y, x) /\ y.queued = x.queued
      BY <3>3 DEF KeepsPlace, SameReads, MadeStale, SinksResolved
    <3>5. y.stale <=> x.stale \/ Reads(x, Touched(keys))
      BY <3>3 DEF MadeStale, SinksResolved
    <3>6. ASSUME NEW i \in DOMAIN x.sources
          PROVE  y.sources[i].dirty = IF x.sources[i].dirty # "MaybeDirty" THEN x.sources[i].dirty
                           ELSE IF x.sources[i].slot \in Touched(keys) THEN "Dirty" ELSE "Clean"
      <4>1. x.sources[i].slot \in Slots
        BY <3>2 DEF EffectInv
      <4> QED
        BY <3>3, <4>1 DEF MadeStale, SinksResolved, SameReads, FromIsDirty
    <3>7. EffectInv("Clean", s, y)
      BY <3>2, <3>4, <3>5, <3>6, ResolvedEffect
    <3> QED
      BY <3>1, <3>4, <3>7
  <2> QED
    BY <2>4, <2>5, <2>6 DEF EffectsInv
<1>5. CASE kind # "slabscan"
  <2>1. Slots = {"any"} /\ keys \in {{}, {"any"}}
    BY <1>5 DEF Slots, EditKeys, Kind, Scanned
  <2>2. PICK r : r = SinksUpdated(st, Slots, keys # {})
    OBVIOUS
  <2>3. r \in [Effect -> EffectType]
        /\ \A e \in Effect : SinksResolved(r[e], st[e], Slots, keys # {})
    BY <1>3, <2>2, SinksUpdatedIs
  <2>4. Resolved(eff, keys) = r
    BY <1>1, <1>5, <2>2 DEF Resolved
  <2>5. ASSUME NEW e \in Effect
        PROVE  KeepsPlace(r[e], eff[e]) /\ EffectInv("Clean", s, r[e])
    <3>1. PICK x, u, y : x = eff[e] /\ u = st[e] /\ y = r[e]
      OBVIOUS
    <3>2. x \in EffectType /\ y \in EffectType /\ EffectInv(b, s, x)
      BY <1>2, <2>3, <3>1 DEF EffectsInv
    <3>3. MadeStale(u, x, Touched(keys)) /\ SinksResolved(y, u, Slots, keys # {})
      BY <1>3, <2>3, <3>1
    <3>4. KeepsPlace(y, x) /\ y.queued = x.queued
      BY <3>3 DEF KeepsPlace, SameReads, MadeStale, SinksResolved
    <3>5. y.stale <=> x.stale \/ Reads(x, Touched(keys))
      BY <3>3 DEF MadeStale, SinksResolved
    <3>6. ASSUME NEW i \in DOMAIN x.sources
          PROVE  y.sources[i].dirty = IF x.sources[i].dirty # "MaybeDirty" THEN x.sources[i].dirty
                           ELSE IF x.sources[i].slot \in Touched(keys) THEN "Dirty" ELSE "Clean"
      <4>1. x.sources[i].slot \in Slots
        BY <3>2 DEF EffectInv
      <4> QED
        BY <2>1, <3>3, <4>1 DEF MadeStale, SinksResolved, SameReads, FromIsDirty, Touched
    <3>7. EffectInv("Clean", s, y)
      BY <3>2, <3>4, <3>5, <3>6, ResolvedEffect
    <3> QED
      BY <3>1, <3>4, <3>7
  <2> QED
    BY <2>3, <2>4, <2>5 DEF EffectsInv
<1> QED
  BY <1>4, <1>5

\* StateNode::update, ScanNode::update, Scan::update: the node is clean and no binding is
\* unresolved.
LEMMA UpdatedInv ==
    ASSUME FeedInv, NEW b \in Dirty, NEW eff, EffectsInv(b, scheduled, eff),
           ~Scanned => b = "Clean", NEW o \in ScanOutcome
    PROVE  LET n == Updated([binder |-> b, effect |-> eff], o)
           IN  /\ n.binder = "Clean"
               /\ n = [binder |-> n.binder, effect |-> n.effect]
               /\ EffectsInv("Clean", scheduled, n.effect)
               /\ \A e \in Effect : KeepsPlace(n.effect[e], eff[e])
<1>1. PICK n : n = Updated([binder |-> b, effect |-> eff], o)
  OBVIOUS
<1>2. CASE b = "Clean"
  <2>1. n = [binder |-> b, effect |-> eff]
    BY <1>1, <1>2 DEF Updated
  <2> QED
    BY <1>1, <1>2, <2>1 DEF KeepsPlace, SameReads
<1>3. CASE b # "Clean"
  <2>1. PICK keys : keys = IF b = "Dirty" \/ o.changed THEN o.keys ELSE {}
    OBVIOUS
  <2>2. n = [binder |-> "Clean", effect |-> Resolved(eff, keys)]
    BY <1>1, <1>3, <2>1 DEF Updated
  <2>3. {} \in EditKeys
    BY <1>3 DEF FeedInv, EditKeys, Kind, Scanned
  <2>4. keys \in EditKeys
    BY <2>1, <2>3 DEF ScanOutcome
  <2>5. /\ EffectsInv("Clean", scheduled, Resolved(eff, keys))
        /\ \A e \in Effect : KeepsPlace(Resolved(eff, keys)[e], eff[e])
    <3>1. kind \in Kind /\ Scanned /\ scheduled \in BOOLEAN
      BY <1>3 DEF FeedInv
    <3> QED
      BY <1>3, <2>4, <3>1, ResolvedInv
  <2> QED
    BY <1>1, <2>2, <2>5
<1> QED
  BY <1>2, <1>3
-----------------------------------------------------------------------------
(* Edits. *)

\* The readers of what has changed are stale and told so; a notification that was queued
\* need not wait any longer if it was this one.
LEMMA ToldEffect ==
    ASSUME NEW b \in Dirty, NEW s \in BOOLEAN, NEW t \in BOOLEAN, NEW slots,
           t = s \/ (t = FALSE /\ slots = {"any"}),
           NEW x \in EffectType, EffectInv(b, s, x), NEW u \in EffectType, NEW y \in EffectType,
           MadeStale(u, x, slots), SinksTold(y, u, slots, "Dirty")
    PROVE  EffectInv(b, t, y)
<1>1. \A i \in DOMAIN x.sources : x.sources[i].dirty \in Dirty
  <2>1. x.sources \in Seq(SourceType)
    BY DEF EffectType
  <2>2. \A i \in DOMAIN x.sources : x.sources[i] \in SourceType
    BY <2>1
  <2> QED
    BY <2>2 DEF SourceType
<1>2. /\ SameReads(y, x) /\ y.last = x.last
      /\ y.stale <=> x.stale \/ Reads(x, slots)
      /\ \A i \in DOMAIN x.sources : y.sources[i].dirty = IF x.sources[i].slot \in slots
                                                          THEN "Dirty" ELSE x.sources[i].dirty
  BY DEF MadeStale, SinksTold, SameReads, ApplyNotify
<1>3. Reads(x, slots) => HasDirty(y)
  BY <1>2 DEF Reads, HasDirty, SameReads
<1>4. HasDirty(y) => HasDirty(x) \/ Reads(x, slots)
  BY <1>2 DEF Reads, HasDirty, SameReads
<1>5. HasDirty(x) => HasDirty(y)
  BY <1>2 DEF HasDirty, SameReads
<1>6. Reads(y, {"any"}) <=> Reads(x, {"any"})
  BY <1>2 DEF Reads, SameReads
<1>7. \/ y.dirty = x.dirty /\ (y.queued <=> x.queued)
      \/ y.dirty = "Dirty" /\ y.queued /\ Reads(x, slots)
  <2>1. x.queued <=> x.dirty # "Clean"
    BY DEF EffectInv
  <2> QED
    BY <2>1 DEF MadeStale, SinksTold, Reads, ApplyNotify, NeedsNotify
<1>8. \A i \in DOMAIN y.sources : y.sources[i].slot \in Slots
  BY <1>2 DEF SameReads, EffectInv
<1>9. \A i \in DOMAIN y.sources : y.sources[i].dirty # "Clean" => y.dirty # "Clean"
  <2> SUFFICES ASSUME NEW i \in DOMAIN x.sources, y.sources[i].dirty # "Clean"
               PROVE  y.dirty # "Clean"
    BY <1>2 DEF SameReads
  <2>1. CASE x.sources[i].dirty # "Clean"
    BY <1>7, <2>1 DEF EffectInv
  <2>2. CASE x.sources[i].dirty = "Clean"
    <3>1. x.sources[i].slot \in slots
      BY <1>2, <2>2
    <3> QED
      BY <2>2, <3>1 DEF MadeStale, SinksTold, ApplyNotify, NeedsNotify
  <2> QED
    BY <2>1, <2>2
<1>10. /\ b = "Clean" => \A i \in DOMAIN y.sources : y.sources[i].dirty # "MaybeDirty"
       /\ b # "Clean" => \A i \in DOMAIN y.sources : y.sources[i].dirty # "Clean"
  BY <1>2 DEF SameReads, EffectInv
<1>11. y.dirty = "Dirty" \/ HasDirty(y) => y.stale
  BY <1>2, <1>4, <1>7 DEF EffectInv
<1>12. y.stale => y.dirty = "Dirty" \/ HasDirty(y) \/ (t /\ Reads(y, {"any"}))
  BY <1>2, <1>3, <1>5, <1>6, <1>7 DEF EffectInv
<1>13. t /\ Reads(y, {"any"}) => y.stale
  BY <1>2, <1>6 DEF EffectInv
<1> QED
  BY <1>2, <1>7, <1>8, <1>9, <1>10, <1>11, <1>12, <1>13 DEF EffectInv

LEMMA NodeIs ==
    ASSUME FeedInv, NEW o \in ScanOutcome
    PROVE  /\ Updated(Node, o).binder = "Clean"
           /\ EffectsInv("Clean", scheduled, Updated(Node, o).effect)
           /\ \A e \in Effect : KeepsPlace(Updated(Node, o).effect[e], effect[e])
<1>1. binder \in Dirty /\ EffectsInv(binder, scheduled, effect) /\ (~Scanned => binder = "Clean")
  BY DEF FeedInv, EffectsAreKnown
<1>2. Node = [binder |-> binder, effect |-> effect]
  BY DEF Node
<1> QED
  BY <1>1, <1>2, UpdatedInv

LEMMA EditPreservesInv ==
    ASSUME FeedInv, NEW o \in ScanOutcome, NEW keys \in EditKeys, Edit(o, keys)
    PROVE  FeedInv'
<1>1. PICK n, st, eff : /\ n = Updated(Node, o) /\ st = Stale(n.effect, Touched(keys))
                        /\ eff = Notified(st, Touched(keys), "Dirty")
  OBVIOUS
<1>2. /\ binder' = n.binder /\ effect' = eff /\ kind' = kind /\ panicked' = panicked
      /\ scheduled' = scheduled
  BY <1>1 DEF Edit
<1>3. n.binder = "Clean" /\ EffectsInv("Clean", scheduled, n.effect)
  BY <1>1, NodeIs
<1>4. st \in [Effect -> EffectType] /\ \A e \in Effect : MadeStale(st[e], n.effect[e], Touched(keys))
  BY <1>1, <1>3, StaleIs DEF EffectsInv
<1>5. eff \in [Effect -> EffectType]
      /\ \A e \in Effect : SinksTold(eff[e], st[e], Touched(keys), "Dirty")
  <2>1. "Dirty" \in DirtyLevel
    BY DEF DirtyLevel
  <2> QED
    BY <1>1, <1>4, <2>1, NotifiedIs
<1>6. EffectsInv("Clean", scheduled, eff)
  <2>1. ASSUME NEW e \in Effect
        PROVE  EffectInv("Clean", scheduled, eff[e])
    <3>1. PICK x, u, y : x = n.effect[e] /\ u = st[e] /\ y = eff[e]
      OBVIOUS
    <3>2. x \in EffectType /\ u \in EffectType /\ y \in EffectType
      BY <1>3, <1>4, <1>5, <3>1 DEF EffectsInv
    <3>3. EffectInv("Clean", scheduled, x) /\ scheduled \in BOOLEAN /\ "Clean" \in Dirty
      BY <1>3, <3>1 DEF EffectsInv, Dirty, FeedInv
    <3>4. MadeStale(u, x, Touched(keys)) /\ SinksTold(y, u, Touched(keys), "Dirty")
      BY <1>4, <1>5, <3>1
    <3>5. EffectInv("Clean", scheduled, y)
      BY <3>2, <3>3, <3>4, ToldEffect
    <3> QED
      BY <3>1, <3>5
  <2> QED
    BY <1>5, <2>1 DEF EffectsInv
<1>7. EffectsAreKnown'
  BY <1>2, <1>3, <1>6 DEF EffectsAreKnown, EffectsInv, EffectInv, Slots
<1> QED
  BY <1>2, <1>3, <1>7 DEF FeedInv, Scanned, Dirty

LEMMA LooseEditPreservesInv ==
    ASSUME FeedInv, NEW o \in ScanOutcome, NEW keys \in EditKeys, LooseEdit(o, keys)
    PROVE  FeedInv'
<1>1. PICK n, st, t : /\ n = Updated(Node, o) /\ st = Stale(n.effect, Touched(keys))
                      /\ t = (scheduled \/ keys # {})
  OBVIOUS
<1>2. /\ binder' = n.binder /\ effect' = st /\ kind' = kind /\ panicked' = panicked
      /\ scheduled' = t /\ kind \in {"state", "derived"}
  BY <1>1 DEF LooseEdit
<1>3. n.binder = "Clean" /\ EffectsInv("Clean", scheduled, n.effect)
  BY <1>1, NodeIs
<1>4. st \in [Effect -> EffectType] /\ \A e \in Effect : MadeStale(st[e], n.effect[e], Touched(keys))
  BY <1>1, <1>3, StaleIs DEF EffectsInv
<1>5. Touched(keys) = IF keys = {} THEN {} ELSE {"any"}
  BY <1>2 DEF Touched, EditKeys
<1>6. EffectsInv("Clean", t, st)
  <2>1. ASSUME NEW e \in Effect
        PROVE  EffectInv("Clean", t, st[e])
    <3>1. PICK x, y : x = n.effect[e] /\ y = st[e]
      OBVIOUS
    <3>2. EffectInv("Clean", scheduled, x) /\ MadeStale(y, x, Touched(keys))
      BY <1>3, <1>4, <3>1 DEF EffectsInv
    <3>3. Reads(x, Touched(keys)) <=> keys # {} /\ Reads(x, {"any"})
      BY <1>5 DEF Reads
    <3>4. /\ HasDirty(y) <=> HasDirty(x)
          /\ Reads(y, {"any"}) <=> Reads(x, {"any"})
      BY <3>2 DEF HasDirty, Reads, MadeStale
    <3>5. EffectInv("Clean", t, y)
      BY <1>1, <3>2, <3>3, <3>4 DEF EffectInv, MadeStale
    <3> QED
      BY <3>1, <3>5
  <2> QED
    BY <1>4, <2>1 DEF EffectsInv
<1>7. EffectsAreKnown'
  BY <1>2, <1>3, <1>6 DEF EffectsAreKnown, EffectsInv, EffectInv, Slots
<1> QED
  BY <1>1, <1>2, <1>3, <1>7 DEF FeedInv, Scanned, Dirty

LEMMA DeliverPreservesInv ==
    ASSUME FeedInv, Deliver
    PROVE  FeedInv'
<1>1. PICK eff : eff = Notified(effect, {"any"}, "Dirty")
  OBVIOUS
<1>2. /\ effect' = eff /\ scheduled' = FALSE /\ scheduled
      /\ kind' = kind /\ panicked' = panicked /\ binder' = binder
  BY <1>1 DEF Deliver
<1>3. eff \in [Effect -> EffectType] /\ \A e \in Effect : SinksTold(eff[e], effect[e], {"any"}, "Dirty")
  <2>1. "Dirty" \in DirtyLevel
    BY DEF DirtyLevel
  <2> QED
    BY <1>1, <2>1, NotifiedIs DEF FeedInv, EffectsAreKnown, EffectsInv
<1>4. EffectsInv(binder, FALSE, eff)
  <2>1. ASSUME NEW e \in Effect
        PROVE  EffectInv(binder, FALSE, eff[e])
    <3>1. PICK x, y : x = effect[e] /\ y = eff[e]
      OBVIOUS
    <3>2. x \in EffectType /\ y \in EffectType
      BY <1>3, <3>1 DEF FeedInv, EffectsAreKnown, EffectsInv
    <3>3. EffectInv(binder, TRUE, x) /\ binder \in Dirty
      BY <1>2, <3>1 DEF FeedInv, EffectsAreKnown, EffectsInv
    <3>4. MadeStale(x, x, {"any"})
      BY <3>2, <3>3 DEF MadeStale, EffectInv
    <3>5. EffectInv(binder, FALSE, y)
      BY <1>3, <3>1, <3>2, <3>3, <3>4, ToldEffect
    <3> QED
      BY <3>1, <3>5
  <2> QED
    BY <1>3, <2>1 DEF EffectsInv
<1>5. EffectsAreKnown'
  BY <1>2, <1>4 DEF EffectsAreKnown, EffectsInv, EffectInv, Slots
<1> QED
  BY <1>2, <1>5 DEF FeedInv, Scanned
-----------------------------------------------------------------------------
(* The source, reads and runs. *)

\* Who is told that the node may have changed.
LEMMA WarnedEffect ==
    ASSUME NEW b \in DirtyLevel, NEW s \in BOOLEAN, NEW x \in EffectType,
           EffectInv("Clean", s, x), NEW y \in EffectType, SinksTold(y, x, Slots, "MaybeDirty")
    PROVE  EffectInv(b, s, y)
<1>1. \A i \in DOMAIN x.sources : x.sources[i].slot \in Slots /\ x.sources[i].dirty \in {"Clean", "Dirty"}
  <2>1. x.sources \in Seq(SourceType)
    BY DEF EffectType
  <2>2. \A i \in DOMAIN x.sources : x.sources[i] \in SourceType
    BY <2>1
  <2> QED
    BY <2>2 DEF SourceType, Dirty, EffectInv
<1>2. \A i \in DOMAIN x.sources :
          y.sources[i].dirty = IF x.sources[i].dirty = "Clean" THEN "MaybeDirty" ELSE "Dirty"
  BY <1>1 DEF SinksTold, ApplyNotify
<1>3. SameReads(y, x) /\ y.last = x.last /\ (y.stale <=> x.stale)
  BY DEF SinksTold
<1>4. HasDirty(y) <=> HasDirty(x)
  BY <1>1, <1>2, <1>3 DEF HasDirty, SameReads
<1>5. Reads(y, {"any"}) <=> Reads(x, {"any"})
  BY <1>3 DEF Reads, SameReads
<1>6. /\ y.dirty = "Dirty" <=> x.dirty = "Dirty"
      /\ x.dirty # "Clean" => y.dirty # "Clean"
      /\ y.queued <=> y.dirty # "Clean"
  BY DEF SinksTold, ApplyNotify, NeedsNotify, EffectInv
<1>7. \A i \in DOMAIN x.sources : y.dirty # "Clean"
  <2> SUFFICES ASSUME NEW i \in DOMAIN x.sources
               PROVE  y.dirty # "Clean"
    OBVIOUS
  <2>1. CASE x.sources[i].dirty = "Clean"
    BY <1>1, <2>1 DEF SinksTold, ApplyNotify, NeedsNotify
  <2>2. CASE x.sources[i].dirty # "Clean"
    BY <1>6, <2>2 DEF EffectInv
  <2> QED
    BY <2>1, <2>2
<1>8. \A i \in DOMAIN y.sources : y.sources[i].slot \in Slots /\ y.sources[i].dirty # "Clean"
  BY <1>1, <1>2, <1>3 DEF SameReads
<1>9. \A i \in DOMAIN y.sources : y.sources[i].dirty # "Clean" => y.dirty # "Clean"
  BY <1>3, <1>7 DEF SameReads
<1>10. b # "Clean"
  BY DEF DirtyLevel
<1> QED
  BY <1>3, <1>4, <1>5, <1>6, <1>8, <1>9, <1>10 DEF EffectInv

LEMMA NotifyPreservesInv ==
    ASSUME FeedInv, NEW level \in DirtyLevel, SourceNotifies(level)
    PROVE  FeedInv'
<1>1. PICK b, eff : /\ b = ApplyNotify(binder, level)
                    /\ eff = IF NeedsNotify(binder) THEN Notified(effect, Slots, "MaybeDirty")
                             ELSE effect
  OBVIOUS
<1>2. /\ binder' = b /\ effect' = eff /\ Scanned
      /\ kind' = kind /\ panicked' = panicked /\ scheduled' = scheduled
  BY <1>1 DEF SourceNotifies, Becomes
<1>3. b \in DirtyLevel
  BY <1>1 DEF FeedInv, ApplyNotify, Dirty, DirtyLevel
<1>4. EffectsInv(binder, scheduled, effect) /\ scheduled \in BOOLEAN /\ binder \in Dirty
  BY DEF FeedInv, EffectsAreKnown
<1>5. EffectsInv(b, scheduled, eff)
  <2>1. CASE NeedsNotify(binder)
    <3>1. eff \in [Effect -> EffectType]
          /\ \A e \in Effect : SinksTold(eff[e], effect[e], Slots, "MaybeDirty")
      <4>1. "MaybeDirty" \in DirtyLevel
        BY DEF DirtyLevel
      <4>2. effect \in [Effect -> EffectType]
        BY <1>4 DEF EffectsInv
      <4> QED
        BY <1>1, <2>1, <4>1, <4>2, NotifiedIs
    <3>2. ASSUME NEW e \in Effect
          PROVE  EffectInv(b, scheduled, eff[e])
      <4>1. PICK x, y : x = effect[e] /\ y = eff[e]
        OBVIOUS
      <4>2. x \in EffectType /\ y \in EffectType /\ EffectInv("Clean", scheduled, x)
        BY <1>4, <2>1, <3>1, <4>1 DEF EffectsInv, NeedsNotify
      <4>3. EffectInv(b, scheduled, y)
        BY <1>3, <1>4, <3>1, <4>1, <4>2, WarnedEffect
      <4> QED
        BY <4>1, <4>3
    <3> QED
      BY <3>1, <3>2 DEF EffectsInv
  <2>2. CASE ~NeedsNotify(binder)
    <3>1. eff = effect /\ b # "Clean" /\ binder # "Clean"
      BY <1>1, <1>3, <2>2 DEF NeedsNotify, DirtyLevel
    <3> QED
      BY <1>4, <3>1 DEF EffectsInv, EffectInv
  <2> QED
    BY <2>1, <2>2
<1>6. EffectsAreKnown'
  BY <1>2, <1>5 DEF EffectsAreKnown, EffectsInv, EffectInv, Slots
<1> QED
  BY <1>2, <1>3, <1>6 DEF FeedInv, Scanned, Dirty, DirtyLevel

LEMMA WatchPreservesInv ==
    ASSUME FeedInv, NEW o \in ScanOutcome, Watch(o)
    PROVE  FeedInv'
<1>1. PICK n : n = Updated(Node, o)
  OBVIOUS
<1>2. /\ binder' = n.binder /\ effect' = n.effect
      /\ kind' = kind /\ panicked' = panicked /\ scheduled' = scheduled
  BY <1>1 DEF Watch, Becomes
<1>3. n.binder = "Clean" /\ EffectsInv("Clean", scheduled, n.effect)
  BY <1>1, NodeIs
<1>4. EffectsAreKnown'
  BY <1>2, <1>3 DEF EffectsAreKnown, EffectsInv, EffectInv, Slots
<1> QED
  BY <1>2, <1>3, <1>4 DEF FeedInv, Scanned, Dirty

LEMMA FirstUncleanIs ==
    ASSUME NEW s \in Seq(SourceType)
    PROVE  LET i == FirstUnclean(s)
           IN  \/ i = 0 /\ \A j \in DOMAIN s : s[j].dirty = "Clean"
               \/ i \in DOMAIN s /\ i # 0 /\ s[i].dirty # "Clean"
<1> DEFINE I == {i \in 1 .. Len(s) : s[i].dirty # "Clean"}
<1>1. FirstUnclean(s) = IF I # {} THEN Min(I) ELSE 0
  BY DEF FirstUnclean, SelectInSeq
<1>2. CASE I = {}
  BY <1>1, <1>2
<1>3. CASE I # {}
  <2>1. I \in SUBSET Nat
    OBVIOUS
  <2>2. \E m \in I : \A k \in I : m <= k
    <3> HIDE DEF I
    <3> QED
      BY <1>3, <2>1, LeastNat
  <2>3. Min(I) \in I
    <3> HIDE DEF I
    <3> QED
      BY <2>2 DEF Min
  <2> QED
    BY <1>1, <1>3, <2>3
<1> QED
  BY <1>2, <1>3
\* The node when the sources of e have been asked, if they had to be.
Asked(e, o) == IF effect[e].dirty = "MaybeDirty" THEN Updated(Node, o) ELSE Node

LEMMA AskedIs ==
    ASSUME FeedInv, NEW o \in ScanOutcome, NEW e \in Effect
    PROVE  LET n == Asked(e, o)
           IN  /\ n = [binder |-> n.binder, effect |-> n.effect]
               /\ EffectsInv(n.binder, scheduled, n.effect)
               /\ \A f \in Effect : KeepsPlace(n.effect[f], effect[f])
               /\ n.binder = "Clean" \/ (n.binder = binder /\ effect[e].dirty # "MaybeDirty")
<1>1. binder \in Dirty /\ EffectsInv(binder, scheduled, effect) /\ (~Scanned => binder = "Clean")
  BY DEF FeedInv, EffectsAreKnown
<1>2. Node = [binder |-> binder, effect |-> effect]
  BY DEF Node
<1>3. CASE effect[e].dirty = "MaybeDirty"
  <2>1. PICK n : n = Updated(Node, o)
    OBVIOUS
  <2>2. /\ n.binder = "Clean" /\ n = [binder |-> n.binder, effect |-> n.effect]
        /\ EffectsInv("Clean", scheduled, n.effect)
        /\ \A f \in Effect : KeepsPlace(n.effect[f], effect[f])
    BY <1>1, <1>2, <2>1, UpdatedInv
  <2>3. Asked(e, o) = n
    BY <1>3, <2>1 DEF Asked
  <2> QED
    BY <2>2, <2>3
<1>4. CASE effect[e].dirty # "MaybeDirty"
  <2>1. Asked(e, o) = [binder |-> binder, effect |-> effect]
    BY <1>2, <1>4 DEF Asked
  <2> QED
    BY <1>1, <1>4, <2>1 DEF KeepsPlace, SameReads
<1> QED
  BY <1>3, <1>4

\* What a check finds: nothing unresolved, and a change exactly if there was one.
LEMMA CheckIsExact ==
    ASSUME FeedInv, NEW o \in ScanOutcome, NEW e \in Effect, effect[e].queued, ~scheduled
    PROVE  LET n == Asked(e, o)
           IN  /\ Asks(e, n) \in {"Clean", "Dirty"}
               /\ Asks(e, n) = "Dirty" <=> n.effect[e].stale
               /\ Asks(e, n) = "Dirty" => n.effect[e].dirty = "Dirty" \/ n.binder = "Clean"
               /\ Asks(e, n) = "Clean" =>
                     \A i \in DOMAIN n.effect[e].sources : n.effect[e].sources[i].dirty = "Clean"
<1>1. PICK n, x : n = Asked(e, o) /\ x = n.effect[e]
  OBVIOUS
<1>2. /\ EffectsInv(n.binder, scheduled, n.effect) /\ KeepsPlace(x, effect[e])
      /\ n.binder = "Clean" \/ effect[e].dirty # "MaybeDirty"
  BY <1>1, AskedIs
<1>3. EffectInv(n.binder, FALSE, x) /\ x \in EffectType
  BY <1>1, <1>2 DEF EffectsInv, FeedInv
<1>4. EffectInv(binder, FALSE, effect[e]) /\ effect[e] \in EffectType
  BY DEF FeedInv, EffectsAreKnown, EffectsInv
<1>5. x.dirty = effect[e].dirty /\ x.dirty \in {"MaybeDirty", "Dirty"}
  BY <1>2, <1>4 DEF KeepsPlace, EffectInv, EffectType, Dirty
<1>6. CASE x.dirty = "Dirty"
  <2>1. Asks(e, n) = "Dirty" /\ x.stale
    BY <1>1, <1>3, <1>6 DEF Asks, EffectInv
  <2> QED
    BY <1>1, <1>6, <2>1
<1>7. CASE x.dirty = "MaybeDirty"
  <2>1. PICK i : i = FirstUnclean(x.sources)
    OBVIOUS
  <2>2. x.sources \in Seq(SourceType)
    BY <1>3 DEF EffectType
  <2>3. \/ i = 0 /\ \A j \in DOMAIN x.sources : x.sources[j].dirty = "Clean"
        \/ i \in DOMAIN x.sources /\ i # 0 /\ x.sources[i].dirty # "Clean"
    BY <2>1, <2>2, FirstUncleanIs
  <2>4. Asks(e, n) = IF i = 0 THEN "Clean" ELSE x.sources[i].dirty
    BY <1>1, <1>7, <2>1 DEF Asks
  <2>5. n.binder = "Clean"
    BY <1>2, <1>5, <1>7
  <2>6. CASE i = 0
    <3>1. ~HasDirty(x)
      BY <2>3, <2>6 DEF HasDirty
    <3>2. ~x.stale
      BY <1>3, <1>7, <3>1 DEF EffectInv
    <3> QED
      BY <1>1, <2>3, <2>4, <2>6, <3>2
  <2>7. CASE i # 0
    <3>1. x.sources[i].dirty = "Dirty"
      <4>1. x.sources[i] \in SourceType
        BY <2>2, <2>3, <2>7
      <4> QED
        BY <1>3, <2>3, <2>5, <2>7, <4>1 DEF EffectInv, SourceType, Dirty
    <3>2. x.stale
      BY <1>3, <2>3, <2>7, <3>1 DEF EffectInv, HasDirty
    <3> QED
      BY <1>1, <2>4, <2>5, <2>7, <3>1, <3>2
  <2> QED
    BY <2>6, <2>7
<1> QED
  BY <1>5, <1>6, <1>7

\* The three ends of the dispatch of an effect's reaction.
LEMMA RunPreservesInv ==
    ASSUME FeedInv, NEW o \in ScanOutcome, NEW e \in Effect,
           NEW reads \in BoundedSeq(Slots, MaxReads), RunEffect(e, o, reads), MaxReads \in Nat
    PROVE  FeedInv'
<1>1. PICK n : n = Asked(e, o)
  OBVIOUS
<1>2. PICK m : m = IF reads # <<>> THEN Updated(n, o) ELSE n
  OBVIOUS
<1>3. PICK due, old : due = Asks(e, n) /\ old = m.effect[e].sources
  OBVIOUS
<1>4. PICK ran : ran = [dirty |-> "Clean", queued |-> FALSE, stale |-> FALSE,
                        sources |-> Bound(old, reads),
                        last |-> IF m.effect[e].stale THEN "due" ELSE "undue"]
  OBVIOUS
<1>5. /\ effect[e].queued /\ ~scheduled /\ kind' = kind /\ scheduled' = scheduled
      /\ \/ /\ due = "MaybeDirty" /\ panicked' = "asked"
         \/ /\ due = "Clean" /\ UNCHANGED panicked
            /\ Becomes([n EXCEPT !.effect[e].dirty = "Clean", !.effect[e].queued = FALSE,
                                 !.effect[e].last = "skipped"])
         \/ /\ due = "Dirty" /\ panicked' \in {"borrow", "no"}
            /\ Becomes([m EXCEPT !.effect[e] = ran])
  BY <1>1, <1>2, <1>3, <1>4 DEF RunEffect, Asked
<1>6. /\ n = [binder |-> n.binder, effect |-> n.effect]
      /\ EffectsInv(n.binder, scheduled, n.effect)
      /\ n.binder = "Clean" \/ n.binder = binder
  BY <1>1, AskedIs
<1>7. /\ due \in {"Clean", "Dirty"}
      /\ due = "Dirty" <=> n.effect[e].stale
      /\ due = "Dirty" => n.effect[e].dirty = "Dirty" \/ n.binder = "Clean"
      /\ due = "Clean" =>
            \A i \in DOMAIN n.effect[e].sources : n.effect[e].sources[i].dirty = "Clean"
  BY <1>1, <1>3, <1>5, CheckIsExact
<1>8. /\ kind \in Kind /\ binder \in Dirty /\ scheduled \in BOOLEAN /\ panicked # "asked"
      /\ ~Scanned => binder = "Clean"
      /\ scheduled = FALSE
  BY <1>5 DEF FeedInv
<1>9. CASE due = "Clean"
  <2>1. PICK x : x = n.effect[e]
    OBVIOUS
  <2>2. PICK y : y = [x EXCEPT !.dirty = "Clean", !.queued = FALSE, !.last = "skipped"]
    OBVIOUS
  <2>3. /\ binder' = n.binder /\ effect' = [n.effect EXCEPT ![e] = y] /\ panicked' = panicked
    BY <1>5, <1>6, <1>9, <2>1, <2>2 DEF Becomes
  <2>4. x \in EffectType /\ EffectInv(n.binder, FALSE, x)
    BY <1>6, <1>8, <2>1 DEF EffectsInv
  <2>5. y \in EffectType
    BY <2>2, <2>4 DEF EffectType, Dirty
  <2>6. EffectInv(n.binder, FALSE, y)
    <3>1. /\ y.dirty = "Clean" /\ ~y.queued /\ y.last = "skipped"
          /\ y.sources = x.sources /\ (y.stale <=> x.stale)
      BY <2>2, <2>4 DEF EffectType
    <3>2. ~x.stale /\ \A i \in DOMAIN x.sources : x.sources[i].dirty = "Clean"
      BY <1>7, <1>9, <2>1
    <3> QED
      BY <2>4, <3>1, <3>2 DEF EffectInv, HasDirty, Reads
  <2>7. EffectsInv(n.binder, FALSE, effect')
    BY <1>6, <1>8, <2>3, <2>5, <2>6 DEF EffectsInv
  <2>8. EffectsAreKnown'
    BY <1>5, <1>8, <2>3, <2>7 DEF EffectsAreKnown, EffectsInv, EffectInv, Slots
  <2>9. n.binder \in Dirty /\ (~Scanned => n.binder = "Clean")
    BY <1>6, <1>8 DEF Dirty
  <2> QED
    BY <1>5, <1>8, <2>3, <2>8, <2>9 DEF FeedInv, Scanned
<1>10. CASE due = "Dirty"
  <2>1. /\ m = [binder |-> m.binder, effect |-> m.effect]
        /\ EffectsInv(m.binder, FALSE, m.effect)
        /\ m.binder \in Dirty /\ (~Scanned => m.binder = "Clean")
        /\ reads # <<>> => m.binder = "Clean"
        /\ m.effect[e].stale
    <3>1. n.binder \in Dirty /\ (~Scanned => n.binder = "Clean")
      BY <1>6, <1>8 DEF Dirty
    <3>2. CASE reads # <<>>
      <4>1. n = [binder |-> n.binder, effect |-> n.effect]
        BY <1>6
      <4>2. PICK b, eff : b = n.binder /\ eff = n.effect
        OBVIOUS
      <4>3. m = Updated([binder |-> b, effect |-> eff], o)
        BY <1>2, <3>2, <4>1, <4>2
      <4>4. /\ m.binder = "Clean" /\ m = [binder |-> m.binder, effect |-> m.effect]
            /\ EffectsInv("Clean", scheduled, m.effect)
            /\ \A f \in Effect : KeepsPlace(m.effect[f], eff[f])
        <5>1. b \in Dirty /\ EffectsInv(b, scheduled, eff) /\ (~Scanned => b = "Clean")
          BY <1>6, <3>1, <4>2
        <5> QED
          BY <4>3, <5>1, UpdatedInv
      <4>5. m.effect[e].stale
        <5>1. CASE eff[e].dirty = "Dirty"
          <6>1. m.effect[e].dirty = "Dirty" /\ EffectInv("Clean", scheduled, m.effect[e])
            BY <4>4, <5>1 DEF KeepsPlace, EffectsInv
          <6> QED
            BY <6>1 DEF EffectInv
        <5>2. CASE b = "Clean"
          <6>1. m = n
            BY <4>1, <4>2, <4>3, <5>2 DEF Updated
          <6> QED
            BY <1>7, <1>10, <6>1
        <5> QED
          BY <1>7, <1>10, <4>2, <5>1, <5>2
      <4> QED
        BY <1>8, <4>4, <4>5 DEF Dirty
    <3>3. CASE reads = <<>>
      BY <1>2, <1>6, <1>7, <1>8, <1>10, <3>1, <3>3
    <3> QED
      BY <3>2, <3>3
  <2>2. /\ binder' = m.binder /\ effect' = [m.effect EXCEPT ![e] = ran]
        /\ panicked' \in {"borrow", "no"}
    BY <1>5, <1>10, <2>1 DEF Becomes
  <2>3. PICK k \in 0 .. MaxReads : reads \in [1 .. k -> Slots]
    BY DEF BoundedSeq, SeqOf
  <2>4. Slots \subseteq Key \cup {"any"}
    BY DEF Slots
  <2>5. Bound(old, reads) \in Seq(SourceType)
    <3>1. Bound(old, reads) \in [1 .. k -> SourceType]
      BY <2>3, <2>4 DEF Bound, SourceType, Dirty
    <3> QED
      BY <2>3, <3>1
  <2>6. ran \in EffectType
    BY <1>4, <2>1, <2>5 DEF EffectType, Dirty
  <2>7. EffectInv(m.binder, FALSE, ran)
    <3>1. /\ ran.dirty = "Clean" /\ ~ran.queued /\ ~ran.stale /\ ran.last = "due"
          /\ ran.sources = Bound(old, reads)
      BY <1>4, <2>1
    <3>2. /\ DOMAIN ran.sources = DOMAIN reads
          /\ \A i \in DOMAIN reads :
                ran.sources[i].slot \in Slots /\ ran.sources[i].dirty = "Clean"
      BY <2>3, <3>1 DEF Bound
    <3>3. m.binder # "Clean" => DOMAIN reads = {}
      BY <2>1
    <3> QED
      BY <3>1, <3>2, <3>3 DEF EffectInv, HasDirty, Reads
  <2>8. EffectsInv(m.binder, FALSE, effect')
    BY <2>1, <2>2, <2>6, <2>7 DEF EffectsInv
  <2>9. EffectsAreKnown'
    BY <1>5, <1>8, <2>2, <2>8 DEF EffectsAreKnown, EffectsInv, EffectInv, Slots
  <2> QED
    BY <1>5, <1>8, <2>1, <2>2, <2>9 DEF FeedInv, Scanned
<1> QED
  BY <1>7, <1>9, <1>10

-----------------------------------------------------------------------------
(* The theorems. *)

LEMMA InitFeedInv == Init => FeedInv
<1> SUFFICES ASSUME Init
             PROVE  FeedInv
  OBVIOUS
<1>1. ASSUME NEW e \in Effect
      PROVE  effect[e] \in EffectType /\ EffectInv(binder, scheduled, effect[e])
  <2>1. effect[e] = [dirty |-> "Dirty", queued |-> TRUE, sources |-> <<>>,
                     stale |-> TRUE, last |-> "never"]
    BY DEF Init
  <2>2. effect[e] \in EffectType
    BY <2>1 DEF EffectType, Dirty
  <2>3. DOMAIN effect[e].sources = {} /\ ~scheduled
    BY <2>1 DEF Init
  <2>4. effect[e].dirty = "Dirty" /\ effect[e].queued /\ effect[e].stale /\ effect[e].last = "never"
    BY <2>1
  <2> QED
    BY <2>2, <2>3, <2>4 DEF EffectInv
<1>2. effect \in [Effect -> EffectType]
  BY <1>1 DEF Init
<1> QED
  BY <1>1, <1>2 DEF Init, FeedInv, EffectsAreKnown, EffectsInv, Dirty

LEMMA NextFeedInv == MaxReads \in Nat /\ FeedInv /\ [Next]_vars => FeedInv'
<1> SUFFICES ASSUME MaxReads \in Nat, FeedInv, [Next]_vars
             PROVE  FeedInv'
  OBVIOUS
<1>1. CASE \E level \in DirtyLevel : SourceNotifies(level)
  BY <1>1, NotifyPreservesInv
<1>2. ASSUME NEW o \in ScanOutcome, Watch(o)
      PROVE  FeedInv'
  BY <1>2, WatchPreservesInv
<1>3. ASSUME NEW o \in ScanOutcome, NEW keys \in EditKeys, Edit(o, keys) \/ LooseEdit(o, keys)
      PROVE  FeedInv'
  BY <1>3, EditPreservesInv, LooseEditPreservesInv
<1>4. ASSUME NEW o \in ScanOutcome, NEW e \in Effect, NEW reads \in BoundedSeq(Slots, MaxReads),
             RunEffect(e, o, reads)
      PROVE  FeedInv'
  BY <1>4, RunPreservesInv
<1>5. CASE Deliver
  BY <1>5, DeliverPreservesInv
<1>6. CASE UNCHANGED vars
  <2>1. EffectsAreKnown'
    BY <1>6 DEF vars, FeedInv, EffectsAreKnown, EffectsInv, EffectInv, Slots
  <2> QED
    BY <1>6, <2>1 DEF vars, FeedInv, Scanned
<1> QED
  BY <1>1, <1>2, <1>3, <1>4, <1>5, <1>6 DEF Next

THEOREM SpecFeedInv == NodesAssumption /\ Spec => []FeedInv
<1> SUFFICES ASSUME NodesAssumption
             PROVE  Spec => []FeedInv
  OBVIOUS
<1>1. FeedInv /\ [Next]_vars => FeedInv'
  BY NextFeedInv DEF NodesAssumption
<1> QED
  BY <1>1, InitFeedInv, PTL DEF Spec

\* Once no effect is queued and nothing is scheduled, every effect has run since the last
\* change of anything it read (edits, scans and SinkBindingsSet).
THEOREM SpecChangesReachReaders == NodesAssumption /\ Spec => []ChangesReachReaders
<1>1. ASSUME FeedInv
      PROVE  ChangesReachReaders
  <2> SUFFICES ASSUME NEW e \in Effect, ~effect[e].queued, ~scheduled
               PROVE  ~effect[e].stale
    BY DEF ChangesReachReaders
  <2>1. EffectInv(binder, FALSE, effect[e])
    BY <1>1 DEF FeedInv, EffectsAreKnown, EffectsInv
  <2> QED
    BY <2>1 DEF EffectInv, HasDirty
<1> QED
  BY <1>1, SpecFeedInv, PTL

\* No effect runs for a change of something else, for a scan that recorded no edit, or twice
\* for one change, nor is a dependency asked before it is resolved (the panic of
\* SinkBindings::is_dirty).
THEOREM SpecRunsAreDue == NodesAssumption /\ Spec => []RunsAreDue
<1>1. FeedInv => RunsAreDue
  BY DEF FeedInv, EffectsAreKnown, EffectsInv, EffectInv, RunsAreDue, AskedOnceResolved
<1> QED
  BY <1>1, SpecFeedInv, PTL
=============================================================================
