---------------------------- MODULE ReactiveProofs ----------------------------
(***************************************************************************)
(* Theorems about the reactive graph, for every graph of nodes, closures   *)
(* and bounds that satisfies the assumptions of Reactive.                  *)
(*                                                                         *)
(* First the call chain and the types, then the bindings and the caches    *)
(* that live or die with them. Then the flags: what the entry a source     *)
(* keeps for a sink says of the two, in the middle of notifications,       *)
(* checks and runs too, and what a check may therefore rely on; and that   *)
(* an effect that is dirty is queued once. Then the values: what a cache   *)
(* holds, what a running closure reads, and what effects have seen when no *)
(* work is left, against the reference that computes everything afresh.    *)
(***************************************************************************)
EXTENDS Reactive, CommonLemmas, TLAPS, SequenceTheorems

-----------------------------------------------------------------------------
(* The call chain: what pc says of the other variables. *)

\* A sweep of notifications runs no closure and unbinds nothing.
NotifyPhase ==
    \A m \in Source : pc[m] = "notify" =>
        rt # "get" /\ \A n \in Node : pc[n] \in {"idle", "notify"}

\* How far a check, a run or an unbinding loop has come; a source that is being read
\* has been bound.
ProgressOf(n) ==
    /\ pc[n] \notin {"run", "read", "trim"} => seen[n] = <<>>
    /\ pc[n] \notin {"check", "trim", "clear"} => pos[n] = 1
    /\ pc[n] = "check" => dirty[n] = "MaybeDirty"
    /\ pc[n] = "trim" => Len(seen[n]) < pos[n]
    /\ Len(seen[n]) <= Len(srcs[n])
    /\ pc[n] = "read" => /\ Len(seen[n]) < Len(srcs[n])
                         /\ NextRead(n, seen[n]) # Done
                         /\ srcs[n][Len(seen[n]) + 1] = NextRead(n, seen[n])
Progress == \A n \in Sink : ProgressOf(n)

\* A signal that is not dirty has a cache, unless it is being computed or discarded.
CachesPresent ==
    \A n \in Scan :
        dirty[n] # "Dirty" /\ pc[n] \notin {"run", "read", "clear"} => val[n] \in Value

CallsInv == TypeOK /\ NotifyPhase /\ Progress /\ CachesPresent

-----------------------------------------------------------------------------
(* Facts about the operators. *)

\* How the sets of nodes lie in each other.
LEMMA NodeSets ==
    /\ State \subseteq Source /\ Scan \subseteq Source /\ Scan \subseteq Sink
    /\ Effect \subseteq Sink /\ Source \subseteq Node /\ Sink \subseteq Node
    /\ Source \cap Effect = {} /\ State \cap Sink = {}
BY NodesAssumption DEF Source, Sink, Node

\* A list of values read is a sequence of at most MaxReads values.
LEMMA ReadsAreSequences ==
    \A r : r \in Reads <=> r \in Seq(Value) /\ Len(r) <= MaxReads
<1>1. ASSUME NEW r, r \in Reads
      PROVE  r \in Seq(Value) /\ Len(r) <= MaxReads
  <2>1. PICK k \in 0 .. MaxReads : r \in [1 .. k -> Value]
    BY <1>1 DEF Reads
  <2>2. k \in Nat
    BY NodesAssumption
  <2> QED
    BY <2>1, <2>2, NodesAssumption
<1>2. ASSUME NEW r, r \in Seq(Value), Len(r) <= MaxReads
      PROVE  r \in Reads
  <2>1. r \in [1 .. Len(r) -> Value] /\ Len(r) \in 0 .. MaxReads
    BY <1>2, NodesAssumption
  <2> QED
    BY <2>1 DEF Reads
<1> QED
  BY <1>1, <1>2

\* What a closure reads next is a source of which it has not read too many.
LEMMA NextReadTypes ==
    ASSUME NEW n \in Sink, NEW r \in Reads, NextRead(n, r) # Done
    PROVE  /\ NextRead(n, r) \in Source
           /\ Len(r) + 1 \in Index
<1>1. r \in Seq(Value) /\ Len(r) <= MaxReads
  BY ReadsAreSequences
<1>2. NextRead(n, r) \in Source /\ Len(r) # MaxReads
  BY ClosureAssumption
<1> QED
  BY <1>1, <1>2, NodesAssumption DEF Index

\* The lists of a sink, and how far into them its loops have come.
LEMMA SinkTypes ==
    ASSUME TypeOK, Progress, NEW n \in Sink
    PROVE  /\ srcs \in [Sink -> Seq(Source)] /\ seen \in [Sink -> Reads]
           /\ pos \in [Sink -> 1 .. MaxReads + 1] /\ pc \in [Node -> CallState]
           /\ srcs[n] \in Seq(Source) /\ Len(srcs[n]) \in Nat /\ Len(srcs[n]) <= MaxReads
           /\ seen[n] \in Reads /\ seen[n] \in Seq(Value) /\ Len(seen[n]) \in Nat
           /\ Len(seen[n]) <= MaxReads /\ Len(seen[n]) <= Len(srcs[n])
           /\ pos[n] \in Nat /\ pos[n] >= 1 /\ MaxReads \in Nat
           /\ ProgressOf(n)
<1>1. /\ srcs \in [Sink -> Seq(Source)] /\ seen \in [Sink -> Reads]
      /\ pos \in [Sink -> 1 .. MaxReads + 1] /\ pc \in [Node -> CallState]
      /\ Len(srcs[n]) <= MaxReads
  BY DEF TypeOK
<1>2. seen[n] \in Seq(Value) /\ Len(seen[n]) <= MaxReads
  BY <1>1, ReadsAreSequences
<1>3. ProgressOf(n)
  BY DEF Progress
<1>4. pos[n] \in Nat /\ pos[n] >= 1 /\ MaxReads \in Nat
  BY <1>1, NodesAssumption
<1>5. Len(seen[n]) <= Len(srcs[n])
  BY <1>3 DEF ProgressOf
<1> QED
  BY <1>1, <1>2, <1>3, <1>4, <1>5

\* Putting a discard reaction in the queue keeps the types.
LEMMA ScheduleTypes ==
    ASSUME TypeOK, NEW s \in Source, NEW after, TryScheduleDiscard(s, after)
    PROVE  scheduled' \in [Scan -> BOOLEAN] /\ discards' \in Seq(Scan)
<1>1. CASE s \in Scan \ Keep /\ ~scheduled[s] /\ NoSinks(after)
  <2>1. s \in Scan /\ discards \in Seq(Scan) /\ scheduled \in [Scan -> BOOLEAN]
    BY <1>1 DEF TypeOK
  <2>2. /\ scheduled' = [scheduled EXCEPT ![s] = TRUE]
        /\ discards' = <<s>> \o discards
    BY <1>1 DEF TryScheduleDiscard
  <2>3. <<s>> \o discards \in Seq(Scan)
    BY <2>1, ConcatProperties
  <2> QED
    BY <2>1, <2>2, <2>3
<1>2. CASE ~(s \in Scan \ Keep /\ ~scheduled[s] /\ NoSinks(after))
  BY <1>2 DEF TryScheduleDiscard, TypeOK, disc
<1> QED
  BY <1>1, <1>2

\* Resolving, notifying and unbinding never create an entry, and only the last removes one.
LEMMA ResolveTypes ==
    ASSUME NEW table \in [Sink -> [Index -> Entry]], NEW b \in BOOLEAN
    PROVE  /\ Resolve(table, b) \in [Sink -> [Index -> Entry]]
           /\ \A n \in Sink, i \in Index :
                  Resolve(table, b)[n][i] = "Unbound" <=> table[n][i] = "Unbound"
BY DEF Resolve, FromIsDirty, Dirty, Entry

\* A notified flag is a flag, and is no longer clean.
LEMMA ApplyNotifyTypes ==
    ASSUME NEW d \in Entry, NEW lv \in DirtyLevel
    PROVE  ApplyNotify(d, lv) \in Dirty /\ ApplyNotify(d, lv) # "Clean"
BY DEF ApplyNotify, Entry, Dirty, DirtyLevel

-----------------------------------------------------------------------------
(* The call chain stays well-formed, action by action. *)

\* Initially no call is under way.
LEMMA InitCallsInv == Init => CallsInv
<1> SUFFICES ASSUME Init PROVE CallsInv
  OBVIOUS
<1> PICK init \in [State -> Value] :
        val = [s \in Source |-> IF s \in State THEN init[s] ELSE NoValue]
  BY DEF Init
<1>1. <<>> \in Reads
  <2>1. <<>> \in Seq(Value) /\ Len(<<>>) = 0
    BY EmptySeq
  <2>2. Len(<<>>) <= MaxReads
    BY <2>1, NodesAssumption
  <2> QED
    BY <2>1, <2>2, ReadsAreSequences, Zenon
<1>2. State \subseteq Source /\ Scan \subseteq Sink /\ Source \subseteq Node /\ Sink \subseteq Node
  BY DEF Source, Sink, Node
<1>3. TypeOK
  <2>1. val \in [Source -> Value \cup {NoValue}] /\ \A s \in State : val[s] \in Value
    BY <1>2
  <2>2. /\ dirty \in [Sink -> Dirty]
        /\ sinks \in [Source -> [Sink -> [Index -> Entry]]]
        /\ level \in [Source -> DirtyLevel] /\ todo \in [Source -> SUBSET Key]
    BY DEF Init, Dirty, DirtyLevel, Entry
  <2>3. /\ srcs \in [Sink -> Seq(Source)] /\ \A n \in Sink : Len(srcs[n]) <= MaxReads
        /\ seen \in [Sink -> Reads] /\ obs \in [Effect -> Reads]
    BY <1>1, EmptySeq, NodesAssumption DEF Init
  <2>4. pc \in [Node -> CallState] /\ pos \in [Sink -> 1 .. MaxReads + 1]
    BY NodesAssumption DEF Init, CallState
  <2>5. /\ discards \in Seq(Scan) /\ actions \in Seq(State \X Value)
        /\ notifys \in Seq(State)
        /\ reactions \in Seq(Effect) /\ unbinds \in Seq(Effect) /\ batch \in Seq(Effect)
    BY EmptySeq DEF Init
  <2> QED
    BY <2>1, <2>2, <2>3, <2>4, <2>5 DEF Init, TypeOK
<1>4. NotifyPhase /\ Progress /\ CachesPresent
  BY <1>2 DEF Init, NotifyPhase, Progress, ProgressOf, CachesPresent
<1> QED
  BY <1>3, <1>4 DEF CallsInv

\* Notifying a sink only touches sinks that are not being called.
LEMMA NotifySinkCalls ==
    ASSUME CallsInv, NEW s \in Source, NEW k \in Key, NotifySink(s, k)
    PROVE  CallsInv'
<1> DEFINE n == k[1]
<1> USE DEF graph, calls, sweep, disc, queues, loop, users
<1>1. TypeOK /\ NotifyPhase /\ Progress /\ CachesPresent
  BY DEF CallsInv
<1>2. n \in Sink /\ k[2] \in Index /\ s \in Node /\ n \in Node /\ (n \in Scan => n \in Source)
  BY DEF Key, Node, Sink, Source
<1>3. n \in Scan \/ n \in Effect
  BY <1>2 DEF Sink
<1>4. level[s] \in DirtyLevel /\ sinks[s][n][k[2]] \in Entry /\ dirty[n] \in Entry
  BY <1>1, <1>2 DEF TypeOK, Entry
<1>5. pc[n] \in {"idle", "notify"}
  BY <1>1, <1>2 DEF NotifySink, NotifyPhase
<1>6. sinks' \in [Source -> [Sink -> [Index -> Entry]]]
  BY <1>1, <1>2, <1>4, ApplyNotifyTypes DEF NotifySink, TypeOK, Entry
<1>7. dirty' \in [Sink -> Dirty]
  BY <1>1, <1>2, <1>4, ApplyNotifyTypes DEF NotifySink, TypeOK
<1>8. /\ pc' \in [Node -> CallState]
      /\ \A m \in Node : pc'[m] # pc[m] => m = n /\ n \in Scan /\ pc'[m] = "notify"
  BY <1>1, <1>2 DEF NotifySink, TypeOK, CallState
<1>9. level' \in [Source -> DirtyLevel]
  BY <1>1, <1>2 DEF NotifySink, TypeOK, MaybeIf, DirtyLevel
<1>10. todo' \in [Source -> SUBSET Key]
  <2>1. todo[s] \ {k} \in SUBSET Key /\ Bound(n) \in SUBSET Key
    BY <1>1 DEF TypeOK, Bound
  <2> QED
    BY <1>1, <1>2, <2>1 DEF NotifySink, TypeOK
<1>11. reactions' \in Seq(Effect)
  BY <1>1, <1>2 DEF NotifySink, TypeOK
<1>12. TypeOK'
  BY <1>1, <1>6, <1>7, <1>8, <1>9, <1>10, <1>11 DEF NotifySink, TypeOK
<1>13. NotifyPhase'
  BY <1>1, <1>2, <1>8 DEF NotifySink, NotifyPhase
<1>14. Progress'
  <2>1. /\ seen' = seen /\ pos' = pos /\ srcs' = srcs
    BY DEF NotifySink
  <2>2. \A m \in Sink : /\ pc'[m] \in {"run", "read", "trim", "check", "clear"} => pc'[m] = pc[m]
                        /\ pc[m] # "idle" /\ pc[m] # "notify" => pc'[m] = pc[m]
    BY <1>5, <1>8 DEF Node, Sink, Source
  <2>3. \A m \in Sink : pc'[m] \in CallState /\ pc[m] \in CallState
    BY <1>1, <1>8 DEF TypeOK, Node, Sink, Source
  <2>4. \A m \in Sink : m # n => dirty'[m] = dirty[m]
    BY <1>1, <1>2 DEF NotifySink, TypeOK
  <2> QED
    BY <1>1, <1>5, <2>1, <2>2, <2>3, <2>4 DEF Progress, ProgressOf, CallState
<1>15. CachesPresent'
  <2> SUFFICES ASSUME NEW m \in Scan, dirty'[m] # "Dirty",
                      pc'[m] \notin {"run", "read", "clear"}
               PROVE  val'[m] \in Value
    BY DEF CachesPresent
  <2>1. m \in Node /\ m \in Sink
    BY DEF Node, Source, Sink
  <2>2. dirty[m] # "Dirty"
    BY <1>1, <1>2, <2>1 DEF NotifySink, ApplyNotify, TypeOK
  <2>3. pc[m] \notin {"run", "read", "clear"}
    BY <1>5, <1>8, <2>1
  <2> QED
    BY <1>1, <2>2, <2>3 DEF NotifySink, CachesPresent
<1> QED
  BY <1>12, <1>13, <1>14, <1>15 DEF CallsInv
\* An update, a check or a run is under way: nothing is being notified.
LEMMA NoSweep ==
    ASSUME NotifyPhase, NEW n \in Sink, pc[n] \notin {"idle", "notify"}
    PROVE  \A m \in Source : pc[m] # "notify"
BY NodeSets DEF NotifyPhase

\* Starting a check or a run of a dirty sink.
LEMMA RefreshCalls ==
    ASSUME CallsInv, NEW n \in Sink, pc[n] = "idle", Refresh(n),
           UNCHANGED <<val, srcs, sinks, seen, result, sweep, life, obs>>
    PROVE  /\ pc' \in [Node -> CallState] /\ pos' \in [Sink -> 1 .. MaxReads + 1]
           /\ dirty' \in [Sink -> Dirty] /\ moved' \in SUBSET Sink
           /\ \A m \in Node : pc'[m] # pc[m] => m = n /\ pc'[m] \in {"check", "run"}
           /\ Progress' /\ CachesPresent'
<1>1. TypeOK /\ Progress /\ CachesPresent /\ n \in Node
  BY NodeSets DEF CallsInv
<1>2. 1 \in 1 .. MaxReads + 1
  BY NodesAssumption
<1>3. CASE /\ dirty[n] = "MaybeDirty"
           /\ pc' = [pc EXCEPT ![n] = "check"]
           /\ pos' = [pos EXCEPT ![n] = 1]
           /\ UNCHANGED <<dirty, moved>>
  <2>1. /\ pc' \in [Node -> CallState] /\ pos' \in [Sink -> 1 .. MaxReads + 1]
        /\ dirty' \in [Sink -> Dirty] /\ moved' \in SUBSET Sink
        /\ \A m \in Node : pc'[m] # pc[m] => m = n /\ pc'[m] \in {"check", "run"}
    BY <1>1, <1>2, <1>3 DEF TypeOK, CallState
  <2>2. Progress'
    BY <1>1, <1>3, NodeSets DEF TypeOK, Progress, ProgressOf
  <2>3. CachesPresent'
    BY <1>1, <1>3, NodeSets DEF TypeOK, CachesPresent
  <2> QED
    BY <2>1, <2>2, <2>3
<1>4. CASE /\ dirty[n] = "Dirty"
           /\ pc' = [pc EXCEPT ![n] = "run"]
           /\ dirty' = [dirty EXCEPT ![n] = "Clean"]
           /\ moved' = moved \ {n}
           /\ UNCHANGED pos
  <2>1. /\ pc' \in [Node -> CallState] /\ pos' \in [Sink -> 1 .. MaxReads + 1]
        /\ dirty' \in [Sink -> Dirty] /\ moved' \in SUBSET Sink
        /\ \A m \in Node : pc'[m] # pc[m] => m = n /\ pc'[m] \in {"check", "run"}
    BY <1>1, <1>4 DEF TypeOK, CallState, Dirty
  <2>2. Progress'
    BY <1>1, <1>4, NodeSets DEF TypeOK, Progress, ProgressOf
  <2>3. CachesPresent'
    BY <1>1, <1>4, NodeSets DEF TypeOK, CachesPresent
  <2> QED
    BY <2>1, <2>2, <2>3
<1> QED
  BY <1>3, <1>4 DEF Refresh

\* Checks: ScanNode::update on a signal, a source checked, no source dirty.
LEMMA CheckCalls ==
    ASSUME CallsInv, NEW n \in Sink
    PROVE  /\ n \in Scan /\ ScanUpdate(n) => CallsInv'
           /\ CheckSource(n) => CallsInv'
           /\ CheckDone(n) => CallsInv'
<1> USE DEF graph, calls, sweep, disc, queues, loop, users
<1>1. TypeOK /\ NotifyPhase /\ Progress /\ CachesPresent /\ n \in Node
  BY NodeSets DEF CallsInv
<1>2. ASSUME n \in Scan, ScanUpdate(n)
      PROVE  CallsInv'
  <2>1. /\ pc' \in [Node -> CallState] /\ pos' \in [Sink -> 1 .. MaxReads + 1]
        /\ dirty' \in [Sink -> Dirty] /\ moved' \in SUBSET Sink
        /\ \A m \in Node : pc'[m] # pc[m] => m = n /\ pc'[m] \in {"check", "run"}
        /\ Progress' /\ CachesPresent'
    BY <1>2, RefreshCalls DEF ScanUpdate
  <2>2. scheduled' \in [Scan -> BOOLEAN] /\ discards' \in Seq(Scan)
    BY <1>1, <1>2, ScheduleTypes, NodeSets DEF ScanUpdate
  <2>3. TypeOK'
    BY <1>1, <1>2, <2>1, <2>2 DEF ScanUpdate, TypeOK
  <2>4. \A m \in Source : pc[m] # "notify"
    <3>1. CASE rt = "get"
      BY <1>1, <3>1 DEF NotifyPhase
    <3>2. CASE \E m \in Sink : Awaited(m, n)
      BY <1>1, <3>2, NoSweep DEF Awaited
    <3> QED
      BY <1>2, <3>1, <3>2 DEF ScanUpdate, Demanded
  <2>5. NotifyPhase'
    BY <2>1, <2>4, NodeSets DEF NotifyPhase
  <2> QED
    BY <2>1, <2>3, <2>5 DEF CallsInv
<1>3. ASSUME CheckSource(n)
      PROVE  CallsInv'
  <2>1. \A m \in Source : pc[m] # "notify"
    BY <1>1, <1>3, NoSweep DEF CheckSource
  <2>2. Len(srcs[n]) \in Nat /\ Len(srcs[n]) <= MaxReads /\ pos[n] \in Nat
    BY <1>1, NodesAssumption DEF TypeOK
  <2>3. pos' \in [Sink -> 1 .. MaxReads + 1] /\ pc' \in [Node -> CallState]
    <3>1. pos[n] + 1 \in 1 .. MaxReads + 1 /\ 1 \in 1 .. MaxReads + 1
      BY <1>1, <1>3, <2>2, NodesAssumption DEF CheckSource, TypeOK
    <3> QED
      BY <1>1, <1>3, <3>1 DEF CheckSource, TypeOK, CallState
  <2>7. TypeOK'
    BY <1>1, <1>3, <2>3 DEF CheckSource, TypeOK, Dirty
  <2>4. NotifyPhase'
    BY <1>1, <1>3, <2>1, NodeSets DEF CheckSource, NotifyPhase, TypeOK
  <2>5. Progress'
    BY <1>1, <1>3, NodeSets DEF CheckSource, Progress, ProgressOf, TypeOK
  <2>6. CachesPresent'
    BY <1>1, <1>3, NodeSets DEF CheckSource, CachesPresent, TypeOK
  <2> QED
    BY <2>4, <2>5, <2>6, <2>7 DEF CallsInv
<1>4. ASSUME CheckDone(n)
      PROVE  CallsInv'
  <2>1. \A m \in Source : pc[m] # "notify"
    BY <1>1, <1>4, NoSweep DEF CheckDone
  <2>2. sinks' \in [Source -> [Sink -> [Index -> Entry]]]
    <3>1. n \in Scan => Resolve(sinks[n], FALSE) \in [Sink -> [Index -> Entry]]
      BY <1>1, ResolveTypes, NodeSets DEF TypeOK
    <3> QED
      BY <1>1, <1>4, <3>1, NodeSets DEF CheckDone, TypeOK
  <2>3. TypeOK'
    <3>1. 1 \in 1 .. MaxReads + 1
      BY NodesAssumption
    <3> QED
      BY <1>1, <1>4, <2>2, <3>1 DEF CheckDone, TypeOK, Dirty, CallState
  <2>4. NotifyPhase'
    BY <1>1, <1>4, <2>1, NodeSets DEF CheckDone, NotifyPhase, TypeOK
  <2>5. Progress'
    BY <1>1, <1>4, NodeSets DEF CheckDone, Progress, ProgressOf, TypeOK
  <2>6. CachesPresent'
    BY <1>1, <1>4, NodeSets DEF CheckDone, CachesPresent, Progress, ProgressOf, TypeOK
  <2> QED
    BY <2>2, <2>3, <2>4, <2>5, <2>6 DEF CallsInv
<1> QED
  BY <1>2, <1>3, <1>4

\* The end of SinkBindings::notify.
LEMMA NotifyDoneCalls ==
    ASSUME CallsInv, NEW s \in Source, NotifyDone(s)
    PROVE  CallsInv'
<1> USE DEF graph, calls, sweep, disc, queues, loop, users
<1>1. TypeOK /\ NotifyPhase /\ Progress /\ CachesPresent /\ s \in Node
  BY NodeSets DEF CallsInv
<1>2. TypeOK'
  BY <1>1 DEF NotifyDone, TypeOK, DirtyLevel, CallState
<1>3. NotifyPhase'
  BY <1>1, NodeSets DEF NotifyDone, NotifyPhase, TypeOK
<1>4. Progress' /\ CachesPresent'
  BY <1>1, NodeSets DEF NotifyDone, Progress, ProgressOf, CachesPresent, TypeOK
<1> QED
  BY <1>2, <1>3, <1>4 DEF CallsInv

\* Runs: a source is bound before it is read, and what is read is a value.
LEMMA RunCalls ==
    ASSUME CallsInv, NEW n \in Sink
    PROVE  /\ Bind(n) => CallsInv'
           /\ ReadValue(n) => CallsInv'
           /\ CloseRun(n) => CallsInv'
<1> USE DEF graph, calls, sweep, disc, queues, loop, users
<1> DEFINE s == NextRead(n, seen[n])
           i == Len(seen[n]) + 1
<1>1. TypeOK /\ NotifyPhase /\ Progress /\ CachesPresent /\ n \in Node
  BY NodeSets DEF CallsInv
<1>2. /\ seen[n] \in Reads /\ seen[n] \in Seq(Value)
      /\ Len(seen[n]) \in Nat /\ Len(seen[n]) <= MaxReads
      /\ srcs[n] \in Seq(Source) /\ Len(srcs[n]) \in Nat /\ Len(srcs[n]) <= MaxReads
  BY <1>1, ReadsAreSequences DEF TypeOK
<1>3. s # Done => s \in Source /\ i \in Index /\ i <= MaxReads
  BY <1>2, NextReadTypes, NodesAssumption DEF Index
<1>4. ASSUME Bind(n)
      PROVE  CallsInv'
  <2>1. \A m \in Source : pc[m] # "notify"
    BY <1>1, <1>4, NoSweep DEF Bind
  <2>2. s \in Source /\ i \in Index /\ i <= MaxReads /\ i \in Nat
    BY <1>2, <1>3, <1>4 DEF Bind
  <2>3. /\ srcs'[n] \in Seq(Source) /\ Len(srcs'[n]) <= MaxReads
        /\ srcs' = [srcs EXCEPT ![n] = srcs'[n]]
        /\ i <= Len(srcs'[n]) /\ srcs'[n][i] = s
    <3>1. CASE i <= Len(srcs[n]) /\ srcs[n][i] = s /\ UNCHANGED srcs
      BY <1>1, <1>2, <3>1 DEF TypeOK
    <3>2. CASE i <= Len(srcs[n]) /\ srcs' = [srcs EXCEPT ![n][i] = s]
      BY <1>1, <1>2, <2>2, <3>2, ExceptSeq DEF TypeOK
    <3>3. CASE i > Len(srcs[n]) /\ srcs' = [srcs EXCEPT ![n] = Append(@, s)]
      <4>1. i = Len(srcs[n]) + 1
        BY <1>1, <1>2, <3>3 DEF Progress, ProgressOf
      <4> QED
        BY <1>1, <1>2, <2>2, <3>3, <4>1, AppendProperties DEF TypeOK
    <3> QED
      BY <1>4, <3>1, <3>2, <3>3 DEF Bind
  <2>4. /\ sinks' \in [Source -> [Sink -> [Index -> Entry]]]
        /\ scheduled' \in [Scan -> BOOLEAN] /\ discards' \in Seq(Scan)
    <3> DEFINE bound == [sinks EXCEPT ![s][n][i] = "Clean"]
    <3>1. bound \in [Source -> [Sink -> [Index -> Entry]]]
      BY <1>1, <2>2 DEF TypeOK, Entry, Dirty
    <3>2. CASE sinks' = bound /\ UNCHANGED disc
      BY <1>1, <3>1, <3>2 DEF TypeOK
    <3>3. CASE /\ i <= Len(srcs[n])
               /\ sinks' = [bound EXCEPT ![srcs[n][i]][n][i] = "Unbound"]
               /\ TryScheduleDiscard(srcs[n][i], sinks'[srcs[n][i]])
      <4>1. srcs[n][i] \in Source
        <5>1. /\ i <= Len(srcs[n])
              /\ i \in Nat /\ i >= 1
          <6>1. i <= Len(srcs[n])
            BY <3>3
          <6>2. i \in Nat /\ i >= 1
            BY <1>2
          <6> QED
            BY <6>1, <6>2
        <5> HIDE DEF i
        <5>2. i \in 1 .. Len(srcs[n])
          BY <1>2, <5>1
        <5> QED
          BY <1>2, <5>2
      <4>2. sinks' \in [Source -> [Sink -> [Index -> Entry]]]
        <5>1. "Unbound" \in Entry
          BY DEF Entry
        <5> HIDE DEF bound
        <5> QED
          BY <2>2, <3>1, <3>3, <4>1, <5>1
      <4> QED
        BY <1>1, <3>3, <4>1, <4>2, ScheduleTypes
    <3> QED
      BY <1>4, <3>2, <3>3 DEF Bind
  <2>5. pc' = [pc EXCEPT ![n] = "read"]
    BY <1>4 DEF Bind
  <2>6. TypeOK'
    BY <1>1, <1>4, <2>3, <2>4, <2>5 DEF Bind, TypeOK, CallState
  <2>7. NotifyPhase'
    BY <1>1, <2>1, <2>5, NodeSets DEF NotifyPhase, TypeOK
  <2>8. Progress'
    <3>1. /\ UNCHANGED <<seen, pos, dirty>>
          /\ srcs \in [Sink -> Seq(Source)] /\ pc \in [Node -> CallState]
      BY <1>1, <1>4 DEF Bind, TypeOK
    <3>2. s # Done
      BY <1>4 DEF Bind
    <3>3. ASSUME NEW m \in Sink, m # n
          PROVE  ProgressOf(m)'
      <4>1. pc'[m] = pc[m] /\ srcs'[m] = srcs[m]
        BY <2>3, <2>5, <3>1, <3>3, NodeSets
      <4>2. ProgressOf(m)
        BY <1>1 DEF Progress
      <4> QED
        BY <3>1, <4>1, <4>2 DEF ProgressOf
    <3>4. ProgressOf(n)'
      <4>1. pc'[n] = "read" /\ pc[n] = "run"
        BY <1>1, <1>4, <2>5, <3>1 DEF Bind
      <4>2. ProgressOf(n)
        BY <1>1 DEF Progress
      <4>3. pos'[n] = 1 /\ seen'[n] = seen[n]
        BY <3>1, <4>1, <4>2 DEF ProgressOf
      <4>4. Len(srcs'[n]) \in Nat /\ Len(seen[n]) < Len(srcs'[n])
        BY <1>2, <2>3
      <4> QED
        BY <1>2, <2>3, <3>2, <4>1, <4>3, <4>4 DEF ProgressOf
    <3> QED
      BY <3>3, <3>4 DEF Progress
  <2>9. CachesPresent'
    BY <1>1, <1>4, <2>5, NodeSets DEF Bind, CachesPresent, TypeOK
  <2> QED
    BY <2>6, <2>7, <2>8, <2>9 DEF CallsInv
<1>5. ASSUME ReadValue(n)
      PROVE  CallsInv'
  <2>1. \A m \in Source : pc[m] # "notify"
    BY <1>1, <1>5, NoSweep DEF ReadValue
  <2>2. s \in Source /\ i \in Index /\ i <= MaxReads /\ Len(seen[n]) < Len(srcs[n])
    BY <1>1, <1>3, <1>5 DEF ReadValue, Progress, ProgressOf
  <2>3. val[s] \in Value
    BY <1>1, <1>5, <2>2 DEF ReadValue, Settled, CachesPresent, TypeOK, Source
  <2>4. /\ Append(seen[n], val[s]) \in Reads
        /\ Len(Append(seen[n], val[s])) = i
    <3>1. Append(seen[n], val[s]) \in Seq(Value) /\ Len(Append(seen[n], val[s])) = i
      BY <1>2, <2>3, AppendProperties
    <3>2. Len(Append(seen[n], val[s])) <= MaxReads
      BY <2>2, <3>1
    <3> QED
      BY <3>1, <3>2, ReadsAreSequences, Zenon
  <2>5. /\ pc' = [pc EXCEPT ![n] = "run"]
        /\ seen' = [seen EXCEPT ![n] = Append(seen[n], val[s])]
    BY <1>5 DEF ReadValue
  <2>6. TypeOK'
    BY <1>1, <1>5, <2>4, <2>5 DEF ReadValue, TypeOK, CallState
  <2>7. NotifyPhase'
    BY <1>1, <2>1, <2>5, NodeSets DEF NotifyPhase, TypeOK
  <2>8. Progress'
    <3>1. UNCHANGED <<srcs, pos, dirty>> /\ pc[n] = "read"
      BY <1>5 DEF ReadValue
    <3>2. ASSUME NEW m \in Sink, m # n
          PROVE  ProgressOf(m)'
      <4>1. ProgressOf(m) /\ pc'[m] = pc[m] /\ seen'[m] = seen[m]
        BY <1>1, <2>5, <3>2, SinkTypes, NodeSets
      <4> QED
        BY <3>1, <4>1 DEF ProgressOf
    <3>3. ProgressOf(n)'
      <4>1. ProgressOf(n) /\ pc'[n] = "run" /\ seen'[n] = Append(seen[n], val[s])
        BY <1>1, <2>5, SinkTypes
      <4>2. Len(Append(seen[n], val[s])) = Len(seen[n]) + 1
        BY <1>2
      <4>3. Len(seen[n]) < Len(srcs[n]) /\ pos[n] = 1
        BY <3>1, <4>1 DEF ProgressOf
      <4> QED
        BY <1>2, <3>1, <4>1, <4>2, <4>3 DEF ProgressOf
    <3> QED
      BY <3>2, <3>3 DEF Progress
  <2>9. CachesPresent'
    BY <1>1, <1>5, <2>5, NodeSets DEF ReadValue, CachesPresent, TypeOK
  <2> QED
    BY <2>6, <2>7, <2>8, <2>9 DEF CallsInv
<1>6. ASSUME CloseRun(n)
      PROVE  CallsInv'
  <2>1. \A m \in Source : pc[m] # "notify"
    BY <1>1, <1>6, NoSweep DEF CloseRun
  <2>2. /\ pc' = [pc EXCEPT ![n] = "trim"]
        /\ pos' = [pos EXCEPT ![n] = Len(seen[n]) + 1]
        /\ UNCHANGED <<dirty, srcs, sinks, seen>>
    BY <1>6 DEF CloseRun
  <2>3. Len(seen[n]) + 1 \in 1 .. MaxReads + 1
    BY <1>2, NodesAssumption
  <2>4. ASSUME n \in Scan
        PROVE  TypeOK' /\ CachesPresent'
    <3>1. Result(n, seen[n]) \in Value
      BY <1>2, <2>4, ClosureAssumption
    <3>2. /\ val' = [val EXCEPT ![n] = Result(n, seen[n])]
          /\ result' = [result EXCEPT ![n] = n \notin Dedup \/ val[n] # Result(n, seen[n])]
          /\ moved' = moved \/ moved' = moved \cup Readers(n)
          /\ UNCHANGED obs
      BY <1>6, <2>4 DEF CloseRun
    <3>3. moved' \in SUBSET Sink
      BY <1>1, <3>2 DEF TypeOK, Readers
    <3>4. /\ val' \in [Source -> Value \cup {NoValue}]
          /\ \A x \in State : val'[x] \in Value
          /\ result' \in [Scan -> BOOLEAN]
      BY <1>1, <2>4, <3>1, <3>2, NodeSets DEF TypeOK
    <3>5. TypeOK'
      BY <1>1, <1>6, <2>2, <2>3, <3>2, <3>3, <3>4 DEF CloseRun, TypeOK, CallState
    <3>6. CachesPresent'
      BY <1>1, <2>2, <2>4, <3>1, <3>2, NodeSets DEF CachesPresent, TypeOK
    <3> QED
      BY <3>5, <3>6
  <2>5. ASSUME n \notin Scan
        PROVE  TypeOK' /\ CachesPresent'
    <3>1. n \in Effect
      BY <2>5 DEF Sink
    <3>2. /\ obs' = [obs EXCEPT ![n] = seen[n]]
          /\ UNCHANGED <<val, result, moved>>
      BY <1>6, <2>5 DEF CloseRun
    <3>3. TypeOK'
      BY <1>1, <1>2, <1>6, <2>2, <2>3, <3>1, <3>2 DEF CloseRun, TypeOK, CallState
    <3>4. CachesPresent'
      BY <1>1, <2>2, <2>5, <3>2, NodeSets DEF CachesPresent, TypeOK
    <3> QED
      BY <3>3, <3>4
  <2>6. NotifyPhase'
    BY <1>1, <2>1, <2>2, NodeSets DEF NotifyPhase, TypeOK
  <2>7. Progress'
    <3>1. ProgressOf(n)'
      BY <1>1, <1>2, <2>2, <2>3 DEF Progress, ProgressOf, TypeOK
    <3>2. ASSUME NEW m \in Sink, m # n
          PROVE  ProgressOf(m)'
      BY <1>1, <2>2, <3>2, NodeSets DEF Progress, ProgressOf, TypeOK
    <3> QED
      BY <3>1, <3>2 DEF Progress
  <2> QED
    BY <2>4, <2>5, <2>6, <2>7 DEF CallsInv
<1> QED
  BY <1>4, <1>5, <1>6

\* The unbinding loops and their ends.
LEMMA UnbindCalls ==
    ASSUME CallsInv, NEW n \in Sink
    PROVE  /\ UnbindSource(n) => CallsInv'
           /\ TrimDone(n) => CallsInv'
           /\ ClearDone(n) => CallsInv'
<1> USE DEF graph, calls, sweep, disc, queues, loop, users
<1>1. TypeOK /\ NotifyPhase /\ Progress /\ CachesPresent /\ n \in Node
  BY NodeSets DEF CallsInv
<1>2. /\ seen[n] \in Reads /\ Len(seen[n]) \in Nat /\ Len(seen[n]) <= Len(srcs[n])
      /\ srcs[n] \in Seq(Source) /\ Len(srcs[n]) \in Nat /\ Len(srcs[n]) <= MaxReads
      /\ pos[n] \in 1 .. MaxReads + 1 /\ 1 \in 1 .. MaxReads + 1
  BY <1>1, ReadsAreSequences, NodesAssumption DEF TypeOK, Progress, ProgressOf
<1>3. <<>> \in Reads /\ Len(<<>>) = 0 /\ <<>> \in Seq(Source)
  <2>1. <<>> \in Seq(Value) /\ Len(<<>>) = 0 /\ <<>> \in Seq(Source)
    BY EmptySeq
  <2>2. Len(<<>>) <= MaxReads
    BY <2>1, NodesAssumption
  <2> QED
    BY <2>1, <2>2, ReadsAreSequences, Zenon
<1>4. ASSUME UnbindSource(n)
      PROVE  CallsInv'
  <2>1. \A m \in Source : pc[m] # "notify"
    BY <1>1, <1>4, NoSweep DEF UnbindSource
  <2>2. /\ pos[n] \in 1 .. Len(srcs[n]) /\ pos[n] \in Index /\ srcs[n][pos[n]] \in Source
        /\ pos[n] + 1 \in 1 .. MaxReads + 1
    BY <1>2, <1>4, NodesAssumption DEF UnbindSource, Index
  <2>3. /\ sinks' = Unbind(srcs[n][pos[n]], n, pos[n])
        /\ TryScheduleDiscard(srcs[n][pos[n]], sinks'[srcs[n][pos[n]]])
        /\ pos' = [pos EXCEPT ![n] = @ + 1]
    BY <1>4 DEF UnbindSource
  <2>4. sinks' \in [Source -> [Sink -> [Index -> Entry]]]
    BY <1>1, <2>2, <2>3 DEF Unbind, TypeOK, Entry
  <2>5. scheduled' \in [Scan -> BOOLEAN] /\ discards' \in Seq(Scan)
    BY <1>1, <2>2, <2>3, ScheduleTypes
  <2>6. TypeOK'
    BY <1>1, <1>4, <2>2, <2>3, <2>4, <2>5 DEF UnbindSource, TypeOK
  <2>7. NotifyPhase' /\ CachesPresent'
    BY <1>1, <1>4, <2>1 DEF UnbindSource, NotifyPhase, CachesPresent
  <2>8. Progress'
    <3>1. /\ UNCHANGED <<seen, srcs, pc, dirty>>
          /\ pc[n] \in {"trim", "clear"}
      BY <1>4 DEF UnbindSource
    <3>2. ASSUME NEW m \in Sink, m # n
          PROVE  ProgressOf(m)'
      <4>1. ProgressOf(m) /\ pos'[m] = pos[m]
        BY <1>1, <2>3, <3>2, SinkTypes
      <4> QED
        BY <3>1, <4>1 DEF ProgressOf
    <3>3. ProgressOf(n)'
      <4>1. ProgressOf(n) /\ pos'[n] = pos[n] + 1 /\ pos[n] \in Nat /\ Len(seen[n]) \in Nat
        BY <1>1, <2>3, SinkTypes
      <4> QED
        BY <3>1, <4>1 DEF ProgressOf
    <3> QED
      BY <3>2, <3>3 DEF Progress
  <2> QED
    BY <2>6, <2>7, <2>8 DEF CallsInv
<1>5. ASSUME TrimDone(n)
      PROVE  CallsInv'
  <2>1. \A m \in Source : pc[m] # "notify"
    BY <1>1, <1>5, NoSweep DEF TrimDone
  <2>2. /\ srcs' = [srcs EXCEPT ![n] = SubSeq(srcs[n], 1, Len(seen[n]))]
        /\ pc' = [pc EXCEPT ![n] = "idle"] /\ pos' = [pos EXCEPT ![n] = 1]
        /\ seen' = [seen EXCEPT ![n] = <<>>]
        /\ UNCHANGED <<val, dirty, level, todo, rt>>
    BY <1>5 DEF TrimDone
  <2>3. /\ SubSeq(srcs[n], 1, Len(seen[n])) \in Seq(Source)
        /\ Len(SubSeq(srcs[n], 1, Len(seen[n]))) = Len(seen[n])
    BY <1>2
  <2>4. sinks' \in [Source -> [Sink -> [Index -> Entry]]]
    <3>1. n \in Scan => /\ Resolve(sinks[n], result[n]) \in [Sink -> [Index -> Entry]]
                        /\ n \in Source
      BY <1>1, ResolveTypes, NodeSets DEF TypeOK
    <3> QED
      BY <1>1, <1>5, <3>1 DEF TrimDone, TypeOK
  <2>5. unbinds' \in Seq(Effect) /\ result' \in [Scan -> BOOLEAN]
    BY <1>1, <1>5, AppendProperties DEF TrimDone, TypeOK
  <2>6. TypeOK'
    <3>1. srcs' \in [Sink -> Seq(Source)] /\ \A m \in Sink : Len(srcs'[m]) <= MaxReads
      <4> DEFINE q == SubSeq(srcs[n], 1, Len(seen[n]))
      <4>1. q \in Seq(Source) /\ Len(q) <= MaxReads
        BY <1>2, <2>3, NodesAssumption
      <4>2. srcs' = [srcs EXCEPT ![n] = q]
        BY <2>2
      <4> HIDE DEF q
      <4> QED
        BY <1>1, <4>1, <4>2 DEF TypeOK
    <3>2. seen' \in [Sink -> Reads] /\ pos' \in [Sink -> 1 .. MaxReads + 1]
      BY <1>1, <1>2, <1>3, <2>2 DEF TypeOK
    <3> QED
      BY <1>1, <1>5, <2>2, <2>4, <2>5, <3>1, <3>2 DEF TrimDone, TypeOK, CallState
  <2>7. NotifyPhase'
    BY <1>1, <2>1, <2>2, NodeSets DEF NotifyPhase, TypeOK
  <2>8. CachesPresent'
    BY <1>1, <1>5, <2>2, NodeSets DEF TrimDone, CachesPresent, TypeOK
  <2>9. ProgressOf(n)'
    BY <1>1, <1>2, <1>3, <2>2, <2>3 DEF ProgressOf, TypeOK
  <2>10. ASSUME NEW m \in Sink, m # n
         PROVE  ProgressOf(m)'
    BY <1>1, <2>2, <2>10, NodeSets DEF Progress, ProgressOf, TypeOK
  <2> QED
    BY <2>6, <2>7, <2>8, <2>9, <2>10 DEF CallsInv, Progress
<1>6. ASSUME ClearDone(n)
      PROVE  CallsInv'
  <2>1. \A m \in Source : pc[m] # "notify"
    BY <1>1, <1>6, NoSweep DEF ClearDone
  <2>2. /\ srcs' = [srcs EXCEPT ![n] = <<>>]
        /\ pc' = [pc EXCEPT ![n] = "idle"] /\ pos' = [pos EXCEPT ![n] = 1]
        /\ dirty' = IF n \in Scan THEN [dirty EXCEPT ![n] = "Dirty"] ELSE dirty
        /\ UNCHANGED <<val, seen, level, todo, rt>>
    BY <1>6 DEF ClearDone
  <2>3. TypeOK'
    BY <1>1, <1>2, <1>3, <1>6, <2>2, NodesAssumption
       DEF ClearDone, TypeOK, CallState, Dirty
  <2>4. NotifyPhase'
    BY <1>1, <2>1, <2>2, NodeSets DEF NotifyPhase, TypeOK
  <2>5. CachesPresent'
    BY <1>1, <1>6, <2>2, NodeSets DEF ClearDone, CachesPresent, TypeOK
  <2>6. ProgressOf(n)'
    <3>1. pc'[n] = "idle" /\ pos'[n] = 1 /\ srcs'[n] = <<>> /\ seen'[n] = seen[n]
      BY <1>1, <2>2 DEF TypeOK
    <3>2. seen[n] = <<>>
      BY <1>1, <1>6 DEF ClearDone, Progress, ProgressOf
    <3> QED
      BY <1>3, <3>1, <3>2 DEF ProgressOf
  <2>7. ASSUME NEW m \in Sink, m # n
        PROVE  ProgressOf(m)'
    BY <1>1, <2>2, <2>7, NodeSets DEF Progress, ProgressOf, TypeOK
  <2> QED
    BY <2>3, <2>4, <2>5, <2>6, <2>7 DEF CallsInv, Progress
<1> QED
  BY <1>4, <1>5, <1>6

\* Between two calls nothing runs; the step may begin to notify from a source or to
\* unbind the sources of a sink.
LEMMA QuietCalls ==
    ASSUME CallsInv, Quiet, UNCHANGED <<dirty, srcs, pos, seen>>,
           \/ UNCHANGED pc
           \/ /\ rt # "get" /\ rt' = rt
              /\ \E s \in Source : pc' = [pc EXCEPT ![s] = "notify"]
           \/ \E n \in Sink : pc' = [pc EXCEPT ![n] = "clear"],
           \A n \in Scan : val'[n] = val[n] \/ pc'[n] = "clear"
    PROVE  pc' \in [Node -> CallState] /\ NotifyPhase' /\ Progress' /\ CachesPresent'
<1>1. TypeOK /\ Progress /\ CachesPresent
  BY DEF CallsInv
<1>2. CASE UNCHANGED pc
  BY <1>1, <1>2, NodeSets
     DEF TypeOK, Quiet, NotifyPhase, Progress, ProgressOf, CachesPresent
<1>3. ASSUME rt # "get", rt' = rt, NEW s \in Source, pc' = [pc EXCEPT ![s] = "notify"]
      PROVE  pc' \in [Node -> CallState] /\ NotifyPhase' /\ Progress' /\ CachesPresent'
  <2>1. pc' \in [Node -> CallState] /\ \A m \in Node : pc'[m] \in {"idle", "notify"}
    BY <1>1, <1>3, NodeSets DEF TypeOK, Quiet, CallState
  <2>2. NotifyPhase'
    BY <1>3, <2>1 DEF NotifyPhase
  <2>3. Progress'
    BY <1>1, <2>1, NodeSets DEF Quiet, Progress, ProgressOf
  <2>4. CachesPresent'
    BY <1>1, <2>1, NodeSets DEF Quiet, CachesPresent
  <2> QED
    BY <2>1, <2>2, <2>3, <2>4
<1>4. ASSUME NEW n \in Sink, pc' = [pc EXCEPT ![n] = "clear"]
      PROVE  pc' \in [Node -> CallState] /\ NotifyPhase' /\ Progress' /\ CachesPresent'
  <2>1. pc' \in [Node -> CallState] /\ \A m \in Node : pc'[m] \in {"idle", "clear"}
    BY <1>1, <1>4, NodeSets DEF TypeOK, Quiet, CallState
  <2>2. NotifyPhase'
    BY <2>1, NodeSets DEF NotifyPhase
  <2>3. Progress'
    BY <1>1, <2>1, NodeSets DEF Quiet, Progress, ProgressOf
  <2>4. CachesPresent'
    BY <1>1, <2>1, NodeSets DEF Quiet, CachesPresent
  <2> QED
    BY <2>1, <2>2, <2>3, <2>4
<1> QED
  BY <1>2, <1>3, <1>4

\* The dispatch functions start a call.
LEMMA RuntimeCalls ==
    ASSUME CallsInv
    PROVE  /\ RunAction => CallsInv'
           /\ ApplyUnbind => CallsInv'
           /\ ApplyPending => CallsInv'
           /\ RunReaction => CallsInv'
           /\ Discard => CallsInv'
<1> USE DEF graph, calls, sweep, disc, queues, loop, users
<1>1. TypeOK /\ NotifyPhase /\ Progress /\ CachesPresent
  BY DEF CallsInv
<1>2. ASSUME RunAction
      PROVE  CallsInv'
  <2> DEFINE s == Head(actions)[1]
             v == Head(actions)[2]
  <2>1. Head(actions) \in State \X Value /\ Tail(actions) \in Seq(State \X Value)
    BY <1>1, <1>2, HeadTailProperties DEF RunAction, TypeOK
  <2>2. s \in State /\ v \in Value /\ s \in Source /\ s \notin Scan
    BY <2>1, NodesAssumption, NodeSets
  <2>3. /\ val' \in [Source -> Value \cup {NoValue}]
        /\ \A x \in State : val'[x] \in Value
        /\ \A x \in Scan : val'[x] = val[x]
    BY <1>1, <1>2, <2>2, NodeSets DEF RunAction, Assign, TypeOK
  <2>4. moved' \in SUBSET Sink
    BY <1>1, <1>2 DEF RunAction, Assign, Readers, TypeOK
  <2>5. level' \in [Source -> DirtyLevel] /\ todo' \in [Source -> SUBSET Key]
    BY <1>1, <1>2, <2>2 DEF RunAction, BeginNotify, Bound, TypeOK, DirtyLevel
  <2>6. pc' \in [Node -> CallState] /\ NotifyPhase' /\ Progress' /\ CachesPresent'
    BY <1>2, <2>2, <2>3, QuietCalls DEF RunAction, BeginNotify
  <2>7. TypeOK'
    BY <1>1, <1>2, <2>1, <2>3, <2>4, <2>5, <2>6 DEF RunAction, TypeOK
  <2> QED
    BY <2>6, <2>7 DEF CallsInv
<1>3. ASSUME ApplyUnbind
      PROVE  CallsInv'
  <2>1. Head(unbinds) \in Effect /\ Tail(unbinds) \in Seq(Effect)
    BY <1>1, <1>3, HeadTailProperties DEF ApplyUnbind, TypeOK
  <2>2. pc' \in [Node -> CallState] /\ NotifyPhase' /\ Progress' /\ CachesPresent'
    BY <1>3, <2>1, QuietCalls, NodeSets DEF ApplyUnbind, BeginClear
  <2>3. TypeOK'
    BY <1>1, <1>3, <2>1, <2>2 DEF ApplyUnbind, TypeOK
  <2> QED
    BY <2>2, <2>3 DEF CallsInv
<1>4. ASSUME ApplyPending
      PROVE  CallsInv'
  <2>1. Head(notifys) \in State /\ Head(notifys) \in Source /\ Tail(notifys) \in Seq(State)
    BY <1>1, <1>4, HeadTailProperties, NodeSets DEF ApplyPending, TypeOK
  <2>2. level' \in [Source -> DirtyLevel] /\ todo' \in [Source -> SUBSET Key]
    BY <1>1, <1>4, <2>1 DEF ApplyPending, BeginNotify, Bound, TypeOK, DirtyLevel
  <2>3. pc' \in [Node -> CallState] /\ NotifyPhase' /\ Progress' /\ CachesPresent'
    BY <1>4, <2>1, QuietCalls DEF ApplyPending, BeginNotify
  <2>4. TypeOK'
    BY <1>1, <1>4, <2>1, <2>2, <2>3 DEF ApplyPending, TypeOK
  <2> QED
    BY <2>3, <2>4 DEF CallsInv
<1>5. ASSUME RunReaction
      PROVE  CallsInv'
  <2> DEFINE e == Head(batch)
  <2>1. e \in Effect /\ e \in Sink /\ e \in Node /\ Tail(batch) \in Seq(Effect)
    BY <1>1, <1>5, HeadTailProperties, NodeSets DEF RunReaction, TypeOK
  <2>2. CASE life[e] = "live" /\ dirty[e] # "Clean"
    <3>1. pc[e] = "idle" /\ \A m \in Source : pc[m] = "idle"
      BY <1>5, <2>1, NodeSets DEF RunReaction, Quiet
    <3>2. /\ pc' \in [Node -> CallState] /\ pos' \in [Sink -> 1 .. MaxReads + 1]
          /\ dirty' \in [Sink -> Dirty] /\ moved' \in SUBSET Sink
          /\ \A m \in Node : pc'[m] # pc[m] => m = e /\ pc'[m] \in {"check", "run"}
          /\ Progress' /\ CachesPresent'
      BY <1>5, <2>1, <2>2, <3>1, RefreshCalls DEF RunReaction
    <3>3. TypeOK'
      BY <1>1, <1>5, <2>1, <3>2 DEF RunReaction, TypeOK
    <3>4. NotifyPhase'
      BY <3>1, <3>2, NodeSets DEF NotifyPhase
    <3> QED
      BY <3>2, <3>3, <3>4 DEF CallsInv
  <2>3. CASE ~(life[e] = "live" /\ dirty[e] # "Clean")
    <3>1. TypeOK'
      BY <1>1, <1>5, <2>1, <2>3 DEF RunReaction, TypeOK
    <3>2. NotifyPhase' /\ Progress' /\ CachesPresent'
      BY <1>5, <2>3, QuietCalls DEF RunReaction
    <3> QED
      BY <3>1, <3>2 DEF CallsInv
  <2> QED
    BY <2>2, <2>3
<1>6. ASSUME Discard
      PROVE  CallsInv'
  <2> DEFINE n == Head(discards)
  <2>1. /\ n \in Scan /\ n \in Source /\ n \in Sink /\ n \notin State
        /\ Tail(discards) \in Seq(Scan)
    BY <1>1, <1>6, HeadTailProperties, NodeSets DEF Discard, TypeOK
  <2>2. /\ scheduled' = [scheduled EXCEPT ![n] = FALSE]
        /\ \/ /\ val' = [val EXCEPT ![n] = NoValue]
              /\ pc' = [pc EXCEPT ![n] = "clear"]
           \/ UNCHANGED <<val, pc>>
    BY <1>6 DEF Discard, BeginClear
  <2>3. /\ val' \in [Source -> Value \cup {NoValue}]
        /\ \A x \in State : val'[x] \in Value
    BY <1>1, <2>1, <2>2, NodeSets DEF TypeOK
  <2>4. \A x \in Scan : val'[x] = val[x] \/ pc'[x] = "clear"
    BY <1>1, <2>1, <2>2, NodeSets DEF TypeOK
  <2>5. pc' \in [Node -> CallState] /\ NotifyPhase' /\ Progress' /\ CachesPresent'
    BY <1>6, <2>1, <2>2, <2>4, QuietCalls DEF Discard
  <2>6. TypeOK'
    BY <1>1, <1>6, <2>1, <2>2, <2>3, <2>5 DEF Discard, TypeOK
  <2> QED
    BY <2>5, <2>6 DEF CallsInv
<1> QED
  BY <1>2, <1>3, <1>4, <1>5, <1>6

\* The dispatch functions move on between calls.
LEMMA DispatchCalls ==
    ASSUME CallsInv
    PROVE  /\ ActionsDone \/ ReactionsDone => CallsInv'
           /\ ApplyDone => CallsInv'
           /\ GetDone => CallsInv'
           /\ DiscardUnbinds \/ DiscardUnbindsDone \/ DiscardsDone => CallsInv'
<1> USE DEF graph, calls, sweep, disc, queues, loop, users
<1>1. TypeOK
  BY DEF CallsInv
<1>2. ASSUME ActionsDone \/ ReactionsDone
      PROVE  CallsInv'
  <2>1. TypeOK'
    BY <1>1, <1>2 DEF ActionsDone, ReactionsDone, Return, TypeOK
  <2>2. NotifyPhase' /\ Progress' /\ CachesPresent'
    BY <1>2, QuietCalls DEF ActionsDone, ReactionsDone
  <2> QED
    BY <2>1, <2>2 DEF CallsInv
<1>3. ASSUME ApplyDone
      PROVE  CallsInv'
  <2>1. TypeOK'
    BY <1>1, <1>3, EmptySeq DEF ApplyDone, Return, TypeOK
  <2>2. NotifyPhase' /\ Progress' /\ CachesPresent'
    BY <1>3, QuietCalls DEF ApplyDone
  <2> QED
    BY <2>1, <2>2 DEF CallsInv
<1>4. ASSUME GetDone
      PROVE  CallsInv'
  <2>1. TypeOK'
    BY <1>1, <1>4 DEF GetDone, TypeOK
  <2>2. NotifyPhase' /\ Progress' /\ CachesPresent'
    BY <1>4, QuietCalls DEF GetDone
  <2> QED
    BY <2>1, <2>2 DEF CallsInv
<1>5. ASSUME DiscardUnbinds \/ DiscardUnbindsDone \/ DiscardsDone
      PROVE  CallsInv'
  <2>1. TypeOK'
    BY <1>1, <1>5 DEF DiscardUnbinds, DiscardUnbindsDone, DiscardsDone, Return, TypeOK
  <2>2. NotifyPhase' /\ Progress' /\ CachesPresent'
    BY <1>5, QuietCalls DEF DiscardUnbinds, DiscardUnbindsDone, DiscardsDone
  <2> QED
    BY <2>1, <2>2 DEF CallsInv
<1> QED
  BY <1>2, <1>3, <1>4, <1>5

\* User code between two calls, or inside a closure.
LEMMA UserCalls ==
    ASSUME CallsInv
    PROVE  /\ \A s \in State, v \in Value : Set(s, v) => CallsInv'
           /\ \A s \in State, v \in Value : SetLoose(s, v) => CallsInv'
           /\ \A s \in State, v \in Value : SpawnSet(s, v) => CallsInv'
           /\ \A e \in Effect : Subscribe(e) \/ Unsubscribe(e) => CallsInv'
           /\ \A stage \in {"actions", "apply", "discards"} : Dispatch(stage) => CallsInv'
           /\ OpenContext \/ CloseContext \/ Flush => CallsInv'
           /\ \A n \in Scan : Get(n) => CallsInv'
<1> USE DEF graph, calls, sweep, disc, queues, loop, users
<1>1. TypeOK /\ NotifyPhase /\ Progress /\ CachesPresent
  BY DEF CallsInv
<1>2. ASSUME NEW s \in State, NEW v \in Value, Assign(s, v)
      PROVE  /\ val' \in [Source -> Value \cup {NoValue}]
             /\ \A x \in State : val'[x] \in Value
             /\ \A x \in Scan : val'[x] = val[x]
             /\ moved' \in SUBSET Sink
  BY <1>1, <1>2, NodesAssumption, NodeSets DEF Assign, Readers, TypeOK
<1>3. ASSUME NEW s \in State, NEW v \in Value, Set(s, v)
      PROVE  CallsInv'
  <2>1. /\ val' \in [Source -> Value \cup {NoValue}]
        /\ \A x \in State : val'[x] \in Value
        /\ \A x \in Scan : val'[x] = val[x]
        /\ moved' \in SUBSET Sink
    BY <1>2, <1>3 DEF Set
  <2>2. level' \in [Source -> DirtyLevel] /\ todo' \in [Source -> SUBSET Key]
    BY <1>1, <1>3, NodeSets DEF Set, BeginNotify, Bound, TypeOK, DirtyLevel
  <2>3. pc' \in [Node -> CallState] /\ NotifyPhase' /\ Progress' /\ CachesPresent'
    BY <1>3, <2>1, QuietCalls, NodeSets DEF Set, BeginNotify
  <2>4. TypeOK'
    BY <1>1, <1>3, <2>1, <2>2, <2>3 DEF Set, TypeOK
  <2> QED
    BY <2>3, <2>4 DEF CallsInv
<1>4. ASSUME NEW s \in State, NEW v \in Value, SetLoose(s, v)
      PROVE  CallsInv'
  <2>1. /\ val' \in [Source -> Value \cup {NoValue}]
        /\ \A x \in State : val'[x] \in Value
        /\ \A x \in Scan : val'[x] = val[x]
        /\ moved' \in SUBSET Sink
    BY <1>2, <1>4 DEF SetLoose
  <2>2. NotifyPhase' /\ Progress' /\ CachesPresent'
    BY <1>4, <2>1, QuietCalls DEF SetLoose
  <2>3. notifys' \in Seq(State)
    BY <1>1, <1>4, AppendProperties DEF SetLoose, TypeOK
  <2>4. TypeOK'
    BY <1>1, <1>4, <2>1, <2>3 DEF SetLoose, TypeOK
  <2> QED
    BY <2>2, <2>4 DEF CallsInv
<1>5. ASSUME NEW s \in State, NEW v \in Value, SpawnSet(s, v)
      PROVE  CallsInv'
  <2>1. actions' \in Seq(State \X Value)
    BY <1>1, <1>5, AppendProperties DEF SpawnSet, TypeOK
  <2>2. TypeOK'
    BY <1>1, <1>5, <2>1 DEF SpawnSet, TypeOK
  <2>3. NotifyPhase' /\ Progress' /\ CachesPresent'
    BY <1>1, <1>5 DEF SpawnSet, NotifyPhase, Progress, ProgressOf, CachesPresent
  <2> QED
    BY <2>2, <2>3 DEF CallsInv
<1>6. ASSUME NEW e \in Effect, Subscribe(e) \/ Unsubscribe(e)
      PROVE  CallsInv'
  <2>1. reactions' \in Seq(Effect) /\ unbinds' \in Seq(Effect)
    <3>1. CASE Subscribe(e)
      BY <1>1, <3>1, AppendProperties DEF Subscribe, TypeOK
    <3>2. CASE Unsubscribe(e)
      BY <1>1, <3>2, AppendProperties DEF Unsubscribe, TypeOK
    <3> QED
      BY <1>6, <3>1, <3>2
  <2>2. TypeOK'
    BY <1>1, <1>6, <2>1 DEF Subscribe, Unsubscribe, TypeOK
  <2>3. NotifyPhase' /\ Progress' /\ CachesPresent'
    BY <1>1, <1>6
       DEF Subscribe, Unsubscribe, NotifyPhase, Progress, ProgressOf, CachesPresent
  <2> QED
    BY <2>2, <2>3 DEF CallsInv
<1>7. ASSUME NEW stage \in {"actions", "apply", "discards"}, Dispatch(stage)
      PROVE  CallsInv'
  <2>1. TypeOK'
    BY <1>1, <1>7 DEF Dispatch, TypeOK
  <2>2. NotifyPhase' /\ Progress' /\ CachesPresent'
    BY <1>7, QuietCalls DEF Dispatch
  <2> QED
    BY <2>1, <2>2 DEF CallsInv
<1>8. ASSUME OpenContext \/ CloseContext \/ Flush
      PROVE  CallsInv'
  <2>1. TypeOK'
    BY <1>1, <1>8 DEF OpenContext, CloseContext, Flush, TypeOK
  <2>2. NotifyPhase' /\ Progress' /\ CachesPresent'
    BY <1>8, QuietCalls DEF OpenContext, CloseContext, Flush
  <2> QED
    BY <2>1, <2>2 DEF CallsInv
<1>9. ASSUME NEW n \in Scan, Get(n)
      PROVE  CallsInv'
  <2>1. TypeOK'
    BY <1>1, <1>9 DEF Get, TypeOK
  <2>2. NotifyPhase' /\ Progress' /\ CachesPresent'
    BY <1>9, QuietCalls DEF Get
  <2> QED
    BY <2>1, <2>2 DEF CallsInv
<1> QED
  BY <1>3, <1>4, <1>5, <1>6, <1>7, <1>8, <1>9

\* Every step keeps the call chain well-formed.
LEMMA StepCalls == CallsInv /\ [Next]_vars => CallsInv'
<1> SUFFICES ASSUME CallsInv, [Next]_vars PROVE CallsInv'
  OBVIOUS
<1>1. CASE Internal
  BY <1>1, NodeSets, NotifyDoneCalls, NotifySinkCalls, CheckCalls, RunCalls, UnbindCalls,
     RuntimeCalls, DispatchCalls DEF Internal
<1>2. CASE Users
  BY <1>2, UserCalls DEF Users
<1>3. CASE UNCHANGED vars
  BY <1>3 DEF vars, graph, calls, sweep, disc, queues, loop, users, CallsInv, TypeOK,
     NotifyPhase, Progress, ProgressOf, CachesPresent
<1> QED
  BY <1>1, <1>2, <1>3 DEF Next

\* The call chain is well-formed in every reachable state.
THEOREM SpecCallsInv == Spec => []CallsInv
BY InitCallsInv, StepCalls, PTL DEF Spec

\* Every variable keeps its type, in every reachable state of every graph.
THEOREM SpecTypeOK == Spec => []TypeOK
<1>1. CallsInv => TypeOK
  BY DEF CallsInv
<1> QED
  BY <1>1, SpecCallsInv, PTL

-----------------------------------------------------------------------------
(* The queue of discards. *)

\* Only signals that are not kept are ever put in the queue.
QueueInv == /\ ScheduledOnce
            /\ \A i \in 1 .. Len(discards) : discards[i] \notin Keep

\* try_schedule_discard adds a signal that is not in the queue, at most once.
LEMMA ScheduleQueue ==
    ASSUME TypeOK, QueueInv, NEW s \in Source, NEW after, TryScheduleDiscard(s, after)
    PROVE  /\ QueueInv'
           /\ \A n \in Scan : scheduled[n] => scheduled'[n]
           /\ s \in Scan \ Keep /\ NoSinks(after) => scheduled'[s]
<1>1. CASE s \in Scan \ Keep /\ ~scheduled[s] /\ NoSinks(after)
  <2>1. /\ scheduled' = [scheduled EXCEPT ![s] = TRUE]
        /\ discards' = <<s>> \o discards
    BY <1>1 DEF TryScheduleDiscard
  <2>2. /\ scheduled \in [Scan -> BOOLEAN] /\ s \in Scan
        /\ discards \in Seq(Scan) /\ Len(discards) \in Nat
    BY <1>1 DEF TypeOK
  <2>3. /\ Len(discards') = Len(discards) + 1
        /\ \A i \in 1 .. Len(discards') :
               discards'[i] = IF i = 1 THEN s ELSE discards[i - 1]
    BY <2>1, <2>2, ConcatProperties
  <2>4. \A i \in 1 .. Len(discards) : discards[i] # s
    BY <1>1, <2>2 DEF QueueInv, ScheduledOnce
  <2>5. \A i \in 1 .. Len(discards) : /\ i + 1 \in 1 .. Len(discards')
                                      /\ discards'[i + 1] = discards[i]
    BY <2>2, <2>3
  <2>6. ASSUME NEW n \in Scan
        PROVE  /\ scheduled'[n] <=> \E i \in 1 .. Len(discards') : discards'[i] = n
               /\ \A i, j \in 1 .. Len(discards') :
                      discards'[i] = n /\ discards'[j] = n => i = j
    <3>1. CASE n = s
      <4>1. scheduled'[n] /\ 1 \in 1 .. Len(discards') /\ discards'[1] = n
        BY <2>1, <2>2, <2>3, <3>1
      <4>2. \A i \in 1 .. Len(discards') : discards'[i] = n => i = 1
        BY <2>2, <2>3, <2>4, <3>1
      <4> QED
        BY <4>1, <4>2
    <3>2. CASE n # s
      <4>1. scheduled'[n] = scheduled[n]
        BY <2>1, <2>2, <3>2
      <4>2. \A i \in 1 .. Len(discards') :
                discards'[i] = n => i - 1 \in 1 .. Len(discards) /\ discards[i - 1] = n
        BY <2>2, <2>3, <3>2
      <4>3. scheduled[n] <=> \E i \in 1 .. Len(discards) : discards[i] = n
        BY DEF QueueInv, ScheduledOnce
      <4>4. scheduled'[n] <=> \E i \in 1 .. Len(discards') : discards'[i] = n
        BY <2>5, <4>1, <4>2, <4>3
      <4>5. \A i, j \in 1 .. Len(discards') :
                discards'[i] = n /\ discards'[j] = n => i - 1 = j - 1
        BY <4>2 DEF QueueInv, ScheduledOnce
      <4> QED
        BY <2>2, <2>3, <4>4, <4>5
    <3> QED
      BY <3>1, <3>2
  <2>7. \A i \in 1 .. Len(discards') : discards'[i] \notin Keep
    BY <1>1, <2>2, <2>3 DEF QueueInv
  <2> QED
    BY <2>1, <2>2, <2>6, <2>7 DEF QueueInv, ScheduledOnce
<1>2. CASE ~(s \in Scan \ Keep /\ ~scheduled[s] /\ NoSinks(after))
  BY <1>2 DEF TryScheduleDiscard, QueueInv, ScheduledOnce, disc
<1> QED
  BY <1>1, <1>2

\* dispatch_discards takes a signal out of the queue and resets its flag.
LEMMA DiscardQueue ==
    ASSUME TypeOK, QueueInv, Discard
    PROVE  QueueInv'
<1> DEFINE n == Head(discards)
<1>1. /\ scheduled' = [scheduled EXCEPT ![n] = FALSE] /\ discards' = Tail(discards)
      /\ scheduled \in [Scan -> BOOLEAN] /\ discards \in Seq(Scan) /\ discards # <<>>
  BY DEF Discard, TypeOK
<1>2. /\ Len(discards) \in Nat \ {0} /\ n = discards[1] /\ n \in Scan
      /\ Len(discards') = Len(discards) - 1
      /\ \A i \in 1 .. Len(discards') : discards'[i] = discards[i + 1]
  BY <1>1, EmptySeq, HeadTailProperties
<1>3. \A i \in 1 .. Len(discards') : i + 1 \in 1 .. Len(discards) /\ i + 1 # 1
  BY <1>2
<1>4. \A i \in 1 .. Len(discards) :
          i # 1 => i - 1 \in 1 .. Len(discards') /\ discards'[i - 1] = discards[i]
  BY <1>2
<1>5. ASSUME NEW m \in Scan
      PROVE  /\ scheduled'[m] <=> \E i \in 1 .. Len(discards') : discards'[i] = m
             /\ \A i, j \in 1 .. Len(discards') :
                    discards'[i] = m /\ discards'[j] = m => i = j
  <2>1. /\ scheduled[m] <=> \E i \in 1 .. Len(discards) : discards[i] = m
        /\ \A i, j \in 1 .. Len(discards) : discards[i] = m /\ discards[j] = m => i = j
    BY DEF QueueInv, ScheduledOnce
  <2>2. \A i, j \in 1 .. Len(discards') :
            discards'[i] = m /\ discards'[j] = m => i + 1 = j + 1
    BY <1>2, <1>3, <2>1
  <2>3. CASE m = n
    <3>1. ~scheduled'[m]
      BY <1>1, <1>2, <2>3
    <3>2. \A i \in 1 .. Len(discards') : discards'[i] # m
      BY <1>2, <1>3, <2>1, <2>3
    <3> QED
      BY <1>2, <2>2, <3>1, <3>2
  <2>4. CASE m # n
    <3>1. scheduled'[m] = scheduled[m]
      BY <1>1, <2>4
    <3>2. \A i \in 1 .. Len(discards) : discards[i] = m => i # 1
      BY <1>2, <2>4
    <3> QED
      BY <1>2, <1>3, <1>4, <2>1, <2>2, <3>1, <3>2
  <2> QED
    BY <2>3, <2>4
<1>6. \A i \in 1 .. Len(discards') : discards'[i] \notin Keep
  BY <1>2, <1>3 DEF QueueInv
<1> QED
  BY <1>5, <1>6 DEF QueueInv, ScheduledOnce

\* What each step does to the queue of discards.
LEMMA QueueSteps ==
    ASSUME TypeOK, Next
    PROVE  \/ UNCHANGED disc
           \/ Discard
           \/ \E s \in Source : \E after : TryScheduleDiscard(s, after)
<1> USE DEF graph, calls, sweep, disc, queues, loop, users
<1>1. ASSUME NEW n \in Scan, ScanUpdate(n)
      PROVE  \E s \in Source : \E after : TryScheduleDiscard(s, after)
  <2>1. n \in Source /\ TryScheduleDiscard(n, sinks[n])
    BY <1>1, NodeSets DEF ScanUpdate
  <2> QED
    BY <2>1
<1>2. ASSUME NEW n \in Sink, Bind(n)
      PROVE  \/ UNCHANGED disc
             \/ \E s \in Source : \E after : TryScheduleDiscard(s, after)
  <2> DEFINE i == Len(seen[n]) + 1
  <2>1. CASE i <= Len(srcs[n]) /\ TryScheduleDiscard(srcs[n][i], sinks'[srcs[n][i]])
    <3>1. /\ seen[n] \in Seq(Value) /\ srcs[n] \in Seq(Source)
      BY ReadsAreSequences DEF TypeOK
    <3>2. srcs[n][i] \in Source
      BY <2>1, <3>1
    <3> QED
      BY <2>1, <3>2
  <2> QED
    BY <1>2, <2>1 DEF Bind
<1>3. ASSUME NEW n \in Sink, UnbindSource(n)
      PROVE  \E s \in Source : \E after : TryScheduleDiscard(s, after)
  <2>1. /\ srcs[n] \in Seq(Source) /\ pos[n] \in 1 .. Len(srcs[n])
    BY <1>3, NodesAssumption DEF UnbindSource, TypeOK
  <2>2. /\ srcs[n][pos[n]] \in Source
        /\ TryScheduleDiscard(srcs[n][pos[n]], sinks'[srcs[n][pos[n]]])
    BY <1>3, <2>1 DEF UnbindSource
  <2> QED
    BY <2>2
<1>4. CASE Internal
  <2>1. ASSUME NEW s \in Source, NotifyDone(s) \/ \E k \in Key : NotifySink(s, k)
        PROVE  UNCHANGED disc
    BY <2>1 DEF NotifyDone, NotifySink
  <2>2. ASSUME NEW n \in Sink, \/ CheckSource(n) \/ CheckDone(n) \/ ReadValue(n)
                               \/ CloseRun(n) \/ TrimDone(n) \/ ClearDone(n)
        PROVE  UNCHANGED disc
    BY <2>2 DEF CheckSource, CheckDone, ReadValue, CloseRun, TrimDone, ClearDone
  <2>3. ASSUME \/ RunAction \/ ActionsDone \/ ApplyUnbind \/ ApplyPending \/ ApplyDone
               \/ GetDone \/ RunReaction \/ ReactionsDone
               \/ DiscardUnbinds \/ DiscardUnbindsDone \/ DiscardsDone
        PROVE  UNCHANGED disc
    BY <2>3 DEF RunAction, ActionsDone, ApplyUnbind, ApplyPending, ApplyDone, GetDone,
                RunReaction, ReactionsDone, DiscardUnbinds, DiscardUnbindsDone, DiscardsDone
  <2> QED
    BY <1>1, <1>2, <1>3, <1>4, <2>1, <2>2, <2>3 DEF Internal
<1>5. CASE Users
  BY <1>5 DEF Users, Set, SetLoose, SpawnSet, Subscribe, Unsubscribe, Dispatch, OpenContext,
              CloseContext, Get, Flush
<1> QED
  BY <1>4, <1>5 DEF Next

\* The flag of a signal and its place in the queue always agree.
LEMMA SpecQueueInv == Spec => []QueueInv
<1>1. Init => QueueInv
  <2> SUFFICES ASSUME Init PROVE QueueInv
    OBVIOUS
  <2>1. Len(discards) = 0 /\ 1 .. Len(discards) = {}
    BY EmptySeq DEF Init
  <2> QED
    BY <2>1 DEF Init, QueueInv, ScheduledOnce
<1>2. CallsInv /\ QueueInv /\ [Next]_vars => QueueInv'
  <2> SUFFICES ASSUME TypeOK, QueueInv, [Next]_vars PROVE QueueInv'
    BY DEF CallsInv
  <2>1. CASE UNCHANGED disc
    BY <2>1 DEF disc, QueueInv, ScheduledOnce
  <2>2. CASE Next
    BY <2>1, <2>2, QueueSteps, DiscardQueue, ScheduleQueue
  <2>3. CASE UNCHANGED vars
    BY <2>1, <2>3 DEF vars
  <2> QED
    BY <2>2, <2>3
<1> QED
  BY <1>1, <1>2, SpecCallsInv, PTL DEF Spec

\* discard_scheduled tells exactly which signals are in RuntimeData::discards, and none is
\* there twice.
THEOREM SpecScheduledOnce == Spec => []ScheduledOnce
<1>1. QueueInv => ScheduledOnce
  BY DEF QueueInv
<1> QED
  BY <1>1, SpecQueueInv, PTL

\* dispatch_discards never drops the cache of a signal built with keep().
THEOREM SpecKeptCacheStays == Spec => KeptCacheStays
<1>1. ASSUME CallsInv, QueueInv, [Next]_vars, NEW n \in Keep, val[n] # NoValue
      PROVE  val'[n] # NoValue
  <2> USE DEF graph, calls, sweep, disc, queues, loop, users
  <2>1. TypeOK /\ n \in Scan /\ n \in Source /\ n \notin State
    BY <1>1, NodesAssumption, NodeSets DEF CallsInv
  <2>2. ASSUME NEW m \in Sink, CloseRun(m)
        PROVE  val'[n] # NoValue
    <3>1. m \in Scan => Result(m, seen[m]) \in Value
      BY <2>1, ClosureAssumption DEF TypeOK
    <3>2. \/ m \in Scan /\ val' = [val EXCEPT ![m] = Result(m, seen[m])]
          \/ UNCHANGED val
      BY <2>2 DEF CloseRun
    <3> QED
      BY <1>1, <2>1, <3>1, <3>2, NodesAssumption DEF TypeOK
  <2>3. ASSUME Discard
        PROVE  val'[n] # NoValue
    <3>1. discards \in Seq(Scan) /\ discards # <<>>
      BY <2>1, <2>3 DEF Discard, TypeOK
    <3>2. Head(discards) \notin Keep
      <4>1. 1 \in 1 .. Len(discards) /\ Head(discards) = discards[1]
        BY <3>1, EmptySeq
      <4> QED
        BY <1>1, <4>1 DEF QueueInv
    <3> QED
      BY <1>1, <2>1, <2>3, <3>2 DEF Discard, TypeOK
  <2>4. ASSUME NEW s \in State, NEW v, Assign(s, v)
        PROVE  val'[n] # NoValue
    BY <1>1, <2>1, <2>4 DEF Assign, TypeOK
  <2>5. ASSUME RunAction
        PROVE  val'[n] # NoValue
    <3>1. Head(actions) \in State \X Value
      BY <2>1, <2>5, HeadTailProperties DEF RunAction, TypeOK
    <3>2. Head(actions)[1] \in State
      BY <3>1
    <3> QED
      BY <2>4, <2>5, <3>2 DEF RunAction
  <2>6. CASE Internal
    <3>1. ASSUME NEW s \in Source, NotifyDone(s) \/ \E k \in Key : NotifySink(s, k)
          PROVE  UNCHANGED val
      BY <3>1 DEF NotifyDone, NotifySink
    <3>2. ASSUME NEW m \in Sink, \/ ScanUpdate(m) \/ CheckSource(m) \/ CheckDone(m) \/ Bind(m)
                                 \/ ReadValue(m) \/ UnbindSource(m) \/ TrimDone(m) \/ ClearDone(m)
          PROVE  UNCHANGED val
      BY <3>2 DEF ScanUpdate, CheckSource, CheckDone, Bind, ReadValue, UnbindSource, TrimDone,
                  ClearDone
    <3>3. ASSUME \/ ActionsDone \/ ApplyUnbind \/ ApplyPending \/ ApplyDone \/ GetDone
                 \/ RunReaction \/ ReactionsDone
                 \/ DiscardUnbinds \/ DiscardUnbindsDone \/ DiscardsDone
          PROVE  UNCHANGED val
      BY <3>3 DEF ActionsDone, ApplyUnbind, ApplyPending, ApplyDone, GetDone, RunReaction,
                  ReactionsDone, DiscardUnbinds, DiscardUnbindsDone, DiscardsDone
    <3>4. UNCHANGED val => val'[n] # NoValue
      BY <1>1
    <3> QED
      BY <2>2, <2>3, <2>5, <2>6, <3>1, <3>2, <3>3, <3>4, NodeSets DEF Internal
  <2>7. CASE Users
    BY <1>1, <2>4, <2>7
       DEF Users, Set, SetLoose, SpawnSet, Subscribe, Unsubscribe, Dispatch, OpenContext,
           CloseContext, Get, Flush
  <2>8. CASE UNCHANGED vars
    BY <1>1, <2>8 DEF vars
  <2> QED
    BY <1>1, <2>6, <2>7, <2>8 DEF Next
<1>2. CallsInv /\ QueueInv /\ [Next]_vars =>
          [\A n \in Keep : val[n] # NoValue => val'[n] # NoValue]_vars
  BY <1>1
<1> QED
  BY <1>2, SpecCallsInv, SpecQueueInv, PTL DEF Spec, KeptCacheStays

-----------------------------------------------------------------------------
(* The two ends of the bindings. *)

\* A sweep only visits entries that exist.
Sweeps == \A s \in Source : /\ todo[s] \subseteq Bound(s)
                            /\ pc[s] # "notify" => todo[s] = {}

BoundAt(n, i) == pc[n] \in {"trim", "clear"} => i <= Len(seen[n]) \/ i >= pos[n]
BindingAt(s, n, i) ==
    sinks[s][n][i] # "Unbound" <=> i <= Len(srcs[n]) /\ srcs[n][i] = s /\ BoundAt(n, i)

\* No entry is created or removed.
SameEntries ==
    \A s \in Source, n \in Sink, i \in Index :
        sinks'[s][n][i] = "Unbound" <=> sinks[s][n][i] = "Unbound"

\* Each sink stays in its unbinding loop or enters it at or before the first source it
\* did not read.
SameLoops ==
    \A n \in Sink :
        \/ /\ pc[n] \in {"trim", "clear"} /\ pc'[n] = pc[n]
           /\ pos'[n] = pos[n] /\ seen'[n] = seen[n]
        \/ /\ pc[n] \notin {"trim", "clear"}
           /\ pc'[n] \in {"trim", "clear"} => pos'[n] <= Len(seen'[n]) + 1

\* A step that creates and removes no entry keeps the two ends in agreement.
LEMMA BindingsStay ==
    ASSUME TypeOK, TypeOK', BindingsAgree, UNCHANGED srcs, SameEntries, SameLoops
    PROVE  BindingsAgree'
<1> SUFFICES ASSUME NEW s \in Source, NEW n \in Sink, NEW i \in Index
             PROVE  BindingAt(s, n, i)'
  BY DEF BindingsAgree, BindingAt, BoundAt
<1>1. BindingAt(s, n, i)
  BY DEF BindingsAgree, BindingAt, BoundAt
<1>2. i \in Nat /\ pos'[n] \in Nat /\ Len(seen'[n]) \in Nat
  <2>1. pos' \in [Sink -> 1 .. MaxReads + 1] /\ seen' \in [Sink -> Reads]
    BY DEF TypeOK
  <2>2. seen'[n] \in Seq(Value)
    BY <2>1, ReadsAreSequences
  <2> QED
    BY <2>1, <2>2, NodesAssumption DEF Index
<1>3. BoundAt(n, i)' <=> BoundAt(n, i)
  <2>1. CASE pc[n] \in {"trim", "clear"}
    BY <2>1 DEF SameLoops, BoundAt
  <2>2. CASE pc[n] \notin {"trim", "clear"}
    BY <1>2, <2>2 DEF SameLoops, BoundAt
  <2> QED
    BY <2>1, <2>2
<1> QED
  BY <1>1, <1>3 DEF BindingAt, SameEntries

\* One entry of one source replaced.
LEMMA ReplaceEntry ==
    ASSUME NEW table \in [Source -> [Sink -> [Index -> Entry]]],
           NEW s \in Source, NEW n \in Sink, NEW i \in Index, NEW new \in Entry
    PROVE  /\ [table EXCEPT ![s][n][i] = new] \in [Source -> [Sink -> [Index -> Entry]]]
           /\ \A r \in Source, m \in Sink, j \in Index :
                  [table EXCEPT ![s][n][i] = new][r][m][j] =
                      IF r = s /\ m = n /\ j = i THEN new ELSE table[r][m][j]
OBVIOUS

\* What Bind does to the entries of all sources.
LEMMA BindEntries ==
    ASSUME CallsInv, NEW n \in Sink, Bind(n)
    PROVE  LET s == NextRead(n, seen[n])
               i == Len(seen[n]) + 1
               replaced == i <= Len(srcs[n]) /\ srcs[n][i] # s
           IN  \A r \in Source, m \in Sink, j \in Index :
                   sinks'[r][m][j] =
                       IF m = n /\ j = i /\ replaced /\ r = srcs[n][i] THEN "Unbound"
                       ELSE IF m = n /\ j = i /\ r = s THEN "Clean" ELSE sinks[r][m][j]
<1> DEFINE s == NextRead(n, seen[n])
           i == Len(seen[n]) + 1
           bound == [sinks EXCEPT ![s][n][i] = "Clean"]
<1>1. /\ sinks \in [Source -> [Sink -> [Index -> Entry]]]
      /\ s \in Source /\ i \in Index /\ i \in Nat /\ srcs[n] \in Seq(Source)
  BY NextReadTypes, ReadsAreSequences, NodesAssumption DEF CallsInv, TypeOK, Bind, Index
<1>2. "Clean" \in Entry /\ "Unbound" \in Entry
  BY DEF Entry, Dirty
<1>3. /\ bound \in [Source -> [Sink -> [Index -> Entry]]]
      /\ \A r \in Source, m \in Sink, j \in Index :
             bound[r][m][j] =
                 IF r = s /\ m = n /\ j = i THEN "Clean" ELSE sinks[r][m][j]
  BY <1>1, <1>2, ReplaceEntry
<1>4. CASE i <= Len(srcs[n]) /\ srcs[n][i] # s
  <2>1. srcs[n][i] \in Source
    BY <1>1, <1>4 DEF Index
  <2>2. sinks' = [bound EXCEPT ![srcs[n][i]][n][i] = "Unbound"]
    BY <1>1, <1>4 DEF Bind
  <2> HIDE DEF bound
  <2>3. \A r \in Source, m \in Sink, j \in Index :
            sinks'[r][m][j] = IF r = srcs[n][i] /\ m = n /\ j = i THEN "Unbound"
                              ELSE bound[r][m][j]
    BY <1>1, <1>2, <1>3, <2>1, <2>2, ReplaceEntry
  <2> QED
    BY <1>3, <1>4, <2>3
<1>5. CASE ~(i <= Len(srcs[n]) /\ srcs[n][i] # s)
  <2>1. sinks' = bound
    BY <1>5 DEF Bind
  <2> QED
    BY <1>3, <1>5, <2>1
<1> QED
  BY <1>4, <1>5

\* SinkBindings::bind changes both ends: it reuses, replaces or appends a binding.
LEMMA BindBindings ==
    ASSUME CallsInv, TypeOK', BindingsAgree, NEW x \in Sink, Bind(x)
    PROVE  BindingsAgree'
<1> DEFINE t == NextRead(x, seen[x])
           j == Len(seen[x]) + 1
<1>1. TypeOK /\ Progress /\ x \in Node /\ pc[x] = "run" /\ t # Done
  BY NodeSets DEF CallsInv, Bind
<1>2. /\ t \in Source /\ j \in Index /\ j \in Nat /\ seen[x] \in Reads
      /\ srcs[x] \in Seq(Source) /\ Len(srcs[x]) \in Nat /\ j <= Len(srcs[x]) + 1
  <2>1. /\ seen[x] \in Reads /\ Len(seen[x]) \in Nat /\ Len(seen[x]) <= Len(srcs[x])
        /\ srcs[x] \in Seq(Source) /\ Len(srcs[x]) \in Nat
    BY <1>1, SinkTypes
  <2>2. t \in Source /\ j \in Index
    BY <1>1, <2>1, NextReadTypes
  <2> QED
    BY <2>1, <2>2
<1>3. /\ pc' = [pc EXCEPT ![x] = "read"] /\ UNCHANGED <<pos, seen>>
      /\ \A n \in Sink : n # x => srcs'[n] = srcs[n]
  BY <1>1 DEF Bind, TypeOK
<1> SUFFICES ASSUME NEW s \in Source, NEW n \in Sink, NEW i \in Index
             PROVE  BindingAt(s, n, i)'
  BY DEF BindingsAgree, BindingAt, BoundAt
<1>4. BindingAt(s, n, i) /\ i \in Nat /\ n \in Node
  BY NodeSets DEF BindingsAgree, BindingAt, BoundAt, Index
<1>5. CASE n # x
  <2>1. sinks'[s][n][i] = sinks[s][n][i]
    BY <1>5, BindEntries
  <2>2. pc'[n] = pc[n]
    BY <1>1, <1>3, <1>4, <1>5 DEF TypeOK
  <2> QED
    BY <1>3, <1>4, <1>5, <2>1, <2>2 DEF BindingAt, BoundAt
<1>6. CASE n = x
  <2>1. BoundAt(n, i) /\ BoundAt(n, i)'
    BY <1>1, <1>3, <1>4, <1>6 DEF BoundAt, TypeOK
  <2>2. CASE j <= Len(srcs[x]) /\ srcs[x][j] = t
    <3>1. srcs' = srcs
      BY <2>2 DEF Bind
    <3>2. sinks'[s][n][i] = IF s = t /\ i = j THEN "Clean" ELSE sinks[s][n][i]
      BY <1>6, <2>2, BindEntries
    <3> QED
      BY <1>4, <1>6, <2>1, <2>2, <3>1, <3>2 DEF BindingAt
  <2>3. CASE j <= Len(srcs[x]) /\ srcs[x][j] # t
    <3>1. srcs' = [srcs EXCEPT ![x][j] = t]
      BY <2>3 DEF Bind
    <3>2. sinks'[s][n][i] = IF s = srcs[x][j] /\ i = j THEN "Unbound"
                            ELSE IF s = t /\ i = j THEN "Clean" ELSE sinks[s][n][i]
      BY <1>6, <2>3, BindEntries
    <3>3. /\ Len(srcs'[x]) = Len(srcs[x])
          /\ \A k \in 1 .. Len(srcs[x]) : srcs'[x][k] = IF k = j THEN t ELSE srcs[x][k]
      <4>1. srcs'[x] = [srcs[x] EXCEPT ![j] = t]
        BY <1>1, <3>1, SinkTypes
      <4>2. j \in 1 .. Len(srcs[x])
        BY <1>2, <2>3
      <4> HIDE DEF t, j
      <4> QED
        BY <1>2, <4>1, <4>2, ExceptSeq
    <3>4. i <= Len(srcs[x]) => i \in 1 .. Len(srcs[x])
      BY <1>2, <1>4 DEF Index
    <3> QED
      BY <1>2, <1>4, <1>6, <2>1, <2>3, <3>2, <3>3, <3>4 DEF BindingAt
  <2>4. CASE j > Len(srcs[x])
    <3>1. srcs' = [srcs EXCEPT ![x] = Append(srcs[x], t)]
      BY <1>2, <2>4 DEF Bind
    <3>2. sinks'[s][n][i] = IF s = t /\ i = j THEN "Clean" ELSE sinks[s][n][i]
      BY <1>2, <1>6, <2>4, BindEntries
    <3>3. /\ j = Len(srcs[x]) + 1 /\ Len(srcs'[x]) = j
          /\ \A k \in 1 .. j : srcs'[x][k] = IF k = j THEN t ELSE srcs[x][k]
      <4>1. j = Len(srcs[x]) + 1 /\ srcs'[x] = Append(srcs[x], t)
        <5>1. j = Len(srcs[x]) + 1
          BY <1>2, <2>4
        <5>2. srcs'[x] = Append(srcs[x], t)
          BY <1>1, <3>1, SinkTypes
        <5> QED
          BY <5>1, <5>2
      <4>2. /\ Len(Append(srcs[x], t)) = Len(srcs[x]) + 1
            /\ \A k \in 1 .. Len(srcs[x]) : Append(srcs[x], t)[k] = srcs[x][k]
            /\ Append(srcs[x], t)[Len(srcs[x]) + 1] = t
        BY <1>2, AppendProperties
      <4> HIDE DEF t, j
      <4> QED
        BY <1>2, <4>1, <4>2
    <3>4. i <= j => i \in 1 .. j
      BY <1>2, <1>4 DEF Index
    <3> QED
      BY <1>2, <1>4, <1>6, <2>1, <2>4, <3>2, <3>3, <3>4 DEF BindingAt
  <2> QED
    BY <1>2, <2>2, <2>3, <2>4
<1> QED
  BY <1>5, <1>6

\* An unbinding loop removes entries behind pos, and its end the list of their sources.
LEMMA UnbindBindings ==
    ASSUME CallsInv, TypeOK', BindingsAgree, NEW x \in Sink
    PROVE  /\ UnbindSource(x) => BindingsAgree'
           /\ TrimDone(x) => BindingsAgree'
           /\ ClearDone(x) => BindingsAgree'
<1>1. TypeOK /\ Progress /\ x \in Node
  BY NodeSets DEF CallsInv
<1>2. /\ srcs[x] \in Seq(Source) /\ Len(srcs[x]) \in Nat /\ Len(srcs[x]) <= MaxReads
      /\ Len(seen[x]) \in Nat /\ Len(seen[x]) <= Len(srcs[x]) /\ pos[x] \in Nat
      /\ pos[x] >= 1
      /\ pc[x] \in {"trim", "clear"} => Len(seen[x]) < pos[x]
  <2>1. /\ srcs[x] \in Seq(Source) /\ Len(srcs[x]) \in Nat /\ Len(srcs[x]) <= MaxReads
        /\ Len(seen[x]) \in Nat /\ Len(seen[x]) <= Len(srcs[x]) /\ pos[x] \in Nat
        /\ pos[x] >= 1
    BY <1>1, SinkTypes
  <2>2. pc[x] = "clear" => Len(seen[x]) = 0
    BY <1>1, EmptySeq DEF Progress, ProgressOf
  <2>3. pc[x] = "trim" => Len(seen[x]) < pos[x]
    BY <1>1 DEF Progress, ProgressOf
  <2> QED
    BY <2>1, <2>2, <2>3
<1>3. ASSUME NEW s \in Source, NEW n \in Sink, NEW i \in Index
      PROVE  BindingAt(s, n, i) /\ i \in Nat /\ i >= 1 /\ n \in Node
  BY NodeSets, NodesAssumption DEF BindingsAgree, BindingAt, BoundAt, Index
<1>4. ASSUME UnbindSource(x)
      PROVE  BindingsAgree'
  <2> SUFFICES ASSUME NEW s \in Source, NEW n \in Sink, NEW i \in Index
               PROVE  BindingAt(s, n, i)'
    BY DEF BindingsAgree, BindingAt, BoundAt
  <2> DEFINE t == srcs[x][pos[x]]
  <2>1. t \in Source /\ pos[x] \in Index /\ pc[x] \in {"trim", "clear"}
    <3>1. pos[x] \in 1 .. Len(srcs[x]) /\ pc[x] \in {"trim", "clear"}
      BY <1>2, <1>4 DEF UnbindSource
    <3> QED
      BY <1>2, <3>1, NodesAssumption DEF Index
  <2>2. sinks' = [sinks EXCEPT ![t][x][pos[x]] = "Unbound"]
    BY <1>4 DEF UnbindSource, Unbind
  <2>3. sinks'[s][n][i] = IF s = t /\ n = x /\ i = pos[x] THEN "Unbound" ELSE sinks[s][n][i]
    <3>1. sinks \in [Source -> [Sink -> [Index -> Entry]]]
      BY <1>1 DEF TypeOK
    <3>2. "Unbound" \in Entry
      BY DEF Entry
    <3> HIDE DEF t
    <3> QED
      BY <2>1, <2>2, <3>1, <3>2, ReplaceEntry
  <2>4. UNCHANGED <<pc, seen, srcs>> /\ pos' = [pos EXCEPT ![x] = pos[x] + 1]
    BY <1>4 DEF UnbindSource
  <2>5. CASE n # x
    <3>1. sinks'[s][n][i] = sinks[s][n][i] /\ BindingAt(s, n, i)
      BY <1>3, <2>3, <2>5
    <3>2. pos'[n] = pos[n]
      BY <1>1, <2>4, <2>5, SinkTypes
    <3> QED
      BY <2>4, <3>1, <3>2 DEF BindingAt, BoundAt
  <2>6. CASE n = x
    <3>1. pos'[x] = pos[x] + 1
      BY <1>1, <2>4 DEF TypeOK
    <3> HIDE DEF t
    <3>2. t = srcs[x][pos[x]]
      BY DEF t
    <3> QED
      BY <1>2, <1>3, <2>1, <2>3, <2>4, <2>6, <3>1, <3>2 DEF BindingAt, BoundAt
  <2> QED
    BY <2>5, <2>6
<1>5. ASSUME TrimDone(x)
      PROVE  BindingsAgree'
  <2> SUFFICES ASSUME NEW s \in Source, NEW n \in Sink, NEW i \in Index
               PROVE  BindingAt(s, n, i)'
    BY DEF BindingsAgree, BindingAt, BoundAt
  <2>1. /\ pc[x] = "trim" /\ pos[x] > Len(srcs[x]) /\ pc' = [pc EXCEPT ![x] = "idle"]
        /\ srcs' = [srcs EXCEPT ![x] = SubSeq(srcs[x], 1, Len(seen[x]))]
        /\ pos' = [pos EXCEPT ![x] = 1] /\ seen' = [seen EXCEPT ![x] = <<>>]
    BY <1>5 DEF TrimDone
  <2>2. sinks'[s][n][i] = "Unbound" <=> sinks[s][n][i] = "Unbound"
    <3>1. CASE x \in Scan
      <4>1. /\ x \in Source /\ sinks[x] \in [Sink -> [Index -> Entry]]
            /\ result[x] \in BOOLEAN
        BY <1>1, <3>1, NodeSets DEF TypeOK
      <4>2. sinks' = [sinks EXCEPT ![x] = Resolve(sinks[x], result[x])]
        BY <1>5, <3>1 DEF TrimDone
      <4>3. \A m \in Sink, j \in Index :
                Resolve(sinks[x], result[x])[m][j] = "Unbound" <=> sinks[x][m][j] = "Unbound"
        BY <4>1, ResolveTypes
      <4>4. sinks'[s] = IF s = x THEN Resolve(sinks[x], result[x]) ELSE sinks[s]
        BY <1>1, <4>1, <4>2 DEF TypeOK
      <4> QED
        BY <4>3, <4>4
    <3>2. CASE x \notin Scan
      BY <1>5, <3>2 DEF TrimDone
    <3> QED
      BY <3>1, <3>2
  <2>3. CASE n # x
    <3>1. pc'[n] = pc[n] /\ srcs'[n] = srcs[n] /\ pos'[n] = pos[n] /\ seen'[n] = seen[n]
      BY <1>1, <1>3, <2>1, <2>3 DEF TypeOK
    <3> QED
      BY <1>3, <2>2, <3>1 DEF BindingAt, BoundAt
  <2>4. CASE n = x
    <3>1. pc'[n] = "idle" /\ srcs'[n] = SubSeq(srcs[x], 1, Len(seen[x]))
      BY <1>1, <2>1, <2>4 DEF TypeOK
    <3>2. /\ Len(srcs'[n]) = Len(seen[x])
          /\ i <= Len(seen[x]) => srcs'[n][i] = srcs[x][i]
      BY <1>2, <1>3, <3>1
    <3> QED
      BY <1>2, <1>3, <2>1, <2>2, <2>4, <3>1, <3>2 DEF BindingAt, BoundAt
  <2> QED
    BY <2>3, <2>4
<1>6. ASSUME ClearDone(x)
      PROVE  BindingsAgree'
  <2> SUFFICES ASSUME NEW s \in Source, NEW n \in Sink, NEW i \in Index
               PROVE  BindingAt(s, n, i)'
    BY DEF BindingsAgree, BindingAt, BoundAt
  <2>1. /\ pc[x] = "clear" /\ pos[x] > Len(srcs[x]) /\ pc' = [pc EXCEPT ![x] = "idle"]
        /\ srcs' = [srcs EXCEPT ![x] = <<>>] /\ pos' = [pos EXCEPT ![x] = 1]
        /\ UNCHANGED <<sinks, seen>>
    BY <1>6 DEF ClearDone
  <2>2. CASE n # x
    <3>1. pc'[n] = pc[n] /\ srcs'[n] = srcs[n] /\ pos'[n] = pos[n]
      BY <1>1, <1>3, <2>1, <2>2 DEF TypeOK
    <3> QED
      BY <1>3, <2>1, <3>1 DEF BindingAt, BoundAt
  <2>3. CASE n = x
    <3>1. srcs'[n] = <<>> /\ Len(srcs'[n]) = 0
      BY <1>1, <2>1, <2>3, EmptySeq DEF TypeOK
    <3>2. Len(seen[x]) = 0
      BY <1>1, <2>1, EmptySeq DEF Progress, ProgressOf
    <3> QED
      BY <1>2, <1>3, <2>1, <2>3, <3>1, <3>2 DEF BindingAt, BoundAt
  <2> QED
    BY <2>2, <2>3
<1> QED
  BY <1>4, <1>5, <1>6

\* The steps that neither bind nor unbind.
LEMMA OtherBindings ==
    ASSUME CallsInv, TypeOK', BindingsAgree, Sweeps, Next,
           \A n \in Sink : ~Bind(n) /\ ~UnbindSource(n) /\ ~TrimDone(n) /\ ~ClearDone(n)
    PROVE  UNCHANGED srcs /\ SameEntries /\ SameLoops
<1> USE DEF graph, calls, sweep, disc, queues, loop, users
<1>1. TypeOK /\ NotifyPhase /\ Progress
  BY DEF CallsInv
<1>2. ASSUME UNCHANGED <<srcs, sinks, pc, pos, seen>>
      PROVE  UNCHANGED srcs /\ SameEntries /\ SameLoops
  BY <1>2 DEF SameEntries, SameLoops
<1>3. ASSUME Quiet, UNCHANGED <<srcs, sinks, seen>>,
             \A n \in Sink : pos'[n] = pos[n] \/ pos'[n] = 1
      PROVE  UNCHANGED srcs /\ SameEntries /\ SameLoops
  <2>1. \A n \in Sink : pc[n] = "idle" /\ pos[n] = 1 /\ Len(seen[n]) = 0
    BY <1>1, <1>3, NodeSets, EmptySeq DEF Quiet, Progress, ProgressOf
  <2> QED
    BY <1>3, <2>1 DEF SameEntries, SameLoops
<1>4. ASSUME NEW s \in Source, NotifyDone(s)
      PROVE  UNCHANGED srcs /\ SameEntries /\ SameLoops
  BY <1>1, <1>4, NodeSets DEF NotifyDone, SameEntries, SameLoops, TypeOK
<1>5. ASSUME NEW s \in Source, NEW k \in Key, NotifySink(s, k)
      PROVE  UNCHANGED srcs /\ SameEntries /\ SameLoops
  <2>1. k[1] \in Sink /\ k[2] \in Index /\ level[s] \in DirtyLevel
    BY <1>1 DEF Key, TypeOK
  <2>2. sinks[s][k[1]][k[2]] # "Unbound"
    BY <1>5 DEF NotifySink, Sweeps, Bound
  <2>3. sinks[s][k[1]][k[2]] \in Entry
    BY <1>1, <2>1 DEF TypeOK
  <2>4. ApplyNotify(sinks[s][k[1]][k[2]], level[s]) \in Entry \ {"Unbound"}
    BY <2>1, <2>3, ApplyNotifyTypes DEF Entry, Dirty
  <2>5. SameEntries
    BY <1>1, <1>5, <2>1, <2>2, <2>4, ReplaceEntry DEF NotifySink, SameEntries, TypeOK
  <2>6. \A n \in Sink : pc[n] \in {"idle", "notify"} /\ pc'[n] \notin {"trim", "clear"}
    <3>1. \A n \in Sink : pc[n] \in {"idle", "notify"}
      BY <1>1, <1>5, NodeSets DEF NotifySink, NotifyPhase
    <3>2. \A n \in Sink : pc'[n] = pc[n] \/ pc'[n] = "notify"
      BY <1>1, <1>5, <2>1, NodeSets DEF NotifySink, TypeOK
    <3> QED
      BY <3>1, <3>2
  <2> QED
    BY <1>5, <2>5, <2>6 DEF NotifySink, SameLoops
<1>6. ASSUME NEW n \in Sink, CheckDone(n)
      PROVE  UNCHANGED srcs /\ SameEntries /\ SameLoops
  <2>1. SameEntries
    <3>1. CASE n \in Scan
      <4>1. n \in Source /\ sinks[n] \in [Sink -> [Index -> Entry]]
        BY <1>1, <3>1, NodeSets DEF TypeOK
      <4>2. \A m \in Sink, j \in Index :
                Resolve(sinks[n], FALSE)[m][j] = "Unbound" <=> sinks[n][m][j] = "Unbound"
        BY <4>1, ResolveTypes
      <4>3. sinks' = [sinks EXCEPT ![n] = Resolve(sinks[n], FALSE)]
        BY <1>6, <3>1 DEF CheckDone
      <4>4. \A s \in Source :
                sinks'[s] = IF s = n THEN Resolve(sinks[n], FALSE) ELSE sinks[s]
        <5>1. sinks \in [Source -> [Sink -> [Index -> Entry]]]
          BY <1>1 DEF TypeOK
        <5> QED
          BY <4>1, <4>3, <5>1
      <4>5. ASSUME NEW s \in Source, NEW m \in Sink, NEW j \in Index
            PROVE  sinks'[s][m][j] = "Unbound" <=> sinks[s][m][j] = "Unbound"
        <5>1. CASE s = n
          BY <4>2, <4>4, <5>1
        <5>2. CASE s # n
          BY <4>4, <5>2
        <5> QED
          BY <5>1, <5>2
      <4> QED
        BY <4>5 DEF SameEntries
    <3>2. CASE n \notin Scan
      BY <1>6, <3>2 DEF CheckDone, SameEntries
    <3> QED
      BY <3>1, <3>2
  <2>2. SameLoops
    BY <1>1, <1>6, NodeSets DEF CheckDone, SameLoops, TypeOK
  <2> QED
    BY <1>6, <2>1, <2>2 DEF CheckDone
<1>7. ASSUME NEW n \in Sink,
             (n \in Scan /\ ScanUpdate(n)) \/ CheckSource(n) \/ ReadValue(n)
      PROVE  UNCHANGED srcs /\ SameEntries /\ SameLoops
  <2>1. UNCHANGED <<srcs, sinks>>
    BY <1>7 DEF ScanUpdate, CheckSource, ReadValue
  <2>2. SameLoops
    BY <1>1, <1>7, NodeSets DEF ScanUpdate, Refresh, CheckSource, ReadValue, SameLoops, TypeOK
  <2> QED
    BY <2>1, <2>2 DEF SameEntries
<1>8. ASSUME NEW n \in Sink, CloseRun(n)
      PROVE  UNCHANGED srcs /\ SameEntries /\ SameLoops
  <2>1. /\ UNCHANGED <<srcs, sinks, seen>> /\ pc[n] = "run"
        /\ pc' = [pc EXCEPT ![n] = "trim"] /\ pos' = [pos EXCEPT ![n] = Len(seen[n]) + 1]
    BY <1>8 DEF CloseRun
  <2>2. Len(seen[n]) \in Nat
    BY <1>1, ReadsAreSequences DEF TypeOK
  <2>3. pos'[n] = Len(seen'[n]) + 1 /\ pos'[n] <= Len(seen'[n]) + 1
    BY <1>1, <2>1, <2>2 DEF TypeOK
  <2>4. \A m \in Sink : m # n => pc'[m] = pc[m] /\ pos'[m] = pos[m]
    BY <1>1, <2>1, NodeSets DEF TypeOK
  <2>5. SameLoops
    BY <2>1, <2>3, <2>4 DEF SameLoops
  <2> QED
    BY <2>1, <2>5 DEF SameEntries
<1>9. ASSUME RunReaction
      PROVE  UNCHANGED srcs /\ SameEntries /\ SameLoops
  <2>1. UNCHANGED <<srcs, sinks, seen>> /\ Quiet
    BY <1>9 DEF RunReaction
  <2>2. \A n \in Sink : pos'[n] = pos[n] \/ pos'[n] = 1
    BY <1>1, <1>9 DEF RunReaction, Refresh, TypeOK
  <2> QED
    BY <1>3, <2>1, <2>2
<1>10. CASE Internal
  <2>1. ASSUME RunAction \/ ActionsDone \/ ApplyUnbind \/ ApplyPending \/ ApplyDone \/ GetDone
               \/ ReactionsDone \/ Discard \/ DiscardUnbinds \/ DiscardUnbindsDone
               \/ DiscardsDone
        PROVE  Quiet /\ UNCHANGED <<srcs, sinks, pos, seen>>
    BY <2>1 DEF RunAction, ActionsDone, ApplyUnbind, ApplyPending, ApplyDone, GetDone,
                ReactionsDone, Discard, DiscardUnbinds, DiscardUnbindsDone, DiscardsDone
  <2> QED
    BY <1>3, <1>4, <1>5, <1>6, <1>7, <1>8, <1>9, <1>10, <2>1, NodeSets DEF Internal
<1>11. CASE Users
  <2>1. UNCHANGED <<srcs, sinks, pos, seen>> /\ (Quiet \/ UNCHANGED pc)
    BY <1>11 DEF Users, Set, SetLoose, SpawnSet, Subscribe, Unsubscribe, Dispatch,
                 OpenContext, CloseContext, Get, Flush
  <2> QED
    BY <1>2, <1>3, <2>1
<1> QED
  BY <1>10, <1>11 DEF Next

\* No entry disappears while a source still has to visit it.
LEMMA SweepsStep ==
    ASSUME CallsInv, TypeOK', Sweeps, Next
    PROVE  Sweeps'
<1> USE DEF graph, calls, sweep, disc, queues, loop, users
<1>1. TypeOK /\ NotifyPhase
  BY DEF CallsInv
<1>2. ASSUME UNCHANGED todo, \A m \in Source : pc[m] # "notify"
      PROVE  Sweeps'
  BY <1>2 DEF Sweeps
<1>3. ASSUME Quiet, NEW s \in Source, BeginNotify(s, "Dirty"), UNCHANGED sinks
      PROVE  Sweeps'
  <2>1. \A m \in Source : todo[m] = {}
    BY <1>3, NodeSets DEF Sweeps, Quiet
  <2>2. \A m \in Source : todo'[m] = IF m = s THEN Bound(s) ELSE {}
    BY <1>1, <1>3, <2>1 DEF BeginNotify, TypeOK
  <2>3. pc'[s] = "notify" /\ Bound(s)' = Bound(s)
    BY <1>1, <1>3, NodeSets DEF BeginNotify, Bound, TypeOK
  <2> QED
    BY <2>2, <2>3 DEF Sweeps
<1>4. ASSUME NEW s \in Source, NotifyDone(s)
      PROVE  Sweeps'
  <2>1. UNCHANGED <<sinks, todo>> /\ pc' = [pc EXCEPT ![s] = "idle"] /\ todo[s] = {}
    BY <1>4 DEF NotifyDone
  <2>2. \A m \in Source : Bound(m)' = Bound(m) /\ todo'[m] = todo[m]
    BY <2>1 DEF Bound
  <2>3. \A m \in Source : m # s => pc'[m] = pc[m]
    BY <1>1, <2>1, NodeSets DEF TypeOK
  <2> QED
    BY <2>1, <2>2, <2>3 DEF Sweeps
<1>5. ASSUME NEW s \in Source, NEW k \in Key, NotifySink(s, k)
      PROVE  Sweeps'
  <2>1. k[1] \in Sink /\ k[2] \in Index /\ level[s] \in DirtyLevel
    BY <1>1 DEF Key, TypeOK
  <2>2. ApplyNotify(sinks[s][k[1]][k[2]], level[s]) \in Entry \ {"Unbound"}
    <3>1. sinks[s][k[1]][k[2]] \in Entry
      BY <1>1, <2>1 DEF TypeOK
    <3> QED
      BY <2>1, <3>1, ApplyNotifyTypes DEF Entry, Dirty
  <2>3. \A m \in Source : Bound(m) \subseteq Bound(m)'
    <3>1. /\ sinks \in [Source -> [Sink -> [Index -> Entry]]]
          /\ sinks' = [sinks EXCEPT ![s][k[1]][k[2]] = ApplyNotify(@, level[s])]
      BY <1>1, <1>5 DEF NotifySink, TypeOK
    <3>2. \A r \in Source, m \in Sink, j \in Index :
              sinks'[r][m][j] = IF r = s /\ m = k[1] /\ j = k[2]
                                THEN ApplyNotify(sinks[s][k[1]][k[2]], level[s])
                                ELSE sinks[r][m][j]
      BY <2>1, <2>2, <3>1, ReplaceEntry
    <3>3. \A r \in Source, m \in Sink, j \in Index :
              sinks[r][m][j] # "Unbound" => sinks'[r][m][j] # "Unbound"
      BY <2>2, <3>2
    <3> QED
      BY <3>3 DEF Bound, Key
  <2>4. ASSUME NEW m \in Source
        PROVE  \/ todo'[m] \subseteq todo[m] /\ (pc[m] = "notify" => pc'[m] = "notify")
               \/ todo'[m] = Bound(m) /\ pc'[m] = "notify"
    <3>1. CASE /\ todo' = [todo EXCEPT ![s] = @ \ {k}]
               /\ UNCHANGED pc
      BY <1>1, <3>1 DEF TypeOK
    <3>2. CASE /\ k[1] \in Scan
               /\ todo' = [todo EXCEPT ![s] = @ \ {k}, ![k[1]] = Bound(k[1])]
               /\ pc' = [pc EXCEPT ![k[1]] = "notify"]
      BY <1>1, <3>2, NodeSets DEF TypeOK
    <3> QED
      BY <1>5, <3>1, <3>2 DEF NotifySink
  <2> QED
    BY <2>3, <2>4 DEF Sweeps
<1>6. ASSUME NEW n \in Sink, pc[n] \notin {"idle", "notify"}, UNCHANGED todo
      PROVE  Sweeps'
  BY <1>1, <1>2, <1>6, NoSweep
<1>7. ASSUME NEW n \in Scan, ScanUpdate(n)
      PROVE  Sweeps'
  <2>1. CASE rt = "get"
    BY <1>1, <1>2, <1>7, <2>1 DEF NotifyPhase, ScanUpdate
  <2>2. CASE \E m \in Sink : Awaited(m, n)
    BY <1>6, <1>7, <2>2 DEF Awaited, ScanUpdate
  <2> QED
    BY <1>7, <2>1, <2>2 DEF ScanUpdate, Demanded
<1>8. ASSUME Quiet, UNCHANGED todo
      PROVE  Sweeps'
  BY <1>2, <1>8, NodeSets DEF Quiet
<1>9. ASSUME UNCHANGED <<sinks, pc, todo>>
      PROVE  Sweeps'
  BY <1>9 DEF Sweeps, Bound
<1>10. ASSUME RunAction
       PROVE  Sweeps'
  <2>1. Head(actions)[1] \in Source
    <3>1. Head(actions) \in State \X Value
      BY <1>1, <1>10, HeadTailProperties DEF RunAction, TypeOK
    <3> QED
      BY <3>1, NodeSets
  <2> QED
    BY <1>3, <1>10, <2>1 DEF RunAction
<1>11. ASSUME ApplyPending
       PROVE  Sweeps'
  <2>1. Head(notifys) \in Source
    BY <1>1, <1>11, HeadTailProperties, NodeSets DEF ApplyPending, TypeOK
  <2> QED
    BY <1>3, <1>11, <2>1 DEF ApplyPending
<1>12. CASE Internal
  <2>1. ASSUME ActionsDone \/ ApplyUnbind \/ ApplyDone \/ GetDone
               \/ RunReaction \/ ReactionsDone \/ Discard \/ DiscardUnbinds
               \/ DiscardUnbindsDone \/ DiscardsDone
        PROVE  Quiet /\ UNCHANGED todo
    BY <2>1 DEF ActionsDone, ApplyUnbind, ApplyDone, GetDone, RunReaction,
                ReactionsDone, Discard, DiscardUnbinds, DiscardUnbindsDone, DiscardsDone
  <2>2. ASSUME NEW n \in Sink, \/ CheckSource(n) \/ CheckDone(n) \/ Bind(n) \/ ReadValue(n)
                               \/ CloseRun(n) \/ UnbindSource(n) \/ TrimDone(n) \/ ClearDone(n)
        PROVE  pc[n] \notin {"idle", "notify"} /\ UNCHANGED todo
    BY <2>2 DEF CheckSource, CheckDone, Bind, ReadValue, CloseRun, UnbindSource, TrimDone,
                ClearDone
  <2> QED
    BY <1>4, <1>5, <1>6, <1>7, <1>8, <1>10, <1>11, <1>12, <2>1, <2>2 DEF Internal
<1>13. CASE Users
  <2>1. ASSUME NEW s \in State, NEW v \in Value, Set(s, v)
        PROVE  Sweeps'
    BY <1>3, <2>1, NodeSets DEF Set
  <2>2. UNCHANGED <<sinks, pc, todo>> \/ \E s \in State, v \in Value : Set(s, v)
    BY <1>13 DEF Users, SetLoose, SpawnSet, Subscribe, Unsubscribe, Dispatch,
                 OpenContext, CloseContext, Get, Flush
  <2> QED
    BY <1>9, <2>1, <2>2
<1> QED
  BY <1>12, <1>13 DEF Next

\* Both ends agree, and sweeps only visit existing entries, in every reachable state.
LEMMA SpecBindingsInv == Spec => [](BindingsAgree /\ Sweeps)
<1>1. Init => BindingsAgree /\ Sweeps
  <2> SUFFICES ASSUME Init PROVE BindingsAgree /\ Sweeps
    OBVIOUS
  <2>1. \A n \in Sink : srcs[n] = <<>> /\ Len(srcs[n]) = 0
    BY EmptySeq DEF Init
  <2>2. BindingsAgree
    BY <2>1, NodesAssumption DEF Init, BindingsAgree, Index
  <2> QED
    BY <2>2 DEF Init, Sweeps
<1>2. CallsInv /\ CallsInv' /\ BindingsAgree /\ Sweeps /\ [Next]_vars
          => (BindingsAgree /\ Sweeps)'
  <2> SUFFICES ASSUME CallsInv, CallsInv', BindingsAgree, Sweeps, [Next]_vars
               PROVE  BindingsAgree' /\ Sweeps'
    OBVIOUS
  <2>1. TypeOK /\ TypeOK'
    BY DEF CallsInv
  <2>2. CASE Next
    <3>1. Sweeps'
      BY <2>1, <2>2, SweepsStep
    <3>2. BindingsAgree'
      BY <2>1, <2>2, BindBindings, UnbindBindings, OtherBindings, BindingsStay
    <3> QED
      BY <3>1, <3>2
  <2>3. CASE UNCHANGED vars
    BY <2>3 DEF vars, graph, calls, sweep, BindingsAgree, Sweeps, Bound
  <2> QED
    BY <2>2, <2>3
<1> QED
  BY <1>1, <1>2, SpecCallsInv, PTL DEF Spec

\* The slab of a source's sinks and the sinks' lists of sources agree in every reachable
\* state, in the middle of notifications, runs and unbinding loops too: no unbind, check
\* or update can find a missing entry.
THEOREM SpecBindingsAgree == Spec => []BindingsAgree
BY SpecBindingsInv, PTL

-----------------------------------------------------------------------------
(* A cache that nobody uses is about to be discarded. *)

Busy == {"check", "run", "read", "trim"}

\* A signal nobody is bound to is in the queue, or has no cache and computes none.
CacheInv ==
    \A n \in Scan \ Keep :
        NoSinks(sinks[n]) => scheduled[n] \/ (val[n] = NoValue /\ pc[n] \notin Busy)

\* A signal only starts to be computed in ScanUpdate, and only gets a cache by a run.
BusyStep(n) ==
    /\ pc[n] \notin Busy /\ pc'[n] \in Busy => ScanUpdate(n)
    /\ val[n] = NoValue /\ val'[n] # NoValue => pc[n] \in Busy

\* Every step starts calls and makes caches only there.
LEMMA BusySteps ==
    ASSUME CallsInv, Next, NEW n \in Scan
    PROVE  BusyStep(n)
<1> USE DEF graph, calls, sweep, disc, queues, loop, users
<1>1. TypeOK /\ n \in Node /\ n \in Sink /\ n \in Source /\ n \notin State /\ n \notin Effect
  BY NodeSets, NodesAssumption DEF CallsInv
<1>2. ASSUME UNCHANGED <<val, pc>> PROVE BusyStep(n)
  BY <1>2 DEF BusyStep
<1>3. ASSUME NEW s \in State, NEW v, Assign(s, v), UNCHANGED pc \/ BeginNotify(s, "Dirty")
      PROVE  BusyStep(n)
  BY <1>1, <1>3, NodeSets DEF Assign, BeginNotify, Busy, BusyStep, TypeOK
<1>4. ASSUME NEW m \in Sink, \/ CheckSource(m) \/ CheckDone(m) \/ Bind(m) \/ ReadValue(m)
                             \/ UnbindSource(m) \/ TrimDone(m) \/ ClearDone(m)
      PROVE  BusyStep(n)
  <2>1. UNCHANGED val
    BY <1>4 DEF CheckSource, CheckDone, Bind, ReadValue, UnbindSource, TrimDone, ClearDone
  <2>2. pc[n] \notin Busy => pc'[n] \notin Busy
    BY <1>1, <1>4, NodeSets
       DEF CheckSource, CheckDone, Bind, ReadValue, UnbindSource, TrimDone, ClearDone,
           Busy, TypeOK
  <2> QED
    BY <2>1, <2>2 DEF BusyStep
<1>5. ASSUME NEW m \in Sink, CloseRun(m)
      PROVE  BusyStep(n)
  <2>1. pc[m] = "run" /\ pc' = [pc EXCEPT ![m] = "trim"]
    BY <1>5 DEF CloseRun
  <2>2. \/ m \in Scan /\ val' = [val EXCEPT ![m] = Result(m, seen[m])]
        \/ UNCHANGED val
    BY <1>5 DEF CloseRun
  <2> QED
    BY <1>1, <2>1, <2>2, NodeSets DEF Busy, BusyStep, TypeOK
<1>6. ASSUME NEW m \in Scan, ScanUpdate(m)
      PROVE  BusyStep(n)
  <2>1. UNCHANGED val /\ (m # n => pc'[n] = pc[n])
    BY <1>1, <1>6, NodeSets DEF ScanUpdate, Refresh, TypeOK
  <2> QED
    BY <1>6, <2>1 DEF BusyStep
<1>7. ASSUME RunReaction
      PROVE  BusyStep(n)
  <2>1. Head(batch) \in Effect
    BY <1>1, <1>7, HeadTailProperties DEF RunReaction, TypeOK
  <2> QED
    BY <1>1, <1>7, <2>1, NodeSets DEF RunReaction, Refresh, Busy, BusyStep, TypeOK
<1>8. ASSUME RunAction
      PROVE  BusyStep(n)
  <2>1. Head(actions)[1] \in State
    <3>1. Head(actions) \in State \X Value
      BY <1>1, <1>8, HeadTailProperties DEF RunAction, TypeOK
    <3> QED
      BY <3>1
  <2> QED
    BY <1>3, <1>8, <2>1 DEF RunAction
<1>9. ASSUME ApplyUnbind \/ ApplyPending \/ Discard
      PROVE  BusyStep(n)
  <2>1. ASSUME NEW m, NEW c \in {"notify", "clear"}, pc' = [pc EXCEPT ![m] = c]
        PROVE  pc'[n] \in Busy => pc[n] \in Busy
    BY <1>1, <2>1, NodeSets DEF Busy, TypeOK
  <2>2. pc'[n] \in Busy => pc[n] \in Busy
    BY <1>9, <2>1 DEF ApplyUnbind, ApplyPending, Discard, BeginNotify, BeginClear
  <2>3. val'[n] # NoValue => val[n] # NoValue
    <3>1. val \in [Source -> Value \cup {NoValue}] /\ n \in Source
      BY <1>1, NodeSets DEF TypeOK
    <3>2. UNCHANGED val \/ val' = [val EXCEPT ![Head(discards)] = NoValue]
      BY <1>9 DEF ApplyUnbind, ApplyPending, Discard
    <3> QED
      BY <3>1, <3>2
  <2> QED
    BY <2>2, <2>3 DEF BusyStep
<1>10. ASSUME NEW s \in Source, NotifyDone(s) \/ \E k \in Key : NotifySink(s, k)
       PROVE  BusyStep(n)
  <2>1. UNCHANGED val
    BY <1>10 DEF NotifyDone, NotifySink
  <2>2. \A m \in Node : pc'[m] # pc[m] => pc'[m] \in {"idle", "notify"}
    <3>1. CASE NotifyDone(s)
      BY <1>1, <3>1, NodeSets DEF NotifyDone, TypeOK
    <3>2. ASSUME NEW k \in Key, NotifySink(s, k)
          PROVE  \A m \in Node : pc'[m] # pc[m] => pc'[m] \in {"idle", "notify"}
      BY <1>1, <3>2, NodeSets DEF NotifySink, TypeOK
    <3> QED
      BY <1>10, <3>1, <3>2
  <2> QED
    BY <1>1, <2>1, <2>2 DEF Busy, BusyStep
<1>11. CASE Internal
  <2>1. ASSUME ActionsDone \/ ApplyDone \/ GetDone \/ ReactionsDone \/ DiscardUnbinds
               \/ DiscardUnbindsDone \/ DiscardsDone
        PROVE  UNCHANGED <<val, pc>>
    BY <2>1 DEF ActionsDone, ApplyDone, GetDone, ReactionsDone, DiscardUnbinds,
                DiscardUnbindsDone, DiscardsDone
  <2> QED
    BY <1>2, <1>4, <1>5, <1>6, <1>7, <1>8, <1>9, <1>10, <1>11, <2>1 DEF Internal
<1>12. CASE Users
  <2>1. \/ UNCHANGED <<val, pc>>
        \/ \E s \in State, v \in Value :
              Assign(s, v) /\ (UNCHANGED pc \/ BeginNotify(s, "Dirty"))
    BY <1>12 DEF Users, Set, SetLoose, SpawnSet, Subscribe, Unsubscribe, Dispatch,
                 OpenContext, CloseContext, Get, Flush
  <2> QED
    BY <1>2, <1>3, <2>1
<1> QED
  BY <1>11, <1>12 DEF Next

\* A signal loses its last entry only where try_schedule_discard is called.
LEMMA LastUnbind ==
    ASSUME CallsInv, TypeOK', BindingsAgree, Sweeps, QueueInv, Next, NEW n \in Scan \ Keep,
           ~NoSinks(sinks[n]), NoSinks(sinks'[n])
    PROVE  scheduled'[n]
<1>1. TypeOK /\ n \in Source /\ n \in Scan
  BY NodeSets DEF CallsInv
<1>2. PICK m \in Sink, j \in Index :
          sinks[n][m][j] # "Unbound" /\ sinks'[n][m][j] = "Unbound"
  BY DEF NoSinks
<1>3. ~SameEntries
  BY <1>1, <1>2 DEF SameEntries
<1>4. PICK x \in Sink : Bind(x) \/ UnbindSource(x) \/ TrimDone(x) \/ ClearDone(x)
  BY <1>1, <1>3, OtherBindings
<1>5. CASE Bind(x)
  <2> DEFINE i == Len(seen[x]) + 1
  <2>1. i <= Len(srcs[x]) /\ srcs[x][i] # NextRead(x, seen[x]) /\ srcs[x][i] = n
    BY <1>1, <1>2, <1>5, BindEntries
  <2>2. TryScheduleDiscard(n, sinks'[n])
    BY <1>5, <2>1 DEF Bind
  <2> QED
    BY <1>1, <2>2, ScheduleQueue
<1>6. CASE UnbindSource(x)
  <2> DEFINE t == srcs[x][pos[x]]
  <2>1. /\ sinks' = [sinks EXCEPT ![t][x][pos[x]] = "Unbound"]
        /\ TryScheduleDiscard(t, sinks'[t])
    BY <1>6 DEF UnbindSource, Unbind
  <2>2. t = n
    BY <1>1, <1>2, <2>1 DEF TypeOK
  <2> QED
    BY <1>1, <2>1, <2>2, ScheduleQueue
<1>7. CASE TrimDone(x)
  <2>1. x \in Scan /\ sinks' = [sinks EXCEPT ![x] = Resolve(sinks[x], result[x])]
    BY <1>2, <1>7 DEF TrimDone
  <2>2. x \in Source /\ sinks[x] \in [Sink -> [Index -> Entry]] /\ result[x] \in BOOLEAN
    BY <1>1, <2>1, NodeSets DEF TypeOK
  <2>3. sinks'[n] = IF x = n THEN Resolve(sinks[x], result[x]) ELSE sinks[n]
    BY <1>1, <2>1, <2>2 DEF TypeOK
  <2>4. \A y \in Sink, k \in Index :
            Resolve(sinks[x], result[x])[y][k] = "Unbound" <=> sinks[x][y][k] = "Unbound"
    BY <2>2, ResolveTypes
  <2> QED
    BY <1>2, <2>3, <2>4
<1>8. CASE ClearDone(x)
  BY <1>2, <1>8 DEF ClearDone
<1> QED
  BY <1>4, <1>5, <1>6, <1>7, <1>8

\* Every step leaves a signal that lost its last entry in the queue of discards.
LEMMA CacheStep ==
    ASSUME CallsInv, TypeOK', BindingsAgree, Sweeps, QueueInv, CacheInv, Next
    PROVE  CacheInv'
<1> SUFFICES ASSUME NEW n \in Scan \ Keep, NoSinks(sinks'[n])
             PROVE  scheduled'[n] \/ (val'[n] = NoValue /\ pc'[n] \notin Busy)
  BY DEF CacheInv
<1>1. TypeOK /\ n \in Source /\ n \in Scan /\ n \in Node
  BY NodeSets DEF CallsInv
<1>2. CASE ~NoSinks(sinks[n])
  BY <1>2, LastUnbind
<1>3. CASE NoSinks(sinks[n]) /\ scheduled[n]
  <2>1. CASE Discard
    <3>1. CASE Head(discards) = n
      <4>1. val' = [val EXCEPT ![n] = NoValue] /\ pc' = [pc EXCEPT ![n] = "clear"]
        BY <1>3, <2>1, <3>1 DEF Discard, BeginClear
      <4> QED
        BY <1>1, <4>1 DEF TypeOK, Busy
    <3>2. CASE Head(discards) # n
      BY <1>1, <1>3, <2>1, <3>2 DEF Discard, TypeOK
    <3> QED
      BY <3>1, <3>2
  <2>2. CASE ~Discard
    BY <1>1, <1>3, <2>2, QueueSteps, ScheduleQueue DEF disc
  <2> QED
    BY <2>1, <2>2
<1>4. CASE NoSinks(sinks[n]) /\ val[n] = NoValue /\ pc[n] \notin Busy
  <2>1. CASE ScanUpdate(n)
    <3>1. TryScheduleDiscard(n, sinks[n])
      BY <2>1 DEF ScanUpdate
    <3> QED
      BY <1>1, <1>4, <3>1, ScheduleQueue
  <2>2. CASE ~ScanUpdate(n)
    BY <1>1, <1>4, <2>2, BusySteps DEF BusyStep
  <2> QED
    BY <2>1, <2>2
<1> QED
  BY <1>2, <1>3, <1>4 DEF CacheInv

\* At any interleaving of reads, runs, unbindings and discards, a signal with no sink left
\* (and no keep) either has no cache or is queued for dispatch_discards: no cache leaks.
THEOREM SpecUnusedCacheIsScheduled == Spec => []UnusedCacheIsScheduled
<1>1. Init => CacheInv
  BY NodeSets, NodesAssumption DEF Init, CacheInv, Busy
<1>2. /\ CallsInv /\ CallsInv' /\ BindingsAgree /\ Sweeps /\ QueueInv
      /\ CacheInv /\ [Next]_vars
      => CacheInv'
  <2> SUFFICES ASSUME CallsInv, CallsInv', BindingsAgree, Sweeps, QueueInv, CacheInv,
                      [Next]_vars
               PROVE  CacheInv'
    OBVIOUS
  <2>1. CASE Next
    BY <2>1, CacheStep DEF CallsInv
  <2>2. CASE UNCHANGED vars
    BY <2>2 DEF vars, graph, calls, disc, CacheInv
  <2> QED
    BY <2>1, <2>2
<1>3. CacheInv => UnusedCacheIsScheduled
  BY DEF CacheInv, UnusedCacheIsScheduled
<1> QED
  BY <1>1, <1>2, <1>3, SpecCallsInv, SpecBindingsInv, SpecQueueInv, PTL DEF Spec

-----------------------------------------------------------------------------
(* Where the calls are. *)

\* A closure is under way, or the bindings it did not renew are being removed.
Active == {"run", "read", "trim"}

\* Not so: the bindings of the sink are those of its last run.
Settling == {"idle", "notify", "check"}

\* The sink's node exists, as far as its sources are concerned.
Attended(n) == n \in Effect => life[n] = "live"

\* The i-th read of n is bound, and waits for its source.
BeingRead(n, i) == pc[n] = "read" /\ i = Len(seen[n]) + 1

\* A signal that tells its sinks is dirty itself, and a state always tells them "Dirty".
NotifyDirty == \A s \in Scan : pc[s] = "notify" => dirty[s] # "Clean"
StateLevel == \A s \in State : level[s] = "Dirty"

\* A sink counts as clean from the moment its closure starts.
ActiveClean == \A n \in Sink : pc[n] \in Active => dirty[n] = "Clean"

\* States are never called, and effects tell nobody.
NodeCalls == /\ \A s \in State : pc[s] \in {"idle", "notify"}
             /\ \A e \in Effect : pc[e] # "notify"

\* While the bindings of a node are cleared nothing else is called, and it is a signal that
\* nobody uses or an effect that was dropped.
ClearAlone ==
    \A m \in Sink : pc[m] = "clear" =>
        /\ \A n \in Node : n # m => pc[n] = "idle"
        /\ rt # "get"
        /\ m \in Scan => NoSinks(sinks[m])
        /\ m \in Effect => life[m] = "dropped"

\* Effects that do not exist yet, and those waiting to be unbound.
NewEffect == \A e \in Effect : life[e] = "new" =>
                 dirty[e] = "Dirty" /\ pc[e] = "idle" /\ srcs[e] = <<>>
UnbindsDropped == \A i \in 1 .. Len(unbinds) : life[unbinds[i]] = "dropped"

PhaseInv == /\ NotifyDirty /\ StateLevel /\ ActiveClean /\ NodeCalls
            /\ ClearAlone /\ NewEffect /\ UnbindsDropped

-----------------------------------------------------------------------------
(* What an entry says. *)

\* A clean entry is of a signal that is up to date, or will be visited by the sweep that
\* the signal is in.
CleanEntryAt(s, n, i) ==
    sinks[s][n][i] = "Clean" /\ ~BeingRead(n, i) =>
        \/ dirty[s] = "Clean" /\ pc[s] = "idle"
        \/ pc[s] = "notify" /\ <<n, i>> \in todo[s]
CleanEntry == \A s \in Scan, n \in Sink, i \in Index : CleanEntryAt(s, n, i)

\* An entry is only "maybe" until the signal has been updated.
MaybeEntryAt(s, n, i) ==
    sinks[s][n][i] = "MaybeDirty" => s \in Scan /\ (dirty[s] # "Clean" \/ pc[s] \in Active)
MaybeEntry == \A s \in Source, n \in Sink, i \in Index : MaybeEntryAt(s, n, i)

\* A flagged entry has told its sink.
FlagEntryAt(s, n, i) ==
    sinks[s][n][i] \in {"MaybeDirty", "Dirty"} /\ pc[n] \in Settling /\ Attended(n) =>
        dirty[n] # "Clean"
FlagEntry == \A s \in Source, n \in Sink, i \in Index : FlagEntryAt(s, n, i)

\* A check has passed clean entries only, and a run leaves such entries behind.
CheckedClean ==
    \A n \in Sink, i \in Index :
        pc[n] = "check" /\ i < pos[n] /\ i <= Len(srcs[n]) => sinks[srcs[n][i]][n][i] = "Clean"
ReadClean ==
    \A n \in Sink, i \in Index :
        pc[n] \in Active /\ (i <= Len(seen[n]) \/ BeingRead(n, i)) =>
            sinks[srcs[n][i]][n][i] = "Clean"

EntryInv == CleanEntry /\ MaybeEntry /\ FlagEntry /\ CheckedClean /\ ReadClean

FlagInv == PhaseInv /\ EntryInv

\* What is known already.
BaseInv == CallsInv /\ BindingsAgree /\ Sweeps

-----------------------------------------------------------------------------
(* What the steps do, entry by entry and node by node. *)

\* The variables with their types.
LEMMA Types ==
    ASSUME TypeOK
    PROVE  /\ sinks \in [Source -> [Sink -> [Index -> Entry]]]
           /\ dirty \in [Sink -> Dirty] /\ pc \in [Node -> CallState]
           /\ level \in [Source -> DirtyLevel] /\ todo \in [Source -> SUBSET Key]
           /\ pos \in [Sink -> 1 .. MaxReads + 1] /\ seen \in [Sink -> Reads]
           /\ srcs \in [Sink -> Seq(Source)] /\ val \in [Source -> Value \cup {NoValue}]
           /\ life \in [Effect -> {"new", "live", "dropped"}] /\ obs \in [Effect -> Reads]
           /\ result \in [Scan -> BOOLEAN]
BY DEF TypeOK

\* One node's, one entry's or one source's value changes.
Becomes(f, next, S, n, v) == \A m \in S : next[m] = IF m = n THEN v ELSE f[m]
EntryBecomes(s, n, i, e) ==
    \A r \in Source, m \in Sink, j \in Index :
        sinks'[r][m][j] = IF r = s /\ m = n /\ j = i THEN e ELSE sinks[r][m][j]
ResolvedTo(s, b) ==
    \A r \in Source, m \in Sink, j \in Index :
        sinks'[r][m][j] = IF r = s /\ s \in Scan /\ sinks[r][m][j] = "MaybeDirty"
                          THEN FromIsDirty(b) ELSE sinks[r][m][j]

\* Nothing is being notified or cleared.
Computing == \A m \in Node : pc[m] \notin {"notify", "clear"}

Called(s, n, i) == sinks[s][n][i] = "Clean" /\ Attended(n)
First(s, n, i) == Called(s, n, i) /\ dirty[n] = "Clean"
NotifyEffect(s, n, i) ==
    /\ <<n, i>> \in todo[s] /\ sinks[s][n][i] # "Unbound" /\ pc[s] = "notify"
    /\ rt # "get" /\ \A m \in Node : pc[m] \in {"idle", "notify"}
    /\ EntryBecomes(s, n, i, ApplyNotify(sinks[s][n][i], level[s]))
    /\ \A m \in Sink :
           dirty'[m] = IF m = n /\ Called(s, n, i) THEN ApplyNotify(dirty[n], level[s])
                                                  ELSE dirty[m]
    /\ \A m \in Node :
           pc'[m] = IF m = n /\ n \in Scan /\ First(s, n, i) THEN "notify" ELSE pc[m]
    /\ \A r \in Source :
           /\ level'[r] = IF r = n /\ n \in Scan /\ First(s, n, i)
                          THEN MaybeIf(level[s], n \in Dedup) ELSE level[r]
           /\ todo'[r] = IF r = n /\ n \in Scan /\ First(s, n, i) THEN Bound(n)
                         ELSE IF r = s THEN todo[s] \ {<<n, i>>} ELSE todo[r]
    /\ reactions' = IF n \in Effect /\ First(s, n, i) THEN Append(reactions, n) ELSE reactions
    /\ UNCHANGED <<val, srcs, pos, seen, result, life, obs, moved, notifys, unbinds, rt, batch>>

NotifyDoneEffect(s) ==
    /\ pc[s] = "notify" /\ todo[s] = {}
    /\ Becomes(pc, pc', Node, s, "idle")
    /\ Becomes(level, level', Source, s, "Dirty")
    /\ UNCHANGED <<graph, pos, seen, result, todo, life, obs, moved, notifys, unbinds, rt,
                   reactions, batch>>

\* A sink that is not up to date starts to be checked or run.
StartEffect(n, c) ==
    /\ Computing
    /\ pc[n] \in {"idle", "check"}
    /\ rt \in {"get", "reactions"} \/ \E m \in Sink : pc[m] \in {"check", "read"}
    /\ n \in Effect /\ pc[n] = "idle" =>
           /\ life[n] = "live" /\ Quiet /\ rt = "reactions"
           /\ batch # <<>> /\ n = Head(batch)
    /\ Becomes(pc, pc', Node, n, c)
    /\ Becomes(pos, pos', Sink, n, 1)
    /\ \/ c = "check" /\ pc[n] = "idle" /\ dirty[n] = "MaybeDirty" /\ UNCHANGED <<dirty, moved>>
       \/ /\ c = "run"
          /\ IF pc[n] = "idle" THEN dirty[n] = "Dirty"
             ELSE pos[n] <= Len(srcs[n]) /\ sinks[srcs[n][pos[n]]][n][pos[n]] = "Dirty"
          /\ Becomes(dirty, dirty', Sink, n, "Clean")
          /\ moved' = moved \ {n}
    /\ UNCHANGED <<val, srcs, sinks, seen, result, level, todo, life, obs, notifys, unbinds, rt,
                   reactions>>
    /\ batch' = IF n \in Effect /\ pc[n] = "idle" THEN Tail(batch) ELSE batch

CheckCleanEffect(n) ==
    /\ Computing /\ pc[n] = "check" /\ pos[n] <= Len(srcs[n])
    /\ sinks[srcs[n][pos[n]]][n][pos[n]] = "Clean"
    /\ Becomes(pos, pos', Sink, n, pos[n] + 1)
    /\ UNCHANGED <<graph, pc, seen, result, level, todo, life, obs, moved, notifys, unbinds, rt,
                   reactions, batch>>

CheckDoneEffect(n) ==
    /\ Computing /\ pc[n] = "check" /\ pos[n] > Len(srcs[n])
    /\ Becomes(dirty, dirty', Sink, n, "Clean")
    /\ Becomes(pc, pc', Node, n, "idle")
    /\ Becomes(pos, pos', Sink, n, 1)
    /\ ResolvedTo(n, FALSE)
    /\ UNCHANGED <<val, srcs, seen, result, level, todo, life, obs, moved, notifys, unbinds, rt,
                   reactions, batch>>

BindEffect(n, s, i) ==
    /\ Computing /\ pc[n] = "run"
    /\ s = NextRead(n, seen[n]) /\ i = Len(seen[n]) + 1 /\ i <= Len(srcs[n]) + 1
    /\ Becomes(pc, pc', Node, n, "read")
    /\ \A m \in Sink : m # n => srcs'[m] = srcs[m]
    /\ Len(srcs'[n]) = IF i <= Len(srcs[n]) THEN Len(srcs[n]) ELSE i
    /\ \A j \in Index : j <= Len(srcs'[n]) => srcs'[n][j] = IF j = i THEN s ELSE srcs[n][j]
    /\ \A r \in Source, m \in Sink, j \in Index :
           sinks'[r][m][j] =
               IF m = n /\ j = i /\ i <= Len(srcs[n]) /\ srcs[n][i] # s /\ r = srcs[n][i]
               THEN "Unbound"
               ELSE IF m = n /\ j = i /\ r = s THEN "Clean" ELSE sinks[r][m][j]
    /\ UNCHANGED <<val, dirty, pos, seen, result, level, todo, life, obs, moved, notifys,
                   unbinds, rt, reactions, batch>>

ReadEffect(n, s) ==
    /\ Computing /\ pc[n] = "read"
    /\ s = NextRead(n, seen[n]) /\ Settled(s)
    /\ Becomes(seen, seen', Sink, n, Append(seen[n], val[s]))
    /\ Becomes(pc, pc', Node, n, "run")
    /\ UNCHANGED <<graph, pos, result, level, todo, life, obs, moved, notifys, unbinds, rt,
                   reactions, batch>>

CloseEffect(n) ==
    /\ Computing /\ pc[n] = "run" /\ NextRead(n, seen[n]) = Done
    /\ Becomes(pc, pc', Node, n, "trim")
    /\ Becomes(pos, pos', Sink, n, Len(seen[n]) + 1)
    /\ IF n \in Scan
       THEN LET new == Result(n, seen[n])
            IN  /\ Becomes(val, val', Source, n, new)
                /\ Becomes(result, result', Scan, n, n \notin Dedup \/ val[n] # new)
                /\ moved' = IF val[n] # new THEN moved \cup Readers(n) ELSE moved
                /\ UNCHANGED obs
       ELSE /\ Becomes(obs, obs', Effect, n, seen[n])
            /\ UNCHANGED <<val, result, moved>>
    /\ UNCHANGED <<dirty, srcs, sinks, seen, level, todo, life, notifys, unbinds, rt,
                   reactions, batch>>

UnbindEffect(n) ==
    /\ \A m \in Node : pc[m] # "notify"
    /\ pc[n] \in {"trim", "clear"} /\ pos[n] <= Len(srcs[n])
    /\ EntryBecomes(srcs[n][pos[n]], n, pos[n], "Unbound")
    /\ Becomes(pos, pos', Sink, n, pos[n] + 1)
    /\ UNCHANGED <<val, dirty, srcs, pc, seen, result, level, todo, life, obs, moved, notifys,
                   unbinds, rt, reactions, batch>>

TrimEffect(n) ==
    /\ Computing /\ pc[n] = "trim" /\ pos[n] > Len(srcs[n])
    /\ Becomes(srcs, srcs', Sink, n, SubSeq(srcs[n], 1, Len(seen[n])))
    /\ Becomes(pc, pc', Node, n, "idle")
    /\ ResolvedTo(n, result[n])
    /\ unbinds' = IF n \in Effect /\ life[n] = "dropped" /\ seen[n] # <<>>
                  THEN Append(unbinds, n) ELSE unbinds
    /\ Becomes(pos, pos', Sink, n, 1)
    /\ Becomes(seen, seen', Sink, n, <<>>)
    /\ Becomes(result, result', Scan, n, FALSE)
    /\ UNCHANGED <<val, dirty, level, todo, life, obs, moved, notifys, rt, reactions, batch>>

ClearDoneEffect(n) ==
    /\ pc[n] = "clear" /\ pos[n] > Len(srcs[n])
    /\ Becomes(srcs, srcs', Sink, n, <<>>)
    /\ IF n \in Scan THEN Becomes(dirty, dirty', Sink, n, "Dirty") ELSE UNCHANGED dirty
    /\ Becomes(pc, pc', Node, n, "idle")
    /\ Becomes(pos, pos', Sink, n, 1)
    /\ UNCHANGED <<val, sinks, seen, result, level, todo, life, obs, moved, notifys, unbinds, rt,
                   reactions, batch>>

\* A state is written, or is told to have been.
BeginNotifyEffect(s) ==
    /\ Quiet /\ rt # "get"
    /\ \A r \in Source : r # s => val'[r] = val[r]
    /\ moved \subseteq moved'
    /\ Becomes(pc, pc', Node, s, "notify")
    /\ Becomes(level, level', Source, s, "Dirty")
    /\ Becomes(todo, todo', Source, s, Bound(s))
    /\ \/ UNCHANGED notifys
       \/ notifys # <<>> /\ s = Head(notifys) /\ notifys' = Tail(notifys) /\ UNCHANGED val
    /\ UNCHANGED <<dirty, srcs, sinks, pos, seen, result, life, obs, unbinds, rt, reactions,
                   batch>>

\* The bindings of n start to be removed.
BeginClearEffect(n) ==
    /\ Quiet /\ rt # "get" /\ rt' # "get"
    /\ n \in Scan => NoSinks(sinks[n]) /\ rt' = "discarded" /\ rt \in {"discards", "discarded"}
    /\ n \in Effect => UNCHANGED <<val, rt>>
    /\ \A r \in Source : r # n => val'[r] = val[r]
    /\ n \in Scan => val'[n] = NoValue
    /\ Becomes(pc, pc', Node, n, "clear")
    /\ IF n \in Effect THEN unbinds # <<>> /\ n = Head(unbinds) /\ unbinds' = Tail(unbinds)
                       ELSE UNCHANGED unbinds
    /\ UNCHANGED <<dirty, srcs, sinks, pos, seen, result, level, todo, life, obs, moved, notifys,
                   reactions, batch>>

SubscribeEffect(e) ==
    /\ life[e] = "new"
    /\ Becomes(life, life', Effect, e, "live")
    /\ reactions' = Append(reactions, e)
    /\ UNCHANGED <<graph, calls, sweep, obs, moved, notifys, unbinds, rt, batch>>

UnsubscribeEffect(e) ==
    /\ life[e] = "live" /\ (Quiet \/ \E f \in Effect : pc[f] = "run")
    /\ Becomes(life, life', Effect, e, "dropped")
    /\ unbinds' = IF pc[e] = "idle" /\ srcs[e] # <<>> THEN Append(unbinds, e) ELSE unbinds
    /\ UNCHANGED <<graph, calls, sweep, obs, moved, notifys, rt, reactions, batch>>

\* A state is written without a context.
LooseEffect(s) ==
    /\ Quiet /\ rt \in LooseEnds
    /\ \A r \in Source : r # s => val'[r] = val[r]
    /\ moved \subseteq moved'
    /\ notifys' = Append(notifys, s)
    /\ UNCHANGED <<dirty, srcs, sinks, calls, sweep, life, obs, unbinds, rt, reactions, batch>>

\* The runtime goes on to another stage, or a queue changes that the graph does not see.
StageEffect ==
    /\ rt' = rt \/ Quiet
    /\ UNCHANGED <<graph, calls, sweep, life, obs, moved, notifys, unbinds>>
    /\ \/ UNCHANGED <<reactions, batch>>
       \/ rt = "apply" /\ rt' = "reactions" /\ batch' = reactions /\ reactions' = <<>>
       \/ /\ rt = "reactions" /\ rt' = rt /\ Quiet
          /\ batch # <<>> /\ batch' = Tail(batch) /\ UNCHANGED reactions
          /\ life[Head(batch)] # "live" \/ dirty[Head(batch)] = "Clean"
    /\ rt = "reactions" /\ rt' # rt => batch = <<>>
    /\ rt' \in {"sc", "reactions"} /\ rt' # rt => notifys = <<>> \/ rt = "get"
    /\ rt' = "get" => rt \in {"get", "sc"}

EffectStep ==
    \/ \E s \in Source : \/ NotifyDoneEffect(s)
                         \/ \E n \in Sink, i \in Index : NotifyEffect(s, n, i)
    \/ \E n \in Sink : \/ \E c \in {"check", "run"} : StartEffect(n, c)
                       \/ CheckCleanEffect(n) \/ CheckDoneEffect(n)
                       \/ \E s \in Source : \/ ReadEffect(n, s)
                                            \/ \E i \in Index : BindEffect(n, s, i)
                       \/ CloseEffect(n) \/ UnbindEffect(n) \/ TrimEffect(n)
                       \/ ClearDoneEffect(n) \/ BeginClearEffect(n)
    \/ \E s \in State : BeginNotifyEffect(s) \/ LooseEffect(s)
    \/ \E e \in Effect : SubscribeEffect(e) \/ UnsubscribeEffect(e)
    \/ StageEffect

\* The kinds of nodes are disjoint.
LEMMA Kinds ==
    /\ Scan \cap Effect = {} /\ State \cap Scan = {} /\ State \cap Effect = {}
    /\ Sink = Scan \cup Effect /\ Source = State \cup Scan
BY NodesAssumption DEF Sink, Source

\* While a sink is called, no sweep is under way and no bindings are cleared.
LEMMA CallsCompute ==
    ASSUME BaseInv, PhaseInv, NEW n \in Sink, pc[n] \in {"check"} \cup Active
    PROVE  Computing
<1>1. NotifyPhase /\ NodeCalls /\ ClearAlone /\ n \in Node
  BY NodeSets DEF BaseInv, CallsInv, PhaseInv
<1>2. \A m \in Source : pc[m] # "notify"
  BY <1>1, NoSweep DEF Active
<1>3. \A m \in Node : pc[m] # "notify"
  BY <1>1, <1>2 DEF NodeCalls, Node
<1>4. \A m \in Node : pc[m] # "clear"
  BY <1>1, Kinds DEF ClearAlone, NodeCalls, Active, Node
<1> QED
  BY <1>3, <1>4 DEF Computing

\* The sweep reaches a sink.
LEMMA NotifySinkEffect ==
    ASSUME BaseInv, NEW s \in Source, NEW k \in Key, NotifySink(s, k)
    PROVE  EffectStep
<1> USE DEF graph, calls, sweep, disc, queues, loop, users
<1>1. TypeOK /\ NotifyPhase /\ Sweeps
  BY DEF BaseInv, CallsInv
<1>2. PICK n \in Sink, i \in Index : k = <<n, i>>
  BY DEF Key
<1>3. k[1] = n /\ k[2] = i
  BY <1>2
<1>4. s \in Node /\ n \in Node /\ (n \in Scan => n \in Source) /\ n \in Scan \cup Effect
      /\ Scan \cap Effect = {}
  BY NodeSets, Kinds
<1>5. /\ <<n, i>> \in todo[s] /\ sinks[s][n][i] # "Unbound" /\ pc[s] = "notify"
      /\ rt # "get" /\ \A m \in Node : pc[m] \in {"idle", "notify"}
  BY <1>1, <1>2, <1>3, <1>4 DEF NotifySink, Sweeps, Bound, NotifyPhase
<1>6. (NeedsNotify(sinks[s][n][i]) /\ (n \in Effect => life[n] = "live")) <=> Called(s, n, i)
  BY DEF NeedsNotify, Called, Attended
<1>7. (Called(s, n, i) /\ NeedsNotify(dirty[n])) <=> First(s, n, i)
  BY DEF NeedsNotify, First
<1>8. /\ sinks' = [sinks EXCEPT ![s][n][i] = ApplyNotify(@, level[s])]
      /\ dirty' = IF Called(s, n, i) THEN [dirty EXCEPT ![n] = ApplyNotify(@, level[s])]
                                     ELSE dirty
      /\ IF First(s, n, i) /\ n \in Scan
         THEN /\ pc' = [pc EXCEPT ![n] = "notify"]
              /\ level' = [level EXCEPT ![n] = MaybeIf(level[s], n \in Dedup)]
              /\ todo' = [todo EXCEPT ![s] = @ \ {k}, ![n] = Bound(n)]
         ELSE /\ todo' = [todo EXCEPT ![s] = @ \ {k}]
              /\ UNCHANGED <<pc, level>>
      /\ reactions' = IF First(s, n, i) /\ n \in Effect THEN Append(reactions, n) ELSE reactions
      /\ UNCHANGED <<val, srcs, pos, seen, result, life, obs, moved, notifys, unbinds,
                     rt, batch>>
  BY <1>3, <1>6, <1>7 DEF NotifySink
<1>9. EntryBecomes(s, n, i, ApplyNotify(sinks[s][n][i], level[s]))
  BY <1>1, <1>8, Types DEF EntryBecomes
<1>10. /\ \A m \in Sink :
              dirty'[m] = IF m = n /\ Called(s, n, i) THEN ApplyNotify(dirty[n], level[s])
                                                     ELSE dirty[m]
       /\ \A m \in Node :
              pc'[m] = IF m = n /\ n \in Scan /\ First(s, n, i) THEN "notify" ELSE pc[m]
       /\ \A r \in Source :
              /\ level'[r] = IF r = n /\ n \in Scan /\ First(s, n, i)
                             THEN MaybeIf(level[s], n \in Dedup) ELSE level[r]
              /\ todo'[r] = IF r = n /\ n \in Scan /\ First(s, n, i) THEN Bound(n)
                            ELSE IF r = s THEN todo[s] \ {<<n, i>>} ELSE todo[r]
  BY <1>1, <1>2, <1>4, <1>8, Types
<1>11. NotifyEffect(s, n, i)
  BY <1>5, <1>8, <1>9, <1>10 DEF NotifyEffect
<1> QED
  BY <1>11 DEF EffectStep

\* A sweep has told all sinks of a source.
LEMMA NotifyDoneEffects ==
    ASSUME TypeOK, NEW s \in Source, NotifyDone(s)
    PROVE  EffectStep
<1>1. NotifyDoneEffect(s)
  BY Types, NodeSets
     DEF NotifyDone, NotifyDoneEffect, Becomes, graph, calls, sweep, disc, queues, loop, users
<1> QED
  BY <1>1 DEF EffectStep

\* A signal that is asked for, and an effect that is called, start to be checked or run.
LEMMA RefreshEffect ==
    ASSUME TypeOK, Progress, NEW n \in Sink, pc[n] = "idle", Refresh(n),
           Computing, rt \in {"get", "reactions"} \/ \E m \in Sink : pc[m] \in {"check", "read"},
           n \in Effect => /\ life[n] = "live" /\ Quiet /\ rt = "reactions"
                           /\ batch # <<>> /\ n = Head(batch),
           UNCHANGED <<val, srcs, sinks, seen, result, level, todo, life, obs, notifys, unbinds,
                       rt, reactions>>,
           batch' = IF n \in Effect THEN Tail(batch) ELSE batch
    PROVE  EffectStep
<1>1. \E c \in {"check", "run"} : StartEffect(n, c)
  <2>1. CASE dirty[n] = "MaybeDirty"
    <3>1. StartEffect(n, "check")
      BY <2>1, Types, NodeSets DEF Refresh, StartEffect, Becomes
    <3> QED
      BY <3>1
  <2>2. CASE dirty[n] = "Dirty"
    <3>1. StartEffect(n, "run")
      <4>1. Becomes(pos, pos', Sink, n, 1)
        BY <2>2 DEF Refresh, Becomes, Progress, ProgressOf
      <4> QED
        BY <2>2, <4>1, Types, NodeSets DEF Refresh, StartEffect, Becomes
    <3> QED
      BY <3>1
  <2> QED
    BY <2>1, <2>2 DEF Refresh
<1> QED
  BY <1>1 DEF EffectStep

\* A signal that is asked for, and each round of a check.
LEMMA CheckEffects ==
    ASSUME BaseInv, PhaseInv, NEW n \in Sink
    PROVE  /\ n \in Scan /\ ScanUpdate(n) => EffectStep
           /\ CheckSource(n) => EffectStep
           /\ CheckDone(n) => EffectStep
<1> USE DEF graph, calls, sweep, disc, queues, loop, users
<1>1. TypeOK /\ Progress /\ n \in Node /\ NotifyPhase
  BY NodeSets DEF BaseInv, CallsInv
<1>2. ASSUME n \in Scan, ScanUpdate(n)
      PROVE  EffectStep
  <2>1. rt \in {"get", "reactions"} \/ \E m \in Sink : pc[m] \in {"check", "read"}
    BY <1>2 DEF ScanUpdate, Demanded, Awaited
  <2>2. Computing
    <3>1. CASE \E m \in Sink : pc[m] \in {"check", "read"}
      BY <3>1, CallsCompute DEF Active
    <3>2. CASE rt = "get"
      BY <1>1, <3>2, Kinds, NodeSets
         DEF PhaseInv, ClearAlone, NodeCalls, NotifyPhase, Computing, Node
    <3> QED
      BY <1>2, <3>1, <3>2 DEF ScanUpdate, Demanded, Awaited
  <2>3. n \notin Effect
    BY <1>2, Kinds
  <2> QED
    BY <1>1, <1>2, <2>1, <2>2, <2>3, RefreshEffect DEF ScanUpdate
<1>3. ASSUME CheckSource(n)
      PROVE  EffectStep
  <2>1. Computing
    BY <1>3, CallsCompute DEF CheckSource
  <2>2. ASSUME sinks[srcs[n][pos[n]]][n][pos[n]] = "Clean"
        PROVE  CheckCleanEffect(n)
    BY <1>1, <1>3, <2>1, <2>2, Types DEF CheckSource, CheckCleanEffect, Becomes
  <2>3. ASSUME sinks[srcs[n][pos[n]]][n][pos[n]] = "Dirty"
        PROVE  StartEffect(n, "run")
    BY <1>1, <1>3, <2>1, <2>3, Types DEF CheckSource, StartEffect, Becomes
  <2> QED
    BY <1>3, <2>2, <2>3 DEF CheckSource, EffectStep
<1>4. ASSUME CheckDone(n)
      PROVE  EffectStep
  <2>1. Computing
    BY <1>4, CallsCompute DEF CheckDone
  <2>2. ResolvedTo(n, FALSE)
    BY <1>1, <1>4, Types, NodeSets DEF CheckDone, ResolvedTo, Resolve
  <2>3. CheckDoneEffect(n)
    BY <1>1, <1>4, <2>1, <2>2, Types DEF CheckDone, CheckDoneEffect, Becomes
  <2> QED
    BY <2>3 DEF EffectStep
<1> QED
  BY <1>2, <1>3, <1>4

\* A closure reads a source, and returns.
LEMMA RunEffects ==
    ASSUME BaseInv, PhaseInv, NEW n \in Sink
    PROVE  /\ Bind(n) => EffectStep
           /\ ReadValue(n) => EffectStep
           /\ CloseRun(n) => EffectStep
<1> USE DEF graph, calls, sweep, disc, queues, loop, users
<1>1. CallsInv /\ TypeOK /\ Progress /\ n \in Node
  BY NodeSets DEF BaseInv, CallsInv
<1>2. ASSUME Bind(n)
      PROVE  EffectStep
  <2> DEFINE i == Len(seen[n]) + 1
             s == NextRead(n, seen[n])
  <2>1. /\ s \in Source /\ i \in Index /\ i <= Len(srcs[n]) + 1 /\ i \in Nat
        /\ srcs[n] \in Seq(Source) /\ Len(srcs[n]) \in Nat
        /\ srcs \in [Sink -> Seq(Source)]
    <3>1. /\ seen[n] \in Reads /\ Len(seen[n]) <= Len(srcs[n]) /\ Len(seen[n]) \in Nat
          /\ srcs[n] \in Seq(Source) /\ Len(srcs[n]) \in Nat
          /\ srcs \in [Sink -> Seq(Source)]
      BY <1>1, SinkTypes
    <3>2. s # Done
      BY <1>2 DEF Bind
    <3> QED
      BY <3>1, <3>2, NextReadTypes
  <2>2. Computing
    BY <1>2, CallsCompute DEF Bind, Active
  <2>3. \A r \in Source, m \in Sink, j \in Index :
           sinks'[r][m][j] =
               IF m = n /\ j = i /\ i <= Len(srcs[n]) /\ srcs[n][i] # s /\ r = srcs[n][i]
               THEN "Unbound"
               ELSE IF m = n /\ j = i /\ r = s THEN "Clean" ELSE sinks[r][m][j]
    BY <1>1, <1>2, BindEntries
  <2>4. /\ \A m \in Sink : m # n => srcs'[m] = srcs[m]
        /\ Len(srcs'[n]) = IF i <= Len(srcs[n]) THEN Len(srcs[n]) ELSE i
        /\ \A j \in Index : j <= Len(srcs'[n]) => srcs'[n][j] = IF j = i THEN s ELSE srcs[n][j]
    <3>1. CASE i <= Len(srcs[n]) /\ srcs[n][i] = s
      <4>1. srcs' = srcs
        BY <1>2, <2>1, <3>1 DEF Bind
      <4> QED
        BY <3>1, <4>1
    <3>2. CASE i <= Len(srcs[n]) /\ srcs[n][i] # s
      <4>1. srcs' = [srcs EXCEPT ![n][i] = s]
        BY <1>2, <2>1, <3>2 DEF Bind
      <4>2. srcs'[n] = [srcs[n] EXCEPT ![i] = s] /\ i \in 1 .. Len(srcs[n])
        BY <2>1, <3>2, <4>1
      <4>3. /\ Len(srcs'[n]) = Len(srcs[n])
            /\ \A j \in 1 .. Len(srcs[n]) : srcs'[n][j] = IF j = i THEN s ELSE srcs[n][j]
        BY <2>1, <4>2, ExceptSeq
      <4> QED
        BY <2>1, <3>2, <4>1, <4>3 DEF Index
    <3>3. CASE i > Len(srcs[n])
      <4>1. srcs' = [srcs EXCEPT ![n] = Append(@, s)]
        BY <1>2, <2>1, <3>3 DEF Bind
      <4>2. srcs'[n] = Append(srcs[n], s) /\ i = Len(srcs[n]) + 1
        BY <2>1, <3>3, <4>1
      <4>3. /\ Len(srcs'[n]) = Len(srcs[n]) + 1 /\ srcs'[n][Len(srcs[n]) + 1] = s
            /\ \A j \in 1 .. Len(srcs[n]) : srcs'[n][j] = srcs[n][j]
        BY <2>1, <4>2, AppendProperties
      <4> QED
        BY <2>1, <3>3, <4>1, <4>2, <4>3 DEF Index
    <3> QED
      BY <2>1, <3>1, <3>2, <3>3
  <2>5. BindEffect(n, s, i)
    BY <1>1, <1>2, <2>1, <2>2, <2>3, <2>4, Types DEF Bind, BindEffect, Becomes
  <2> QED
    BY <2>1, <2>5 DEF EffectStep
<1>3. ASSUME ReadValue(n)
      PROVE  EffectStep
  <2> DEFINE s == NextRead(n, seen[n])
  <2>1. Computing
    BY <1>3, CallsCompute DEF ReadValue, Active
  <2>2. s \in Source
    BY <1>1, <1>3, SinkTypes, NextReadTypes DEF ReadValue, ProgressOf
  <2>3. ReadEffect(n, s)
    BY <1>1, <1>3, <2>1, <2>2, Types DEF ReadValue, ReadEffect, Becomes
  <2> QED
    BY <2>2, <2>3 DEF EffectStep
<1>4. ASSUME CloseRun(n)
      PROVE  EffectStep
  <2>1. Computing
    BY <1>4, CallsCompute DEF CloseRun, Active
  <2>2. n \in Scan => n \in Source
    BY NodeSets
  <2>3. CloseEffect(n)
    <3>1. CASE n \in Scan
      BY <1>1, <1>4, <2>1, <2>2, <3>1, Types DEF CloseRun, CloseEffect, Becomes
    <3>2. CASE n \notin Scan
      BY <1>1, <1>4, <2>1, <2>2, <3>2, Types DEF CloseRun, CloseEffect, Becomes
    <3> QED
      BY <3>1, <3>2
  <2> QED
    BY <2>3 DEF EffectStep
<1> QED
  BY <1>2, <1>3, <1>4

\* The bindings that are not renewed go, one by one.
LEMMA UnbindEffects ==
    ASSUME BaseInv, PhaseInv, NEW n \in Sink
    PROVE  /\ UnbindSource(n) => EffectStep
           /\ TrimDone(n) => EffectStep
           /\ ClearDone(n) => EffectStep
<1> USE DEF graph, calls, sweep, disc, queues, loop, users
<1>1. CallsInv /\ TypeOK /\ Progress /\ NotifyPhase /\ NodeCalls /\ n \in Node
  BY NodeSets DEF BaseInv, CallsInv, PhaseInv
<1>2. ASSUME UnbindSource(n)
      PROVE  EffectStep
  <2>1. srcs[n][pos[n]] \in Source /\ pos[n] \in Index
    <3>1. /\ srcs[n] \in Seq(Source) /\ Len(srcs[n]) \in Nat /\ Len(srcs[n]) <= MaxReads
          /\ pos[n] \in Nat /\ pos[n] >= 1 /\ MaxReads \in Nat
      BY <1>1, SinkTypes
    <3> QED
      BY <1>2, <3>1 DEF UnbindSource, Index
  <2>2. sinks' = [sinks EXCEPT ![srcs[n][pos[n]]][n][pos[n]] = "Unbound"]
    BY <1>2 DEF UnbindSource, Unbind
  <2>3. EntryBecomes(srcs[n][pos[n]], n, pos[n], "Unbound")
    BY <1>1, <2>1, <2>2, Types DEF EntryBecomes
  <2>4. \A m \in Node : pc[m] # "notify"
    BY <1>1, <1>2, NoSweep DEF UnbindSource, NodeCalls, Node
  <2>5. UnbindEffect(n)
    BY <1>1, <1>2, <2>3, <2>4, Types DEF UnbindSource, UnbindEffect, Becomes
  <2> QED
    BY <2>5 DEF EffectStep
<1>3. ASSUME TrimDone(n)
      PROVE  EffectStep
  <2>1. Computing
    BY <1>3, CallsCompute DEF TrimDone, Active
  <2>2. ResolvedTo(n, result[n])
    BY <1>1, <1>3, Types, NodeSets DEF TrimDone, ResolvedTo, Resolve
  <2>3. /\ Becomes(srcs, srcs', Sink, n, SubSeq(srcs[n], 1, Len(seen[n])))
        /\ Becomes(pc, pc', Node, n, "idle")
        /\ Becomes(pos, pos', Sink, n, 1)
        /\ Becomes(seen, seen', Sink, n, <<>>)
        /\ Becomes(result, result', Scan, n, FALSE)
    BY <1>1, <1>3, Types DEF TrimDone, Becomes
  <2>4. TrimEffect(n)
    BY <1>1, <1>3, <2>1, <2>2, <2>3 DEF TrimDone, TrimEffect
  <2> QED
    BY <2>4 DEF EffectStep
<1>4. ASSUME ClearDone(n)
      PROVE  EffectStep
  <2>1. ClearDoneEffect(n)
    BY <1>1, <1>4, Types DEF ClearDone, ClearDoneEffect, Becomes
  <2> QED
    BY <2>1 DEF EffectStep
<1> QED
  BY <1>2, <1>3, <1>4

\* The runtime takes work out of its queues.
LEMMA RuntimeEffects ==
    ASSUME BaseInv, PhaseInv
    PROVE  /\ RunAction => EffectStep
           /\ ApplyUnbind => EffectStep
           /\ ApplyPending => EffectStep
           /\ RunReaction => EffectStep
           /\ Discard => EffectStep
<1> USE DEF graph, calls, sweep, disc, queues, loop, users
<1>1. TypeOK /\ Progress /\ NotifyPhase
  BY DEF BaseInv, CallsInv
<1>2. ASSUME Quiet
      PROVE  Computing
  BY <1>2 DEF Quiet, Computing
<1>3. ASSUME RunAction
      PROVE  EffectStep
  <2> DEFINE s == Head(actions)[1]
  <2>1. s \in State /\ s \in Source
    BY <1>1, <1>3, NodeSets DEF RunAction, TypeOK
  <2>2. BeginNotifyEffect(s)
    BY <1>1, <1>3, <2>1, Types, NodeSets
       DEF RunAction, Assign, BeginNotify, BeginNotifyEffect, Becomes
  <2> QED
    BY <2>1, <2>2 DEF EffectStep
<1>4. ASSUME ApplyPending
      PROVE  EffectStep
  <2> DEFINE s == Head(notifys)
  <2>1. s \in State /\ s \in Source
    BY <1>1, <1>4, NodeSets DEF ApplyPending, TypeOK
  <2>2. BeginNotifyEffect(s)
    BY <1>1, <1>4, <2>1, Types, NodeSets
       DEF ApplyPending, BeginNotify, BeginNotifyEffect, Becomes
  <2> QED
    BY <2>1, <2>2 DEF EffectStep
<1>5. ASSUME ApplyUnbind
      PROVE  EffectStep
  <2> DEFINE e == Head(unbinds)
  <2>1. e \in Effect /\ e \in Sink /\ e \in Node /\ e \notin Scan
    BY <1>1, <1>5, NodeSets, Kinds DEF ApplyUnbind, TypeOK
  <2>2. BeginClearEffect(e)
    BY <1>1, <1>5, <2>1, Types, NodeSets
       DEF ApplyUnbind, BeginClear, BeginClearEffect, Becomes
  <2> QED
    BY <2>1, <2>2 DEF EffectStep
<1>6. ASSUME Discard
      PROVE  EffectStep
  <2> DEFINE n == Head(discards)
  <2>1. n \in Scan /\ n \in Sink /\ n \in Node /\ n \notin Effect /\ n \in Source
    BY <1>1, <1>6, NodeSets, Kinds DEF Discard, TypeOK
  <2>2. CASE NoSinks(sinks[n])
    <3>1. BeginClearEffect(n)
      BY <1>1, <1>6, <2>1, <2>2, Types, NodeSets
         DEF Discard, BeginClear, BeginClearEffect, Becomes
    <3> QED
      BY <2>1, <3>1 DEF EffectStep
  <2>3. CASE ~NoSinks(sinks[n])
    <3>1. StageEffect
      BY <1>6, <2>3 DEF Discard, StageEffect
    <3> QED
      BY <3>1 DEF EffectStep
  <2> QED
    BY <2>2, <2>3
<1>7. ASSUME RunReaction
      PROVE  EffectStep
  <2> DEFINE e == Head(batch)
  <2>1. e \in Effect /\ e \in Sink /\ e \in Node
    BY <1>1, <1>7, NodeSets DEF RunReaction, TypeOK
  <2>2. CASE life[e] = "live" /\ dirty[e] # "Clean"
    BY <1>1, <1>2, <1>7, <2>1, <2>2, RefreshEffect DEF RunReaction, Quiet
  <2>3. CASE ~(life[e] = "live" /\ dirty[e] # "Clean")
    <3>1. dirty[e] \in Dirty
      BY <1>1, <2>1 DEF TypeOK
    <3>2. StageEffect
      BY <1>7, <2>3 DEF RunReaction, StageEffect
    <3> QED
      BY <3>2 DEF EffectStep
  <2> QED
    BY <2>2, <2>3
<1> QED
  BY <1>3, <1>4, <1>5, <1>6, <1>7

\* The runtime goes from one stage to the next.
LEMMA StageEffects ==
    ASSUME BaseInv
    PROVE  /\ ActionsDone \/ ApplyDone \/ GetDone \/ ReactionsDone => EffectStep
           /\ DiscardUnbinds \/ DiscardUnbindsDone \/ DiscardsDone => EffectStep
           /\ UNCHANGED vars => EffectStep
<1> USE DEF graph, calls, sweep, disc, queues, loop, users
<1>1. ASSUME ActionsDone \/ ApplyDone \/ GetDone \/ ReactionsDone
      PROVE  StageEffect
  <2>1. CASE ActionsDone
    BY <2>1 DEF ActionsDone, Return, StageEffect
  <2>2. CASE ApplyDone
    BY <2>2 DEF ApplyDone, Return, StageEffect
  <2>3. CASE GetDone
    BY <2>3 DEF GetDone, StageEffect
  <2>4. CASE ReactionsDone
    BY <2>4 DEF ReactionsDone, Return, StageEffect
  <2> QED
    BY <1>1, <2>1, <2>2, <2>3, <2>4
<1>2. ASSUME DiscardUnbinds \/ DiscardUnbindsDone \/ DiscardsDone
      PROVE  StageEffect
  BY <1>2 DEF DiscardUnbinds, DiscardUnbindsDone, DiscardsDone, Return, StageEffect
<1>3. ASSUME UNCHANGED vars
      PROVE  StageEffect
  BY <1>3 DEF vars, StageEffect
<1> QED
  BY <1>1, <1>2, <1>3 DEF EffectStep

\* What users do between the calls of the runtime, and in the closures of effects.
LEMMA UserEffects ==
    ASSUME BaseInv
    PROVE  Users => EffectStep
<1> USE DEF graph, calls, sweep, disc, queues, loop, users
<1>1. TypeOK
  BY DEF BaseInv, CallsInv
<1>2. ASSUME NEW s \in State, NEW v \in Value, Set(s, v)
      PROVE  EffectStep
  <2>1. s \in Source
    BY NodeSets
  <2>2. BeginNotifyEffect(s)
    BY <1>1, <1>2, <2>1, Types, NodeSets DEF Set, Assign, BeginNotify, BeginNotifyEffect, Becomes
  <2> QED
    BY <2>2 DEF EffectStep
<1>3. ASSUME NEW s \in State, NEW v \in Value, SetLoose(s, v)
      PROVE  EffectStep
  <2>1. LooseEffect(s)
    BY <1>1, <1>3, Types DEF SetLoose, Assign, LooseEffect
  <2> QED
    BY <2>1 DEF EffectStep
<1>4. ASSUME NEW s \in State, NEW v \in Value, SpawnSet(s, v)
      PROVE  EffectStep
  <2>1. StageEffect
    BY <1>4 DEF SpawnSet, StageEffect
  <2> QED
    BY <2>1 DEF EffectStep
<1>5. ASSUME NEW e \in Effect, Subscribe(e)
      PROVE  EffectStep
  <2>1. SubscribeEffect(e)
    BY <1>1, <1>5, Types DEF Subscribe, SubscribeEffect, Becomes
  <2> QED
    BY <2>1 DEF EffectStep
<1>6. ASSUME NEW e \in Effect, Unsubscribe(e)
      PROVE  EffectStep
  <2>1. UnsubscribeEffect(e)
    BY <1>1, <1>6, Types DEF Unsubscribe, UnsubscribeEffect, Becomes, TopLevel, InClosure
  <2> QED
    BY <2>1 DEF EffectStep
<1>7. ASSUME \/ \E stage \in {"actions", "apply", "discards"} : Dispatch(stage)
             \/ OpenContext \/ CloseContext \/ \E n \in Scan : Get(n)
             \/ Flush
      PROVE  EffectStep
  <2>1. StageEffect
    BY <1>7 DEF Dispatch, OpenContext, CloseContext, Get, Flush, StageEffect
  <2> QED
    BY <2>1 DEF EffectStep
<1> QED
  BY <1>2, <1>3, <1>4, <1>5, <1>6, <1>7 DEF Users

\* Every step has one of these effects.
LEMMA StepEffects ==
    ASSUME BaseInv, PhaseInv, [Next]_vars
    PROVE  EffectStep
<1>1. TypeOK
  BY DEF BaseInv, CallsInv
<1>2. CASE Internal
  BY <1>1, <1>2, NodeSets, NotifyDoneEffects, NotifySinkEffect, CheckEffects, RunEffects,
     UnbindEffects, RuntimeEffects, StageEffects DEF Internal
<1> QED
  BY <1>2, StageEffects, UserEffects DEF Next

-----------------------------------------------------------------------------
(* The steps keep FlagInv. *)

\* What is known before a step, entry by entry.
LEMMA Before ==
    ASSUME BaseInv
    PROVE  /\ TypeOK /\ NotifyPhase /\ Progress /\ Sweeps /\ BindingsAgree
           /\ \A n \in Sink : /\ srcs[n] \in Seq(Source) /\ Len(srcs[n]) \in Nat
                              /\ Len(seen[n]) \in Nat /\ pos[n] \in Nat /\ ProgressOf(n)
                              /\ n \in Node
           /\ \A s \in Source : s \in Node /\ level[s] \in DirtyLevel
<1>1. TypeOK /\ NotifyPhase /\ Progress /\ Sweeps /\ BindingsAgree
  BY DEF BaseInv, CallsInv
<1> QED
  BY <1>1, SinkTypes, NodeSets, Types

\* Each round of a sweep, and its end.
LEMMA NotifyFlags ==
    ASSUME BaseInv, FlagInv, NEW s \in Source
    PROVE  /\ \A n \in Sink, i \in Index : NotifyEffect(s, n, i) => FlagInv'
           /\ NotifyDoneEffect(s) => FlagInv'
<1> USE DEF graph, calls, sweep, disc, queues, loop, users
<1>1. TypeOK /\ NotifyPhase /\ Progress
  BY Before
<1>2. ASSUME NEW n \in Sink, NEW i \in Index, NotifyEffect(s, n, i)
      PROVE  FlagInv'
  <2>1. /\ ApplyNotify(sinks[s][n][i], level[s]) \in Dirty
        /\ ApplyNotify(sinks[s][n][i], level[s]) # "Clean"
        /\ ApplyNotify(dirty[n], level[s]) \in Dirty /\ ApplyNotify(dirty[n], level[s]) # "Clean"
        /\ level[s] # "MaybeDirty" /\ sinks[s][n][i] # "MaybeDirty"
             => ApplyNotify(sinks[s][n][i], level[s]) # "MaybeDirty"
    BY <1>1, Types, ApplyNotifyTypes DEF ApplyNotify, Entry
  <2>2. /\ \A m \in Sink : dirty'[m] # "Clean" \/ dirty'[m] = dirty[m]
        /\ Called(s, n, i) => dirty'[n] # "Clean"
    <3>1. \A m \in Sink : dirty'[m] = IF m = n /\ Called(s, n, i)
                                     THEN ApplyNotify(dirty[n], level[s]) ELSE dirty[m]
      BY <1>2 DEF NotifyEffect
    <3> QED
      BY <2>1, <3>1
  <2>3. PhaseInv'
    BY <1>2, <2>1, <2>2, NodeSets, Kinds, Types
       DEF NotifyEffect, FlagInv, PhaseInv, NotifyDirty, StateLevel, ActiveClean, Active, NodeCalls,
           ClearAlone, NewEffect, UnbindsDropped, Called, First, Attended
  <2>4. CleanEntry'
    <3> SUFFICES ASSUME NEW r \in Scan, NEW m \in Sink, NEW j \in Index,
                        sinks'[r][m][j] = "Clean"
                 PROVE  \/ dirty'[r] = "Clean" /\ pc'[r] = "idle"
                        \/ pc'[r] = "notify" /\ <<m, j>> \in todo'[r]
      BY DEF CleanEntry, CleanEntryAt
    <3>1. r \in Source /\ r \in Node /\ r \in Sink /\ m \in Node
      BY NodeSets
    <3>2. ~(r = s /\ m = n /\ j = i) /\ sinks[r][m][j] = "Clean"
      BY <1>2, <2>1, <3>1 DEF NotifyEffect, EntryBecomes
    <3>3. \/ dirty[r] = "Clean" /\ pc[r] = "idle"
          \/ pc[r] = "notify" /\ <<m, j>> \in todo[r] /\ dirty[r] # "Clean"
      BY <1>2, <3>1, <3>2
         DEF NotifyEffect, FlagInv, PhaseInv, EntryInv, CleanEntry, CleanEntryAt, NotifyDirty,
             BeingRead
    <3>4. <<m, j>> \in Bound(r)
      BY <3>2 DEF Bound, Key
    <3>5. /\ pc'[r] = IF r = n /\ n \in Scan /\ First(s, n, i) THEN "notify" ELSE pc[r]
          /\ todo'[r] = IF r = n /\ n \in Scan /\ First(s, n, i) THEN Bound(n)
                        ELSE IF r = s THEN todo[s] \ {<<n, i>>} ELSE todo[r]
          /\ dirty'[r] = IF r = n /\ Called(s, n, i) THEN ApplyNotify(dirty[n], level[s])
                         ELSE dirty[r]
      BY <1>2, <3>1 DEF NotifyEffect
    <3> QED
      BY <3>1, <3>2, <3>3, <3>4, <3>5 DEF First
  <2>5. MaybeEntry'
    BY <1>2, <2>1, <2>2, NodeSets, Kinds, Types
       DEF NotifyEffect, FlagInv, PhaseInv, EntryInv, MaybeEntry, MaybeEntryAt, EntryBecomes,
           NotifyDirty, StateLevel, Active
  <2>6. FlagEntry'
    <3> SUFFICES ASSUME NEW r \in Source, NEW m \in Sink, NEW j \in Index,
                        sinks'[r][m][j] \in {"MaybeDirty", "Dirty"}, Attended(m), dirty'[m] = "Clean"
                 PROVE  FALSE
      BY <1>2 DEF NotifyEffect, FlagEntry, FlagEntryAt, Attended
    <3>1. pc[m] \in Settling
      BY <1>2, NodeSets DEF NotifyEffect, Settling
    <3>2. sinks[r][m][j] \in {"Clean", "Unbound"}
      BY <1>1, <2>2, <3>1, Types DEF FlagInv, EntryInv, FlagEntry, FlagEntryAt, Entry, Dirty
    <3>3. r = s /\ m = n /\ j = i
      BY <1>2, <3>2 DEF NotifyEffect, EntryBecomes
    <3> QED
      BY <1>2, <2>2, <3>2, <3>3 DEF NotifyEffect, Called
  <2>7. CheckedClean' /\ ReadClean'
    BY <1>2, NodeSets DEF NotifyEffect, CheckedClean, ReadClean, Active
  <2> QED
    BY <2>3, <2>4, <2>5, <2>6, <2>7 DEF FlagInv, EntryInv
<1>3. ASSUME NotifyDoneEffect(s)
      PROVE  FlagInv'
  <2>1. PhaseInv'
    BY <1>3, NodeSets, Kinds
       DEF NotifyDoneEffect, Becomes, FlagInv, PhaseInv, NotifyDirty, StateLevel, ActiveClean, Active,
           NodeCalls, ClearAlone, NewEffect, UnbindsDropped
  <2>2. EntryInv'
    BY <1>3, NodeSets, Kinds
       DEF NotifyDoneEffect, Becomes, FlagInv, PhaseInv, NotifyDirty, EntryInv, CleanEntry, CleanEntryAt,
           MaybeEntry, MaybeEntryAt, FlagEntry, FlagEntryAt, CheckedClean, ReadClean, Active,
           Settling, Attended, BeingRead
  <2> QED
    BY <2>1, <2>2 DEF FlagInv
<1> QED
  BY <1>2, <1>3

\* The start, the rounds and the end of a check, and the start of a run.
LEMMA CheckFlags ==
    ASSUME BaseInv, FlagInv, NEW n \in Sink
    PROVE  /\ \A c \in {"check", "run"} : StartEffect(n, c) => FlagInv'
           /\ CheckCleanEffect(n) => FlagInv'
           /\ CheckDoneEffect(n) => FlagInv'
<1> USE DEF graph, calls, sweep, disc, queues, loop, users
<1>1. /\ TypeOK /\ Progress /\ BindingsAgree
      /\ \A m \in Sink : Len(srcs[m]) \in Nat /\ Len(seen[m]) \in Nat /\ pos[m] \in Nat
      /\ ProgressOf(n) /\ n \in Node
  BY Before
<1>2. ASSUME NEW c \in {"check", "run"}, StartEffect(n, c)
      PROVE  FlagInv'
  <2>1. dirty[n] # "Clean" /\ pc[n] \in {"idle", "check"} /\ (c = "check" => dirty'[n] # "Clean")
        /\ (c = "run" => dirty'[n] = "Clean") /\ \A m \in Sink : m # n => dirty'[m] = dirty[m]
    BY <1>1, <1>2 DEF StartEffect, ProgressOf, Becomes
  <2>2. Len(seen[n]) = 0
    BY <1>1, <2>1 DEF ProgressOf
  <2>3. PhaseInv'
    BY <1>1, <1>2, <2>1, NodeSets, Kinds
       DEF StartEffect, Becomes, Computing, FlagInv, PhaseInv, NotifyDirty, StateLevel, ActiveClean,
           Active, NodeCalls, ClearAlone, NewEffect, UnbindsDropped
  <2>4. CleanEntry' /\ MaybeEntry'
    BY <1>1, <1>2, <2>1, NodeSets, Kinds
       DEF StartEffect, Becomes, Computing, FlagInv, EntryInv, CleanEntry, CleanEntryAt,
           MaybeEntry, MaybeEntryAt, Active, BeingRead
  <2>5. FlagEntry' /\ CheckedClean' /\ ReadClean'
    BY <1>1, <1>2, <2>1, <2>2, NodeSets
       DEF StartEffect, Becomes, FlagInv, EntryInv, FlagEntry, FlagEntryAt,
           CheckedClean, ReadClean, Active, Settling, Attended, BeingRead, Index
  <2> QED
    BY <2>3, <2>4, <2>5 DEF FlagInv, EntryInv
<1>3. ASSUME CheckCleanEffect(n)
      PROVE  FlagInv'
  <2>1. PhaseInv'
    BY <1>3 DEF CheckCleanEffect, FlagInv, PhaseInv, NotifyDirty, StateLevel, ActiveClean,
           NodeCalls, ClearAlone, NewEffect, UnbindsDropped
  <2>2. CheckedClean'
    BY <1>1, <1>3, NodeSets DEF CheckCleanEffect, Becomes, FlagInv, EntryInv, CheckedClean, Index
  <2>3. CleanEntry' /\ MaybeEntry' /\ FlagEntry' /\ ReadClean'
    BY <1>3 DEF CheckCleanEffect, FlagInv, EntryInv, CleanEntry, CleanEntryAt,
           MaybeEntry, MaybeEntryAt, FlagEntry, FlagEntryAt, ReadClean, Attended, BeingRead
  <2> QED
    BY <2>1, <2>2, <2>3 DEF FlagInv, EntryInv
<1>4. ASSUME CheckDoneEffect(n)
      PROVE  FlagInv'
  <2>1. PhaseInv'
    BY <1>4, NodeSets, Kinds
       DEF CheckDoneEffect, Becomes, Computing, ResolvedTo, FlagInv, PhaseInv, NotifyDirty, StateLevel,
           ActiveClean, Active, NodeCalls, ClearAlone, NewEffect, UnbindsDropped
  <2>2. CleanEntry' /\ MaybeEntry'
    BY <1>4, NodeSets, Kinds
       DEF CheckDoneEffect, Becomes, Computing, ResolvedTo, FromIsDirty, FlagInv, EntryInv,
           CleanEntry, CleanEntryAt, MaybeEntry, MaybeEntryAt, Active, BeingRead
  <2>3. \A s \in Source, i \in Index : sinks[s][n][i] \in {"Clean", "Unbound"}
    BY <1>1, <1>4 DEF CheckDoneEffect, BindingsAgree, FlagInv, EntryInv, CheckedClean, Index
  <2>4. FlagEntry'
    BY <1>4, <2>3, NodeSets, Kinds
       DEF CheckDoneEffect, Becomes, ResolvedTo, FromIsDirty, FlagInv, EntryInv, FlagEntry,
           FlagEntryAt, Settling, Attended
  <2>5. CheckedClean' /\ ReadClean'
    <3>1. \A m \in Sink, i \in Index : i <= Len(srcs[m]) => srcs[m][i] \in Source
      BY Before DEF Index
    <3>2. \A s \in Source, m \in Sink, i \in Index :
              sinks[s][m][i] = "Clean" => sinks'[s][m][i] = "Clean"
      BY <1>4 DEF CheckDoneEffect, ResolvedTo
    <3>3. CheckedClean'
      BY <1>1, <1>4, <3>1, <3>2, NodeSets
         DEF CheckDoneEffect, Becomes, FlagInv, EntryInv, CheckedClean
    <3>4. \A m \in Sink, i \in Index : i <= Len(seen[m]) \/ BeingRead(m, i) => i <= Len(srcs[m])
      BY Before DEF ProgressOf, BeingRead, Index
    <3>5. ReadClean'
      BY <1>1, <1>4, <3>1, <3>2, <3>4, NodeSets
         DEF CheckDoneEffect, Becomes, FlagInv, EntryInv, ReadClean, Active, BeingRead
    <3> QED
      BY <3>3, <3>5
  <2> QED
    BY <2>1, <2>2, <2>4, <2>5 DEF FlagInv, EntryInv
<1> QED
  BY <1>2, <1>3, <1>4

\* A closure binds a source, reads it and returns.
LEMMA RunFlags ==
    ASSUME BaseInv, FlagInv, NEW n \in Sink
    PROVE  /\ \A s \in Source, i \in Index : BindEffect(n, s, i) => FlagInv'
           /\ \A s \in Source : ReadEffect(n, s) => FlagInv'
           /\ CloseEffect(n) => FlagInv'
<1> USE DEF graph, calls, sweep, disc, queues, loop, users
<1>1. /\ TypeOK /\ Progress /\ BindingsAgree
      /\ \A m \in Sink : /\ Len(srcs[m]) \in Nat /\ Len(seen[m]) \in Nat /\ pos[m] \in Nat
                         /\ ProgressOf(m)
      /\ n \in Node
  BY Before
<1>2. ASSUME NEW s \in Source, NEW i \in Index, BindEffect(n, s, i)
      PROVE  FlagInv'
  <2>1. \A r \in Source, m \in Sink, j \in Index :
           sinks'[r][m][j] = sinks[r][m][j] \/ /\ m = n /\ j = i
                                               /\ sinks'[r][m][j] \in {"Clean", "Unbound"}
    BY <1>2 DEF BindEffect
  <2>2. PhaseInv'
    BY <1>2, <2>1, NodeSets, Kinds
       DEF BindEffect, Becomes, Computing, FlagInv, PhaseInv, NotifyDirty, StateLevel, ActiveClean,
           Active, NodeCalls, ClearAlone, NewEffect, UnbindsDropped
  <2>3. CleanEntry' /\ MaybeEntry'
    <3>1. /\ i = Len(seen[n]) + 1 /\ pc[n] = "run" /\ pc'[n] = "read"
          /\ seen' = seen /\ dirty' = dirty /\ todo' = todo
          /\ \A m \in Node : m # n => pc'[m] = pc[m]
      BY <1>1, <1>2 DEF BindEffect, Becomes
    <3>2. \A m \in Sink, j \in Index : BeingRead(m, j)' <=> BeingRead(m, j) \/ (m = n /\ j = i)
      BY <3>1, NodeSets DEF BeingRead
    <3>3. CleanEntry'
      BY <2>1, <3>1, <3>2, NodeSets DEF FlagInv, EntryInv, CleanEntry, CleanEntryAt
    <3>4. MaybeEntry'
      BY <2>1, <3>1, NodeSets DEF FlagInv, EntryInv, MaybeEntry, MaybeEntryAt, Active
    <3> QED
      BY <3>3, <3>4
  <2>4. FlagEntry'
    BY <1>2, <2>1, NodeSets
       DEF BindEffect, Becomes, FlagInv, EntryInv, FlagEntry, FlagEntryAt, Settling, Attended
  <2>5. CheckedClean'
    <3> SUFFICES ASSUME NEW m \in Sink, NEW j \in Index,
                        pc'[m] = "check", j < pos'[m], j <= Len(srcs'[m])
                 PROVE  sinks'[srcs'[m][j]][m][j] = "Clean"
      BY DEF CheckedClean
    <3>1. m # n /\ pc[m] = "check" /\ srcs'[m] = srcs[m] /\ pos'[m] = pos[m]
      BY <1>2, NodeSets DEF BindEffect, Becomes
    <3>2. srcs[m][j] \in Source /\ sinks[srcs[m][j]][m][j] = "Clean"
      BY <3>1, Before DEF FlagInv, EntryInv, CheckedClean, Index
    <3> QED
      BY <2>1, <3>1, <3>2
  <2>6. ReadClean'
    <3> SUFFICES ASSUME NEW m \in Sink, NEW j \in Index,
                        pc'[m] \in Active, j <= Len(seen'[m]) \/ BeingRead(m, j)'
                 PROVE  sinks'[srcs'[m][j]][m][j] = "Clean"
      BY DEF ReadClean
    <3>1. seen' = seen /\ pc[n] = "run" /\ (m # n => pc'[m] = pc[m] /\ srcs'[m] = srcs[m])
      BY <1>2, NodeSets DEF BindEffect, Becomes
    <3>2. CASE m # n
      <4>1. j <= Len(seen[m]) \/ BeingRead(m, j)
        BY <3>1, <3>2 DEF BeingRead
      <4>2. j <= Len(srcs[m]) /\ srcs[m][j] \in Source
        BY <4>1, Before DEF ProgressOf, BeingRead, Index
      <4>3. sinks[srcs[m][j]][m][j] = "Clean"
        BY <3>1, <3>2, <4>1 DEF FlagInv, EntryInv, ReadClean
      <4> QED
        BY <2>1, <3>1, <3>2, <4>2, <4>3
    <3>3. CASE m = n /\ j = i
      <4>1. srcs'[n][i] = s /\ i <= Len(srcs'[n]) /\ sinks'[s][n][i] = "Clean"
        BY <1>1, <1>2 DEF BindEffect, Index
      <4> QED
        BY <3>3, <4>1
    <3>4. CASE m = n /\ j # i
      <4>1. j <= Len(seen[n]) /\ j <= Len(srcs[n]) /\ j <= Len(srcs'[n]) /\ srcs[n][j] \in Source
        BY <1>1, <1>2, <3>1, <3>4, Before DEF BindEffect, BeingRead, ProgressOf, Index
      <4>2. srcs'[n][j] = srcs[n][j]
        BY <1>2, <3>4, <4>1 DEF BindEffect
      <4>3. sinks[srcs[n][j]][n][j] = "Clean"
        BY <3>1, <4>1 DEF FlagInv, EntryInv, ReadClean, Active
      <4> QED
        BY <2>1, <3>4, <4>1, <4>2, <4>3
    <3> QED
      BY <3>2, <3>3, <3>4
  <2> QED
    BY <2>2, <2>3, <2>4, <2>5, <2>6 DEF FlagInv, EntryInv
<1>3. ASSUME NEW s \in Source, ReadEffect(n, s)
      PROVE  FlagInv'
  <2>1. seen'[n] = Append(seen[n], val[s]) /\ Len(seen'[n]) = Len(seen[n]) + 1
        /\ \A m \in Sink : m # n => seen'[m] = seen[m]
    <3>1. seen[n] \in Seq(Value) /\ Len(seen[n]) \in Nat
      BY <1>1, SinkTypes
    <3>2. Len(Append(seen[n], val[s])) = Len(seen[n]) + 1
      BY <3>1
    <3> QED
      BY <1>3, <3>2 DEF ReadEffect, Becomes
  <2>2. PhaseInv'
    BY <1>3, NodeSets, Kinds
       DEF ReadEffect, Becomes, Computing, FlagInv, PhaseInv, NotifyDirty, StateLevel, ActiveClean,
           Active, NodeCalls, ClearAlone, NewEffect, UnbindsDropped
  <2>3. \A r \in Source, i \in Index :
            BeingRead(n, i) /\ sinks[r][n][i] # "Unbound" => r = s
    BY <1>1, <1>3 DEF ReadEffect, BeingRead, BindingsAgree, ProgressOf
  <2>4. CleanEntry'
    <3> SUFFICES ASSUME NEW r \in Scan, NEW m \in Sink, NEW j \in Index,
                        sinks[r][m][j] = "Clean", ~BeingRead(m, j)'
                 PROVE  \/ dirty[r] = "Clean" /\ pc'[r] = "idle"
                        \/ pc'[r] = "notify" /\ <<m, j>> \in todo[r]
      BY <1>3 DEF ReadEffect, CleanEntry, CleanEntryAt
    <3>1. r \in Source /\ r \in Node /\ m \in Node
      BY NodeSets
    <3>2. pc[r] # "notify" /\ (pc[r] = "idle" => pc'[r] = "idle")
      BY <1>3, <3>1 DEF ReadEffect, Computing, Becomes
    <3>3. CASE BeingRead(m, j)
      <4>1. m = n
        BY <1>3, <2>1, <3>1, <3>3 DEF BeingRead, ReadEffect, Becomes
      <4>2. r = s
        BY <2>3, <3>1, <3>3, <4>1
      <4> QED
        BY <1>3, <3>2, <4>2 DEF ReadEffect, Settled
    <3>4. CASE ~BeingRead(m, j)
      BY <3>1, <3>2, <3>4 DEF FlagInv, EntryInv, CleanEntry, CleanEntryAt
    <3> QED
      BY <3>3, <3>4
  <2>5. MaybeEntry' /\ FlagEntry'
    BY <1>3, NodeSets
       DEF ReadEffect, Becomes, FlagInv, EntryInv, MaybeEntry, MaybeEntryAt, FlagEntry, FlagEntryAt,
           Active, Settling, Attended
  <2>6. CheckedClean'
    BY <1>3, NodeSets DEF ReadEffect, Becomes, FlagInv, EntryInv, CheckedClean
  <2>7. ReadClean'
    BY <1>1, <1>3, <2>1, NodeSets
       DEF ReadEffect, Becomes, FlagInv, EntryInv, ReadClean, Active, BeingRead, Index
  <2> QED
    BY <2>2, <2>4, <2>5, <2>6, <2>7 DEF FlagInv, EntryInv
<1>4. ASSUME CloseEffect(n)
      PROVE  FlagInv'
  <2>1. /\ Computing /\ pc[n] = "run" /\ Becomes(pc, pc', Node, n, "trim")
        /\ Becomes(pos, pos', Sink, n, Len(seen[n]) + 1)
        /\ UNCHANGED <<dirty, srcs, sinks, seen, level, todo, life, notifys, unbinds, rt>>
    BY <1>4 DEF CloseEffect
  <2> HIDE DEF graph, calls, sweep, disc, queues, loop, users
  <2>2. PhaseInv'
    BY <2>1, NodeSets, Kinds
       DEF Becomes, Computing, FlagInv, PhaseInv, NotifyDirty, StateLevel, ActiveClean, Active,
           NodeCalls, ClearAlone, NewEffect, UnbindsDropped
  <2>3. CleanEntry' /\ MaybeEntry'
    BY <2>1, NodeSets, Kinds
       DEF Becomes, Computing, FlagInv, EntryInv, CleanEntry, CleanEntryAt,
           MaybeEntry, MaybeEntryAt, Active, BeingRead
  <2>4. FlagEntry' /\ CheckedClean' /\ ReadClean'
    BY <2>1, NodeSets
       DEF Becomes, FlagInv, EntryInv, FlagEntry, FlagEntryAt, CheckedClean, ReadClean,
           Active, Settling, Attended, BeingRead
  <2> QED
    BY <2>2, <2>3, <2>4 DEF FlagInv, EntryInv
<1> QED
  BY <1>2, <1>3, <1>4

\* Bindings are removed, after a run or for good.
LEMMA UnbindFlags ==
    ASSUME BaseInv, FlagInv, NEW n \in Sink
    PROVE  /\ UnbindEffect(n) => FlagInv'
           /\ TrimEffect(n) => FlagInv'
           /\ ClearDoneEffect(n) => FlagInv'
<1> USE DEF graph, calls, sweep, disc, queues, loop, users
<1>1. /\ TypeOK /\ Progress /\ BindingsAgree
      /\ \A m \in Sink : /\ Len(srcs[m]) \in Nat /\ Len(seen[m]) \in Nat /\ pos[m] \in Nat
                         /\ ProgressOf(m)
      /\ n \in Node
  BY Before
<1>2. ASSUME UnbindEffect(n)
      PROVE  FlagInv'
  <2>1. \A r \in Source, m \in Sink, j \in Index :
           \/ sinks'[r][m][j] = sinks[r][m][j]
           \/ m = n /\ j = pos[n] /\ sinks'[r][m][j] = "Unbound"
    BY <1>2 DEF UnbindEffect, EntryBecomes
  <2>2. PhaseInv'
    <3>1. \A m \in Scan : NoSinks(sinks[m]) => NoSinks(sinks'[m])
      BY <2>1, NodeSets DEF NoSinks
    <3> QED
      BY <1>2, <3>1, NodeSets
         DEF UnbindEffect, FlagInv, PhaseInv, NotifyDirty, StateLevel, ActiveClean,
             Active, NodeCalls, ClearAlone, NewEffect, UnbindsDropped
  <2>3. CleanEntry' /\ MaybeEntry' /\ FlagEntry'
    BY <1>2, <2>1, NodeSets
       DEF UnbindEffect, FlagInv, EntryInv, CleanEntry, CleanEntryAt,
           MaybeEntry, MaybeEntryAt, FlagEntry, FlagEntryAt, Active, Settling, Attended, BeingRead
  <2>4. CheckedClean'
    <3> SUFFICES ASSUME NEW m \in Sink, NEW j \in Index,
                        pc[m] = "check", j < pos'[m], j <= Len(srcs[m])
                 PROVE  sinks'[srcs[m][j]][m][j] = "Clean"
      BY <1>2 DEF UnbindEffect, CheckedClean
    <3>1. m # n /\ pos'[m] = pos[m] /\ srcs[m][j] \in Source
      BY <1>2, Before DEF UnbindEffect, Becomes, Index
    <3> QED
      BY <2>1, <3>1 DEF FlagInv, EntryInv, CheckedClean
  <2>5. ReadClean'
    <3> SUFFICES ASSUME NEW m \in Sink, NEW j \in Index,
                        pc[m] \in Active, j <= Len(seen[m]) \/ BeingRead(m, j)
                 PROVE  sinks'[srcs[m][j]][m][j] = "Clean"
      BY <1>2 DEF UnbindEffect, ReadClean, BeingRead
    <3>1. srcs[m][j] \in Source
      BY Before DEF ProgressOf, BeingRead, Index
    <3>2. m = n => j # pos[n]
      BY <1>1, <1>2 DEF UnbindEffect, ProgressOf, BeingRead, Active, Index
    <3> QED
      BY <2>1, <3>1, <3>2 DEF FlagInv, EntryInv, ReadClean
  <2> QED
    BY <2>2, <2>3, <2>4, <2>5 DEF FlagInv, EntryInv
<1>3. ASSUME TrimEffect(n)
      PROVE  FlagInv'
  <2>1. /\ \A s \in Source, m \in Sink, i \in Index :
              /\ sinks[s][m][i] = "Clean" => sinks'[s][m][i] = "Clean"
              /\ sinks[s][m][i] = "Unbound" <=> sinks'[s][m][i] = "Unbound"
              /\ sinks'[s][m][i] = "MaybeDirty" => sinks[s][m][i] = "MaybeDirty"
        /\ \A m \in Sink : m # n => srcs'[m] = srcs[m] /\ seen'[m] = seen[m] /\ pos'[m] = pos[m]
    BY <1>3 DEF TrimEffect, ResolvedTo, FromIsDirty, Becomes
  <2>2. PhaseInv'
    <3>1. NotifyDirty' /\ StateLevel' /\ ActiveClean' /\ NodeCalls' /\ NewEffect'
      BY <1>3, NodeSets, Kinds
         DEF TrimEffect, Becomes, Computing, FlagInv, PhaseInv, NotifyDirty, StateLevel, ActiveClean,
             Active, NodeCalls, NewEffect
    <3>2. ClearAlone'
      BY <1>3, NodeSets DEF TrimEffect, Becomes, Computing, ClearAlone
    <3>3. UnbindsDropped'
      <4>1. unbinds \in Seq(Effect) /\ \A i \in 1 .. Len(unbinds) : life[unbinds[i]] = "dropped"
        BY <1>1 DEF FlagInv, PhaseInv, UnbindsDropped, TypeOK
      <4>2. CASE n \in Effect /\ life[n] = "dropped" /\ seen[n] # <<>>
        BY <1>3, <4>1, <4>2, AppendProperties DEF TrimEffect, UnbindsDropped
      <4>3. CASE ~(n \in Effect /\ life[n] = "dropped" /\ seen[n] # <<>>)
        BY <1>3, <4>1, <4>3 DEF TrimEffect, UnbindsDropped
      <4> QED
        BY <4>2, <4>3
    <3> QED
      BY <3>1, <3>2, <3>3 DEF PhaseInv
  <2>3. CleanEntry' /\ MaybeEntry'
    <3>1. CleanEntry'
      BY <1>1, <1>3, NodeSets, Kinds
         DEF TrimEffect, ResolvedTo, FromIsDirty, Becomes, Computing, FlagInv, PhaseInv, EntryInv,
             CleanEntry, CleanEntryAt, Active, ActiveClean, BeingRead
    <3>2. MaybeEntry'
      BY <1>1, <1>3, NodeSets, Kinds
         DEF TrimEffect, ResolvedTo, FromIsDirty, Becomes, Computing, FlagInv, PhaseInv, EntryInv,
             MaybeEntry, MaybeEntryAt, Active, ActiveClean
    <3> QED
      BY <3>1, <3>2
  <2>4. \A s \in Source, i \in Index : sinks[s][n][i] \in {"Clean", "Unbound"}
    BY <1>1, <1>3
       DEF TrimEffect, BindingsAgree, FlagInv, EntryInv, ReadClean, Active, Index
  <2>5. FlagEntry'
    <3> SUFFICES ASSUME NEW s \in Source, NEW m \in Sink, NEW j \in Index,
                        sinks'[s][m][j] \in {"MaybeDirty", "Dirty"}, pc'[m] \in Settling,
                        Attended(m)
                 PROVE  dirty[m] # "Clean"
      BY <1>3 DEF TrimEffect, FlagEntry, FlagEntryAt, Attended
    <3>1. m # n /\ pc[m] = pc'[m] /\ sinks[s][m][j] \in {"MaybeDirty", "Dirty"}
      BY <1>3, <2>1, <2>4, NodeSets
         DEF TrimEffect, ResolvedTo, FromIsDirty, Becomes
    <3> QED
      BY <3>1 DEF FlagInv, EntryInv, FlagEntry, FlagEntryAt
  <2>6. CheckedClean' /\ ReadClean'
    <3>1. ASSUME NEW m \in Sink, NEW j \in Index, m # n,
                 \/ pc[m] = "check" /\ j < pos[m] /\ j <= Len(srcs[m])
                 \/ pc[m] \in Active /\ (j <= Len(seen[m]) \/ BeingRead(m, j))
          PROVE  sinks'[srcs[m][j]][m][j] = "Clean"
      <4>1. srcs[m][j] \in Source
        BY <3>1, Before DEF ProgressOf, BeingRead, Index
      <4>2. sinks[srcs[m][j]][m][j] = "Clean"
        BY <3>1 DEF FlagInv, EntryInv, CheckedClean, ReadClean
      <4> QED
        BY <2>1, <4>1, <4>2
    <3>2. \A m \in Sink : pc'[m] # "idle" => m # n /\ pc'[m] = pc[m]
      BY <1>3, NodeSets DEF TrimEffect, Becomes
    <3> QED
      BY <2>1, <3>1, <3>2 DEF CheckedClean, ReadClean, BeingRead, Active
  <2> QED
    BY <2>2, <2>3, <2>5, <2>6 DEF FlagInv, EntryInv
<1>4. ASSUME ClearDoneEffect(n)
      PROVE  FlagInv'
  <2>1. /\ \A m \in Node : pc'[m] = "idle"
        /\ n \in Scan => NoSinks(sinks[n]) /\ dirty'[n] = "Dirty"
        /\ n \in Effect => ~Attended(n) /\ life[n] = "dropped"
        /\ \A m \in Sink : m # n => pc[m] = "idle" /\ dirty'[m] = dirty[m]
        /\ n \in Effect => dirty'[n] = dirty[n]
    BY <1>4, NodeSets, Kinds
       DEF ClearDoneEffect, Becomes, FlagInv, PhaseInv, ClearAlone, Attended
  <2>2. PhaseInv'
    BY <1>4, <2>1, NodeSets, Kinds
       DEF ClearDoneEffect, Becomes, FlagInv, PhaseInv, NotifyDirty, StateLevel, ActiveClean,
           Active, NodeCalls, ClearAlone, NewEffect, UnbindsDropped
  <2>3. EntryInv'
    BY <1>4, <2>1, NodeSets, Kinds
       DEF ClearDoneEffect, FlagInv, EntryInv, CleanEntry, CleanEntryAt, MaybeEntry, MaybeEntryAt,
           FlagEntry, FlagEntryAt, CheckedClean, ReadClean, NoSinks, Active, Settling, Attended,
           BeingRead
  <2> QED
    BY <2>2, <2>3 DEF FlagInv
<1> QED
  BY <1>2, <1>3, <1>4

\* What begins between two calls.
LEMMA QuietFlags ==
    ASSUME BaseInv, FlagInv
    PROVE  /\ \A s \in State : BeginNotifyEffect(s) \/ LooseEffect(s) => FlagInv'
           /\ \A n \in Sink : BeginClearEffect(n) => FlagInv'
           /\ \A e \in Effect : SubscribeEffect(e) \/ UnsubscribeEffect(e) => FlagInv'
           /\ StageEffect => FlagInv'
<1> USE DEF graph, calls, sweep, disc, queues, loop, users
<1>1. ASSUME UNCHANGED <<srcs, sinks, dirty, pos, seen, life, unbinds>>,
             \A r \in Source : level'[r] = level[r],
             UNCHANGED <<pc, todo>> \/
             (rt # "get" /\ Quiet
                /\ \E s \in State : Becomes(pc, pc', Node, s, "notify")
                                    /\ \A r \in Scan : todo'[r] = todo[r]),
             rt' = rt \/ Quiet
      PROVE  FlagInv'
  <2>1. PhaseInv'
    BY <1>1, NodeSets, Kinds
       DEF Quiet, Becomes, FlagInv, PhaseInv, NotifyDirty, StateLevel, ActiveClean,
           Active, NodeCalls, ClearAlone, NewEffect, UnbindsDropped
  <2>2. EntryInv'
    BY <1>1, NodeSets, Kinds
       DEF Quiet, Becomes, FlagInv, EntryInv, CleanEntry, CleanEntryAt, MaybeEntry, MaybeEntryAt,
           FlagEntry, FlagEntryAt, CheckedClean, ReadClean, Active, Settling, Attended, BeingRead
  <2> QED
    BY <2>1, <2>2 DEF FlagInv
<1>2. ASSUME NEW s \in State, BeginNotifyEffect(s)
      PROVE  FlagInv'
  <2>1. level[s] = "Dirty"
    BY DEF FlagInv, PhaseInv, StateLevel
  <2> QED
    BY <1>1, <1>2, <2>1, NodeSets, Kinds DEF BeginNotifyEffect, Becomes
<1>3. ASSUME NEW s \in State, LooseEffect(s)
      PROVE  FlagInv'
  BY <1>1, <1>3 DEF LooseEffect
<1>4. ASSUME StageEffect
      PROVE  FlagInv'
  BY <1>1, <1>4 DEF StageEffect
<1>5. ASSUME NEW n \in Sink, BeginClearEffect(n)
      PROVE  FlagInv'
  <2>1. /\ \A m \in Node : pc[m] = "idle" /\ pc'[m] = IF m = n THEN "clear" ELSE "idle"
        /\ n \in Node /\ rt' # "get"
        /\ UNCHANGED <<dirty, srcs, sinks, pos, seen, result, level, todo, life>>
    BY <1>5, NodeSets DEF BeginClearEffect, Becomes, Quiet
  <2>2. (n \in Effect => life[n] = "dropped") /\ UnbindsDropped'
    <3>1. unbinds \in Seq(Effect) /\ \A i \in 1 .. Len(unbinds) : life[unbinds[i]] = "dropped"
      BY Before DEF FlagInv, PhaseInv, UnbindsDropped, TypeOK
    <3>2. CASE n \in Effect
      <4>1. /\ Head(unbinds) = unbinds[1] /\ Len(Tail(unbinds)) = Len(unbinds) - 1
            /\ \A i \in 1 .. Len(unbinds) - 1 : Tail(unbinds)[i] = unbinds[i + 1]
            /\ Len(unbinds) \in Nat \ {0}
        BY <1>5, <3>1, <3>2, HeadTailProperties, EmptySeq DEF BeginClearEffect
      <4> QED
        BY <1>5, <2>1, <3>1, <3>2, <4>1 DEF BeginClearEffect, UnbindsDropped
    <3>3. CASE n \notin Effect
      BY <1>5, <2>1, <3>1, <3>3 DEF BeginClearEffect, UnbindsDropped
    <3> QED
      BY <3>2, <3>3
  <2>3. n \in Scan => NoSinks(sinks[n])
    BY <1>5 DEF BeginClearEffect
  <2>4. PhaseInv'
    BY <2>1, <2>2, <2>3, NodeSets, Kinds
       DEF FlagInv, PhaseInv, NotifyDirty, StateLevel, ActiveClean, Active, NodeCalls, ClearAlone,
           NewEffect
  <2>5. EntryInv'
    BY <2>1, <2>3, NodeSets, Kinds
       DEF FlagInv, EntryInv, CleanEntry, CleanEntryAt, MaybeEntry, MaybeEntryAt, FlagEntry,
           FlagEntryAt, CheckedClean, ReadClean, NoSinks, Active, Settling, Attended, BeingRead
  <2> QED
    BY <2>4, <2>5 DEF FlagInv
<1>6. ASSUME NEW e \in Effect, SubscribeEffect(e) \/ UnsubscribeEffect(e)
      PROVE  FlagInv'
  <2>1. UNCHANGED <<val, dirty, srcs, sinks, pc, pos, seen, level, todo, rt>>
    BY <1>6 DEF SubscribeEffect, UnsubscribeEffect
  <2>2. CleanEntry' /\ MaybeEntry' /\ CheckedClean' /\ ReadClean'
    BY <2>1
       DEF FlagInv, EntryInv, CleanEntry, CleanEntryAt, MaybeEntry, MaybeEntryAt, CheckedClean,
           ReadClean, BeingRead
  <2>3. NotifyDirty' /\ StateLevel' /\ ActiveClean' /\ NodeCalls'
    BY <2>1 DEF FlagInv, PhaseInv, NotifyDirty, StateLevel, ActiveClean, NodeCalls
  <2>4. \A f \in Effect : /\ f # e => life'[f] = life[f]
                          /\ life[e] # "dropped" /\ life'[e] # "new"
    BY <1>6 DEF SubscribeEffect, UnsubscribeEffect, Becomes
  <2>5. NewEffect' /\ ClearAlone'
    BY <2>1, <2>4 DEF FlagInv, PhaseInv, NewEffect, ClearAlone
  <2>6. unbinds \in Seq(Effect) /\ \A i \in 1 .. Len(unbinds) : life[unbinds[i]] = "dropped"
    BY Before DEF FlagInv, PhaseInv, UnbindsDropped, TypeOK
  <2>7. CASE SubscribeEffect(e)
    <3>1. UnbindsDropped'
      BY <2>4, <2>6, <2>7 DEF SubscribeEffect, UnbindsDropped
    <3>2. FlagEntry'
      BY <2>1, <2>4, <2>7, NodeSets
         DEF SubscribeEffect, FlagInv, PhaseInv, EntryInv, NewEffect, FlagEntry, FlagEntryAt,
             Settling, Attended
    <3> QED
      BY <2>2, <2>3, <2>5, <3>1, <3>2 DEF FlagInv, PhaseInv, EntryInv
  <2>8. CASE UnsubscribeEffect(e)
    <3>1. life'[e] = "dropped" /\ life[e] = "live"
      BY <2>8 DEF UnsubscribeEffect, Becomes
    <3>2. UnbindsDropped'
      <4>1. CASE unbinds' = unbinds
        BY <2>4, <2>6, <4>1 DEF UnbindsDropped
      <4>2. CASE unbinds' = Append(unbinds, e)
        BY <2>4, <2>6, <3>1, <4>2, AppendProperties DEF UnbindsDropped
      <4> QED
        BY <2>8, <4>1, <4>2 DEF UnsubscribeEffect
    <3>3. FlagEntry'
      BY <2>1, <2>4, <3>1 DEF FlagInv, EntryInv, FlagEntry, FlagEntryAt, Attended
    <3> QED
      BY <2>2, <2>3, <2>5, <3>2, <3>3 DEF FlagInv, PhaseInv, EntryInv
  <2> QED
    BY <1>6, <2>7, <2>8
<1> QED
  BY <1>2, <1>3, <1>4, <1>5, <1>6

\* In the initial state nothing is bound and every sink is dirty.
LEMMA InitFlagInv == Init => FlagInv
<1> SUFFICES ASSUME Init PROVE FlagInv
  OBVIOUS
<1>1. PhaseInv
  BY NodeSets
     DEF Init, PhaseInv, NotifyDirty, StateLevel, ActiveClean, Active, NodeCalls, ClearAlone,
         NewEffect, UnbindsDropped
<1>2. EntryInv
  BY NodeSets
     DEF Init, EntryInv, CleanEntry, CleanEntryAt, MaybeEntry, MaybeEntryAt, FlagEntry, FlagEntryAt,
         CheckedClean, ReadClean, Active, BeingRead
<1> QED
  BY <1>1, <1>2 DEF FlagInv

\* The flags and the entries tell the truth about each other in every reachable state.
LEMMA SpecFlagInv == Spec => [](BaseInv /\ FlagInv)
<1>1. Init => FlagInv
  BY InitFlagInv
<1>2. BaseInv /\ FlagInv /\ [Next]_vars => FlagInv'
  BY StepEffects, NodeSets, NotifyFlags, CheckFlags, RunFlags, UnbindFlags, QuietFlags
     DEF EffectStep, FlagInv
<1>3. Spec => []BaseInv
  BY SpecCallsInv, SpecBindingsInv, PTL DEF BaseInv
<1> QED
  BY <1>1, <1>2, <1>3, PTL DEF Spec

\* SinkBindings::is_dirty never finds an entry that SinkBindings::update has not resolved, in
\* any graph: its panic "`is_dirty` called before `update()`" cannot be reached.
THEOREM SpecDirtyAskedAfterUpdate == Spec => []DirtyAskedAfterUpdate
<1>1. BaseInv /\ FlagInv => DirtyAskedAfterUpdate
  <2> SUFFICES ASSUME BaseInv, FlagInv, NEW n \in Sink, pc[n] = "check", pos[n] <= Len(srcs[n]),
                      Settled(srcs[n][pos[n]])
               PROVE  sinks[srcs[n][pos[n]]][n][pos[n]] \in {"Clean", "Dirty"}
    BY DEF DirtyAskedAfterUpdate
  <2> DEFINE i == pos[n]
             s == srcs[n][i]
  <2>1. TypeOK /\ BindingsAgree /\ i \in Index /\ s \in Source
    <3>1. TypeOK /\ Progress /\ BindingsAgree
      BY Before
    <3> QED
      BY <3>1, SinkTypes DEF Index
  <2>2. sinks[s][n][i] \in Entry /\ sinks[s][n][i] # "Unbound"
    BY <2>1, Types DEF BindingsAgree
  <2>3. sinks[s][n][i] # "MaybeDirty"
    BY <2>1 DEF FlagInv, EntryInv, MaybeEntry, MaybeEntryAt, Settled, Active
  <2> QED
    BY <2>2, <2>3 DEF Entry, Dirty
<1> QED
  BY <1>1, SpecFlagInv, PTL

-----------------------------------------------------------------------------
(* The queue of reactions. *)

\* Outside of dispatch_reactions nothing has been taken out of the queue.
BatchRt == rt # "reactions" => batch = <<>>

\* An effect in the queue is waiting to run, and is there once.
Waiting(e) == life[e] # "new" /\ dirty[e] # "Clean" /\ pc[e] \in {"idle", "clear"}
AllWait == \A i \in 1 .. Len(Pending) : Waiting(Pending[i])
NoneTwice == \A i, j \in 1 .. Len(Pending) : Pending[i] = Pending[j] => i = j

\* An effect that has to run is in the queue.
Due(e) == life[e] = "live" /\ dirty[e] # "Clean" /\ pc[e] = "idle"
IsPending(e) == \E i \in 1 .. Len(Pending) : Pending[i] = e
AllQueued == \A e \in Effect : Due(e) => IsPending(e)

PendingInv == BatchRt /\ AllWait /\ NoneTwice /\ AllQueued

\* What a step can do to the two queues together.
LEMMA PendingQueue ==
    ASSUME TypeOK
    PROVE  /\ Pending \in Seq(Effect) /\ Len(Pending) \in Nat
           /\ UNCHANGED <<batch, reactions>> => Pending' = Pending
           /\ \A e \in Effect :
                  UNCHANGED batch /\ reactions' = Append(reactions, e) =>
                      Pending' = Append(Pending, e)
           /\ batch # <<>> /\ batch' = Tail(batch) /\ UNCHANGED reactions =>
                  Pending # <<>> /\ Head(batch) = Pending[1] /\ Pending' = Tail(Pending)
           /\ batch = <<>> /\ batch' = reactions /\ reactions' = <<>> => Pending' = Pending
<1>1. batch \in Seq(Effect) /\ reactions \in Seq(Effect)
  BY DEF TypeOK
<1>2. Pending \in Seq(Effect) /\ Len(Pending) \in Nat
  BY <1>1, ConcatProperties DEF Pending
<1>3. ASSUME NEW e \in Effect, UNCHANGED batch, reactions' = Append(reactions, e)
      PROVE  Pending' = Append(Pending, e)
  <2>1. batch \o Append(reactions, e) = Append(batch \o reactions, e)
    BY <1>1
  <2> QED
    BY <1>3, <2>1 DEF Pending
<1>4. ASSUME batch # <<>>, batch' = Tail(batch), UNCHANGED reactions
      PROVE  Pending # <<>> /\ Head(batch) = Pending[1] /\ Pending' = Tail(Pending)
  <2>1. Tail(batch) \o reactions = Tail(batch \o reactions)
    BY <1>1, <1>4
  <2>2. batch \o reactions # <<>> /\ Head(batch) = (batch \o reactions)[1]
    BY <1>1, <1>4
  <2> QED
    BY <1>4, <2>1, <2>2 DEF Pending
<1>5. ASSUME batch = <<>>, batch' = reactions, reactions' = <<>>
      PROVE  Pending' = Pending
  <2>1. <<>> \o reactions = reactions /\ reactions \o <<>> = reactions
    BY <1>1
  <2> QED
    BY <1>5, <2>1 DEF Pending
<1> QED
  BY <1>2, <1>3, <1>4, <1>5 DEF Pending

\* The queue stays right when an effect joins or leaves it, and all others go on waiting.
LEMMA PendingStays ==
    ASSUME TypeOK, PendingInv, BatchRt', NEW e,
           \A f \in Effect : f # e => (Waiting(f) => Waiting(f)') /\ (Due(f)' => Due(f)),
           \/ /\ Pending' = Pending
              /\ e \in Effect => (Waiting(e) => Waiting(e)') /\ (Due(e)' => Due(e))
           \/ /\ Pending' = Append(Pending, e)
              /\ e \in Effect /\ ~Waiting(e) /\ Waiting(e)'
           \/ /\ Pending # <<>> /\ e = Pending[1] /\ Pending' = Tail(Pending)
              /\ ~Due(e)'
    PROVE  PendingInv'
<1>1. Pending \in Seq(Effect) /\ Len(Pending) \in Nat
  BY PendingQueue
<1>2. \A i \in 1 .. Len(Pending) : Pending[i] \in Effect
  BY <1>1
<1>3. AllWait /\ NoneTwice /\ AllQueued
  BY DEF PendingInv
<1>4. CASE /\ Pending' = Pending
           /\ e \in Effect => (Waiting(e) => Waiting(e)') /\ (Due(e)' => Due(e))
  <2>1. AllWait'
    BY <1>2, <1>3, <1>4 DEF AllWait
  <2>2. NoneTwice'
    BY <1>3, <1>4 DEF NoneTwice
  <2>3. AllQueued'
    BY <1>3, <1>4 DEF AllQueued, IsPending
  <2> QED
    BY <2>1, <2>2, <2>3 DEF PendingInv
<1>5. CASE Pending' = Append(Pending, e) /\ e \in Effect /\ ~Waiting(e) /\ Waiting(e)'
  <2>1. /\ Len(Pending') = Len(Pending) + 1 /\ Pending'[Len(Pending) + 1] = e
        /\ \A i \in 1 .. Len(Pending) : Pending'[i] = Pending[i] /\ Pending[i] # e
    <3>1. \A i \in 1 .. Len(Pending) : Pending[i] # e
      BY <1>3, <1>5 DEF AllWait
    <3> QED
      BY <1>1, <1>5, <3>1, AppendProperties
  <2>2. AllWait'
    <3> SUFFICES ASSUME NEW i \in 1 .. Len(Pending'), NEW f, f = Pending'[i]
                 PROVE  Waiting(f)'
      BY DEF AllWait, Waiting
    <3>1. CASE i = Len(Pending) + 1
      BY <1>5, <2>1, <3>1
    <3>2. CASE i \in 1 .. Len(Pending)
      BY <1>2, <1>3, <2>1, <3>2 DEF AllWait
    <3> QED
      BY <1>1, <2>1, <3>1, <3>2
  <2>3. NoneTwice'
    BY <1>1, <1>3, <2>1 DEF NoneTwice
  <2>4. AllQueued'
    <3> SUFFICES ASSUME NEW f \in Effect, Due(f)'
                 PROVE  \E i \in 1 .. Len(Pending') : Pending'[i] = f
      BY DEF AllQueued, IsPending
    <3>1. CASE f = e
      BY <1>1, <2>1, <3>1
    <3>2. CASE f # e
      <4>1. PICK i \in 1 .. Len(Pending) : Pending[i] = f
        BY <1>3, <3>2 DEF AllQueued, IsPending
      <4> QED
        BY <1>1, <2>1, <4>1
    <3> QED
      BY <3>1, <3>2
  <2> QED
    BY <2>2, <2>3, <2>4 DEF PendingInv
<1>6. CASE Pending # <<>> /\ e = Pending[1] /\ Pending' = Tail(Pending) /\ ~Due(e)'
  <2>1. /\ Len(Pending') = Len(Pending) - 1 /\ Len(Pending) >= 1
        /\ \A i \in 1 .. Len(Pending) - 1 : Pending'[i] = Pending[i + 1]
    BY <1>1, <1>6, HeadTailProperties, EmptySeq
  <2>2. \A i \in 1 .. Len(Pending) - 1 : Pending[i + 1] # e /\ i + 1 \in 1 .. Len(Pending)
    <3> SUFFICES ASSUME NEW i \in 1 .. Len(Pending) - 1
                 PROVE  Pending[i + 1] # e /\ i + 1 \in 1 .. Len(Pending)
      OBVIOUS
    <3>1. i + 1 \in 1 .. Len(Pending) /\ 1 \in 1 .. Len(Pending) /\ i + 1 # 1
      BY <1>1, <2>1
    <3> QED
      BY <1>3, <1>6, <3>1 DEF NoneTwice
  <2>3. AllWait'
    BY <1>1, <1>2, <1>3, <2>1, <2>2 DEF AllWait
  <2>4. NoneTwice'
    BY <1>1, <1>3, <2>1 DEF NoneTwice
  <2>5. AllQueued'
    <3> SUFFICES ASSUME NEW f \in Effect, Due(f)'
                 PROVE  \E i \in 1 .. Len(Pending') : Pending'[i] = f
      BY DEF AllQueued, IsPending
    <3>1. f # e
      BY <1>6
    <3>2. PICK i \in 1 .. Len(Pending) : Pending[i] = f
      BY <1>3, <3>1 DEF AllQueued, IsPending
    <3>3. i # 1 /\ i - 1 \in 1 .. Len(Pending) - 1 /\ (i - 1) + 1 = i
      BY <1>1, <1>6, <3>1, <3>2
    <3> QED
      BY <1>1, <2>1, <3>2, <3>3
  <2> QED
    BY <2>3, <2>4, <2>5 DEF PendingInv
<1> QED
  BY <1>4, <1>5, <1>6

\* Every step keeps the queue right.
LEMMA PendingSteps ==
    ASSUME BaseInv, FlagInv, PendingInv, EffectStep
    PROVE  PendingInv'
<1> USE DEF graph, calls, sweep, disc, queues, loop, users
<1>1. TypeOK /\ BatchRt
  BY Before DEF PendingInv
<1> DEFINE Same(e) == (Waiting(e) => Waiting(e)') /\ (Due(e)' => Due(e))
<1>2. ASSUME UNCHANGED <<dirty, life, pc>>
      PROVE  \A e \in Effect : Same(e)
  BY <1>2 DEF Waiting, Due
<1>3. ASSUME NEW s \in Source, NEW n \in Sink, NEW i \in Index, NotifyEffect(s, n, i)
      PROVE  PendingInv'
  <2>1. ApplyNotify(dirty[n], level[s]) # "Clean" /\ ApplyNotify(sinks[s][n][i], level[s]) # "Clean"
    <3>1. level[s] \in DirtyLevel
      BY <1>1, Types
    <3> QED
      BY <3>1 DEF ApplyNotify, DirtyLevel
  <2>2. \A e \in Effect : Waiting(e) => Waiting(e)'
    BY <1>3, <2>1, NodeSets, Kinds DEF NotifyEffect, Waiting
  <2>3. \A e \in Effect : e # n \/ ~First(s, n, i) => (Due(e)' => Due(e))
    BY <1>3, NodeSets, Kinds DEF NotifyEffect, Due, First
  <2>4. BatchRt'
    BY <1>1, <1>3 DEF NotifyEffect, BatchRt
  <2>5. CASE n \in Effect /\ First(s, n, i)
    <3>1. Pending' = Append(Pending, n)
      BY <1>1, <1>3, <2>5, PendingQueue DEF NotifyEffect
    <3>2. ~Waiting(n) /\ Waiting(n)'
      BY <1>3, <2>1, <2>5, NodeSets, Kinds
         DEF NotifyEffect, First, Called, Attended, Waiting, FlagInv, PhaseInv, NodeCalls
    <3> QED
      BY <1>1, <2>2, <2>3, <2>4, <2>5, <3>1, <3>2, PendingStays
  <2>6. CASE ~(n \in Effect /\ First(s, n, i))
    <3>1. Pending' = Pending
      BY <1>1, <1>3, <2>6, PendingQueue DEF NotifyEffect
    <3> QED
      BY <1>1, <2>2, <2>3, <2>4, <2>6, <3>1, PendingStays
  <2> QED
    BY <2>5, <2>6
<1>4. ASSUME NEW n \in Sink, NEW c \in {"check", "run"}, StartEffect(n, c)
      PROVE  PendingInv'
  <2>1. BatchRt'
    BY <1>1, <1>4 DEF StartEffect, BatchRt
  <2>2. \A e \in Effect : e # n => Same(e)
    BY <1>4, NodeSets DEF StartEffect, Becomes, Waiting, Due
  <2>3. CASE n \in Effect /\ pc[n] = "idle"
    <3>1. Pending # <<>> /\ n = Pending[1] /\ Pending' = Tail(Pending)
      BY <1>1, <1>4, <2>3, PendingQueue DEF StartEffect
    <3>2. ~Due(n)'
      BY <1>4, <2>3, NodeSets DEF StartEffect, Becomes, Due
    <3> QED
      BY <1>1, <2>1, <2>2, <3>1, <3>2, PendingStays
  <2>4. CASE ~(n \in Effect /\ pc[n] = "idle")
    <3>1. Pending' = Pending
      BY <1>1, <1>4, <2>4, PendingQueue DEF StartEffect
    <3>2. n \in Effect => Same(n)
      BY <1>4, <2>4, NodeSets DEF StartEffect, Becomes, Waiting, Due
    <3> QED
      BY <1>1, <2>1, <2>2, <3>1, <3>2, PendingStays
  <2> QED
    BY <2>3, <2>4
<1>5. ASSUME UNCHANGED <<batch, reactions>>, \A e \in Effect : Same(e),
             rt' = rt \/ rt # "reactions"
      PROVE  PendingInv'
  <2>1. Pending' = Pending /\ BatchRt'
    BY <1>1, <1>5, PendingQueue DEF BatchRt
  <2> QED
    BY <1>1, <1>5, <2>1, PendingStays
<1>6. ASSUME NEW s \in Source, NotifyDoneEffect(s)
      PROVE  PendingInv'
  <2>1. \A e \in Effect : Same(e)
    BY <1>6, NodeSets, Kinds DEF NotifyDoneEffect, Becomes, Waiting, Due
  <2> QED
    BY <1>5, <1>6, <2>1 DEF NotifyDoneEffect
<1>7. ASSUME NEW n \in Sink, CheckCleanEffect(n) \/ CloseEffect(n) \/ UnbindEffect(n)
                             \/ ClearDoneEffect(n) \/ BeginClearEffect(n)
      PROVE  PendingInv'
  <2>1. \A e \in Effect : Same(e)
    <3>1. CASE CheckCleanEffect(n) \/ UnbindEffect(n)
      BY <1>2, <3>1 DEF CheckCleanEffect, UnbindEffect
    <3>2. CASE CloseEffect(n)
      BY <3>2, NodeSets DEF CloseEffect, Becomes, Waiting, Due
    <3>3. CASE ClearDoneEffect(n)
      <4>1. n \in Effect => life[n] = "dropped"
        BY <3>3, NodeSets DEF ClearDoneEffect, FlagInv, PhaseInv, ClearAlone
      <4> QED
        BY <3>3, <4>1, NodeSets, Kinds DEF ClearDoneEffect, Becomes, Waiting, Due
    <3>4. CASE BeginClearEffect(n)
      BY <3>4, NodeSets DEF BeginClearEffect, Becomes, Waiting, Due, Quiet
    <3> QED
      BY <1>7, <3>1, <3>2, <3>3, <3>4
  <2> QED
    <3>1. rt' = rt \/ rt # "reactions"
      BY <1>7, NodeSets
         DEF CheckCleanEffect, CloseEffect, UnbindEffect, ClearDoneEffect, BeginClearEffect, Sink
    <3>2. UNCHANGED <<batch, reactions>>
      BY <1>7
         DEF CheckCleanEffect, CloseEffect, UnbindEffect, ClearDoneEffect, BeginClearEffect
    <3> QED
      BY <1>5, <2>1, <3>1, <3>2
<1>8. ASSUME NEW n \in Sink, NEW s \in Source, NEW i \in Index, BindEffect(n, s, i)
      PROVE  PendingInv'
  <2>1. \A e \in Effect : Same(e)
    BY <1>8, NodeSets DEF BindEffect, Becomes, Waiting, Due
  <2> QED
    BY <1>5, <1>8, <2>1 DEF BindEffect
<1>9. ASSUME NEW n \in Sink, NEW s \in Source, ReadEffect(n, s)
      PROVE  PendingInv'
  <2>1. \A e \in Effect : Same(e)
    BY <1>9, NodeSets DEF ReadEffect, Becomes, Waiting, Due
  <2> QED
    BY <1>5, <1>9, <2>1 DEF ReadEffect
<1>10. ASSUME NEW n \in Sink, CheckDoneEffect(n) \/ TrimEffect(n)
       PROVE  PendingInv'
  <2>1. \A e \in Effect : Same(e)
    BY <1>10, NodeSets
       DEF CheckDoneEffect, TrimEffect, Becomes, Waiting, Due, FlagInv, PhaseInv, ActiveClean, Active
  <2> QED
    BY <1>5, <1>10, <2>1 DEF CheckDoneEffect, TrimEffect
<1>11. ASSUME NEW s \in State, BeginNotifyEffect(s) \/ LooseEffect(s)
       PROVE  PendingInv'
  <2>1. \A e \in Effect : Same(e)
    BY <1>11, NodeSets, Kinds
       DEF BeginNotifyEffect, LooseEffect, Becomes, Waiting, Due
  <2> QED
    BY <1>5, <1>11, <2>1 DEF BeginNotifyEffect, LooseEffect
<1>12. ASSUME NEW e \in Effect, SubscribeEffect(e)
       PROVE  PendingInv'
  <2>1. Pending' = Append(Pending, e)
    BY <1>1, <1>12, PendingQueue DEF SubscribeEffect
  <2>2. ~Waiting(e) /\ Waiting(e)'
    BY <1>12
       DEF SubscribeEffect, Becomes, Waiting, FlagInv, PhaseInv, NewEffect
  <2>3. \A f \in Effect : f # e => Same(f)
    BY <1>12 DEF SubscribeEffect, Becomes, Waiting, Due
  <2>4. BatchRt'
    BY <1>1, <1>12 DEF SubscribeEffect, BatchRt
  <2> QED
    BY <1>1, <2>1, <2>2, <2>3, <2>4, PendingStays
<1>13. ASSUME NEW e \in Effect, UnsubscribeEffect(e)
       PROVE  PendingInv'
  <2>1. \A f \in Effect : Same(f)
    BY <1>13 DEF UnsubscribeEffect, Becomes, Waiting, Due
  <2> QED
    BY <1>5, <1>13, <2>1 DEF UnsubscribeEffect
<1>14. ASSUME StageEffect
       PROVE  PendingInv'
  <2>1. \A e \in Effect : Same(e)
    BY <1>2, <1>14 DEF StageEffect
  <2>2. CASE UNCHANGED <<reactions, batch>>
    <3>1. BatchRt'
      BY <1>1, <1>14, <2>2 DEF StageEffect, BatchRt
    <3>2. Pending' = Pending
      BY <1>1, <2>2, PendingQueue
    <3> QED
      BY <1>1, <2>1, <3>1, <3>2, PendingStays
  <2>3. CASE rt = "apply" /\ rt' = "reactions" /\ batch' = reactions /\ reactions' = <<>>
    <3>1. BatchRt' /\ batch = <<>>
      BY <1>1, <2>3 DEF BatchRt
    <3>2. Pending' = Pending
      BY <1>1, <2>3, <3>1, PendingQueue
    <3> QED
      BY <1>1, <2>1, <3>1, <3>2, PendingStays
  <2>4. CASE /\ rt = "reactions" /\ rt' = rt
             /\ batch # <<>> /\ batch' = Tail(batch) /\ UNCHANGED reactions
             /\ life[Head(batch)] # "live" \/ dirty[Head(batch)] = "Clean"
    <3>1. BatchRt'
      BY <2>4 DEF BatchRt
    <3>2. Pending # <<>> /\ Head(batch) = Pending[1] /\ Pending' = Tail(Pending)
      BY <1>1, <2>4, PendingQueue
    <3>3. PICK e : e = Head(batch)
      OBVIOUS
    <3>4. ~Due(e)'
      BY <1>14, <2>4, <3>3 DEF StageEffect, Due
    <3> QED
      BY <1>1, <2>1, <3>1, <3>2, <3>3, <3>4, PendingStays
  <2> QED
    BY <1>14, <2>2, <2>3, <2>4 DEF StageEffect
<1> QED
  BY <1>3, <1>4, <1>6, <1>7, <1>8, <1>9, <1>10, <1>11, <1>12, <1>13, <1>14 DEF EffectStep

\* The queue of reactions holds every effect that has to run, once, in every reachable state.
LEMMA SpecPendingInv == Spec => []PendingInv
<1>1. Init => PendingInv
  <2> SUFFICES ASSUME Init PROVE PendingInv
    OBVIOUS
  <2>1. Pending = <<>> /\ Len(<<>>) = 0
    BY DEF Init, Pending
  <2> QED
    BY <2>1 DEF Init, PendingInv, BatchRt, AllWait, NoneTwice, AllQueued, Due
<1>2. BaseInv /\ FlagInv /\ PendingInv /\ [Next]_vars => PendingInv'
  BY StepEffects, PendingSteps DEF FlagInv
<1> QED
  BY <1>1, <1>2, SpecFlagInv, PTL DEF Spec

\* An effect that may have to run is never lost and never queued twice, whichever order the
\* sources notify in and whatever runs meanwhile: in any graph, in every reachable state.
THEOREM SpecDirtyEffectIsQueuedOnce == Spec => []DirtyEffectIsQueuedOnce
<1>1. PendingInv => DirtyEffectIsQueuedOnce
  BY DEF PendingInv, NoneTwice, AllQueued, Due, IsPending, DirtyEffectIsQueuedOnce
<1> QED
  BY <1>1, SpecPendingInv, PTL

-----------------------------------------------------------------------------
(* The values a closure reads. *)

\* The first k values of a list.
Prefix(r, k) == [j \in 1 .. k |-> r[j]]

\* Beginnings of lists, and of a list with one more value.
LEMMA Prefixes ==
    ASSUME NEW r \in Reads
    PROVE  /\ Len(r) \in Nat /\ Len(r) <= MaxReads /\ r \in Seq(Value)
           /\ Prefix(r, Len(r)) = r /\ Prefix(r, 0) = <<>>
           /\ \A k \in 0 .. Len(r) : Prefix(r, k) \in Reads /\ Len(Prefix(r, k)) = k
           /\ \A k \in 0 .. Len(r) : \A j \in 0 .. k : Prefix(Prefix(r, k), j) = Prefix(r, j)
           /\ \A k \in 1 .. Len(r) : Append(Prefix(r, k - 1), r[k]) = Prefix(r, k)
           /\ \A v : \A k \in 0 .. Len(r) : Prefix(Append(r, v), k) = Prefix(r, k)
           /\ \A v \in Value : Len(r) # MaxReads => Append(r, v) \in Reads
           /\ \A v : /\ Len(Append(r, v)) = Len(r) + 1 /\ Append(r, v)[Len(r) + 1] = v
                     /\ \A k \in 1 .. Len(r) : Append(r, v)[k] = r[k]
<1>1. /\ Len(r) \in Nat /\ Len(r) <= MaxReads /\ r \in Seq(Value) /\ MaxReads \in Nat
      /\ r = [j \in 1 .. Len(r) |-> r[j]]
  BY ReadsAreSequences, NodesAssumption
<1>2. Prefix(r, Len(r)) = r /\ Prefix(r, 0) = <<>>
  BY <1>1 DEF Prefix
<1>3. ASSUME NEW k \in 0 .. Len(r)
      PROVE  /\ Prefix(r, k) \in Reads /\ Len(Prefix(r, k)) = k /\ Prefix(r, k) \in Seq(Value)
             /\ \A j \in 0 .. k : Prefix(Prefix(r, k), j) = Prefix(r, j)
             /\ \A v : Prefix(Append(r, v), k) = Prefix(r, k)
  <2>1. Prefix(r, k) \in [1 .. k -> Value] /\ k \in 0 .. MaxReads
    BY <1>1 DEF Prefix
  <2>2. Prefix(r, k) \in Reads
    BY <2>1 DEF Reads
  <2>3. Prefix(r, k) \in Seq(Value) /\ Len(Prefix(r, k)) = k
    BY <2>1
  <2>4. \A j \in 0 .. k : Prefix(Prefix(r, k), j) = Prefix(r, j)
    BY DEF Prefix
  <2>5. \A v : Prefix(Append(r, v), k) = Prefix(r, k)
    BY <1>1 DEF Prefix
  <2> QED
    BY <2>2, <2>3, <2>4, <2>5
<1>4. ASSUME NEW k \in 1 .. Len(r)
      PROVE  Append(Prefix(r, k - 1), r[k]) = Prefix(r, k)
  <2>1. k - 1 \in 0 .. Len(r) /\ k \in 0 .. Len(r) /\ r[k] \in Value
    BY <1>1
  <2>2. /\ Prefix(r, k - 1) \in Seq(Value) /\ Len(Prefix(r, k - 1)) = k - 1
        /\ Prefix(r, k) \in Seq(Value) /\ Len(Prefix(r, k)) = k
    BY <1>3, <2>1
  <2>3. /\ Append(Prefix(r, k - 1), r[k]) \in Seq(Value)
        /\ Len(Append(Prefix(r, k - 1), r[k])) = k
        /\ \A j \in 1 .. k : Append(Prefix(r, k - 1), r[k])[j] = Prefix(r, k)[j]
    BY <2>1, <2>2, AppendProperties DEF Prefix
  <2> QED
    BY <2>2, <2>3, SeqEqual
<1>5. ASSUME NEW v
      PROVE  /\ Len(Append(r, v)) = Len(r) + 1 /\ Append(r, v)[Len(r) + 1] = v
             /\ \A k \in 1 .. Len(r) : Append(r, v)[k] = r[k]
  BY <1>1
<1>6. ASSUME NEW v \in Value, Len(r) # MaxReads
      PROVE  Append(r, v) \in Reads
  <2>1. Append(r, v) \in Seq(Value) /\ Len(Append(r, v)) <= MaxReads
    BY <1>1, <1>6
  <2> QED
    BY <2>1, ReadsAreSequences, Zenon
<1> QED
  BY <1>1, <1>2, <1>3, <1>4, <1>5, <1>6

\* One more read, unless the closure is done.
Step(f, n, r) == IF NextRead(n, r) = Done THEN r ELSE Append(r, f[NextRead(n, r)])

\* The lists of the first k reads, for k up to m.
Unfolds(f, n, m, g) ==
    g = [k \in 0 .. m |-> IF k = 0 THEN <<>> ELSE Step(f, n, g[k - 1])]

\* The recursive function in ReadsOver exists.
LEMMA ReadsUnfold ==
    ASSUME NEW f, NEW n
    PROVE  \E g : Unfolds(f, n, MaxReads, g) /\ ReadsOver(f, n) = g[MaxReads]
<1> DEFINE T == {m \in Nat : ~ \E g : Unfolds(f, n, m, g)}
<1>1. T = {}
  <2> SUFFICES ASSUME T # {} PROVE FALSE
    OBVIOUS
  <2>1. PICK m \in T : \A k \in T : m <= k
    <3> HIDE DEF T
    <3>1. T \in SUBSET Nat
      BY DEF T
    <3> QED
      BY <3>1, LeastNat
  <2>2. m \in Nat /\ ~ \E g : Unfolds(f, n, m, g)
    BY <2>1
  <2>3. CASE m = 0
    <3> DEFINE g == [k \in 0 .. 0 |-> <<>>]
    <3>1. Unfolds(f, n, 0, g)
      BY DEF Unfolds
    <3> QED
      BY <2>2, <2>3, <3>1
  <2>4. CASE m # 0
    <3>1. m - 1 \in Nat /\ m - 1 \notin T
      BY <2>1, <2>2, <2>4
    <3>2. PICK h : Unfolds(f, n, m - 1, h)
      BY <3>1
    <3> DEFINE g == [k \in 0 .. m |-> IF k = m THEN Step(f, n, h[m - 1]) ELSE h[k]]
    <3>3. \A k \in 0 .. m - 1 : /\ h[k] = IF k = 0 THEN <<>> ELSE Step(f, n, h[k - 1])
                                /\ g[k] = h[k]
      BY <2>2, <3>2 DEF Unfolds
    <3>4. g[m] = Step(f, n, h[m - 1])
      BY <2>2
    <3>5. \A k \in 0 .. m : g[k] = IF k = 0 THEN <<>> ELSE Step(f, n, g[k - 1])
      <4> HIDE DEF g
      <4> SUFFICES ASSUME NEW k \in 0 .. m
                   PROVE  g[k] = IF k = 0 THEN <<>> ELSE Step(f, n, g[k - 1])
        OBVIOUS
      <4>1. CASE k = m
        BY <2>2, <2>4, <3>1, <3>3, <3>4, <4>1
      <4>2. CASE k # m /\ k # 0
        <5>1. k \in 0 .. m - 1 /\ k - 1 \in 0 .. m - 1
          BY <2>2, <4>2
        <5> QED
          BY <3>3, <4>2, <5>1
      <4>3. CASE k # m /\ k = 0
        BY <2>2, <3>1, <3>3, <4>3
      <4> QED
        BY <4>1, <4>2, <4>3
    <3>6. Unfolds(f, n, m, g)
      BY <3>5 DEF Unfolds
    <3> QED
      BY <2>2, <3>6
  <2> QED
    BY <2>3, <2>4
<1>2. \E g : Unfolds(f, n, MaxReads, g)
  BY <1>1, NodesAssumption
<1> DEFINE c == CHOOSE g : Unfolds(f, n, MaxReads, g)
<1>3. Unfolds(f, n, MaxReads, c)
  BY <1>2
<1>4. ReadsOver(f, n) = c[MaxReads]
  BY DEF ReadsOver, Unfolds, Step
<1> QED
  BY <1>3, <1>4

\* The complete reads of n's closure, every source s having the value f[s].
IsReads(f, n, r) ==
    /\ r \in Reads /\ NextRead(n, r) = Done
    /\ \A i \in 1 .. Len(r) : /\ NextRead(n, Prefix(r, i - 1)) # Done
                              /\ r[i] = f[NextRead(n, Prefix(r, i - 1))]

\* There is one complete list of reads at most, and ReadsOver is that list.
LEMMA ReadsOverIs ==
    ASSUME NEW f, NEW n \in Sink, NEW r, IsReads(f, n, r)
    PROVE  ReadsOver(f, n) = r
<1>1. PICK g : Unfolds(f, n, MaxReads, g) /\ ReadsOver(f, n) = g[MaxReads]
  BY ReadsUnfold
<1> DEFINE Upto(k) == IF k <= Len(r) THEN k ELSE Len(r)
           T == {k \in 0 .. MaxReads : g[k] # Prefix(r, Upto(k))}
<1>2. /\ r \in Reads /\ Len(r) \in Nat /\ Len(r) <= MaxReads /\ MaxReads \in Nat
      /\ Prefix(r, Len(r)) = r /\ Prefix(r, 0) = <<>>
      /\ \A k \in 1 .. Len(r) : Append(Prefix(r, k - 1), r[k]) = Prefix(r, k)
  BY Prefixes, NodesAssumption DEF IsReads
<1>3. \A k \in 0 .. MaxReads : g[k] = IF k = 0 THEN <<>> ELSE Step(f, n, g[k - 1])
  BY <1>1 DEF Unfolds
<1>4. T = {}
  <2> SUFFICES ASSUME T # {} PROVE FALSE
    OBVIOUS
  <2>1. PICK m \in T : \A k \in T : m <= k
    <3>1. T \in SUBSET Nat
      BY <1>2
    <3> HIDE DEF T
    <3> QED
      BY <3>1, LeastNat
  <2>2. m \in 0 .. MaxReads /\ g[m] # Prefix(r, Upto(m))
    BY <2>1
  <2>3. CASE m = 0
    BY <1>2, <1>3, <2>2, <2>3
  <2>4. CASE m # 0
    <3>1. m - 1 \in 0 .. MaxReads /\ m - 1 \notin T
      BY <1>2, <2>1, <2>2, <2>4
    <3>2. g[m - 1] = Prefix(r, Upto(m - 1)) /\ g[m] = Step(f, n, g[m - 1])
      BY <1>3, <2>2, <2>4, <3>1
    <3>3. CASE m <= Len(r)
      <4>1. /\ Upto(m - 1) = m - 1 /\ Upto(m) = m /\ m \in 1 .. Len(r)
        BY <1>2, <2>2, <2>4, <3>3
      <4>2. g[m] = Append(Prefix(r, m - 1), r[m])
        BY <3>2, <4>1 DEF Step, IsReads
      <4> QED
        BY <1>2, <2>2, <4>1, <4>2
    <3>4. CASE m > Len(r)
      <4>1. Upto(m - 1) = Len(r) /\ Upto(m) = Len(r)
        BY <1>2, <2>2, <2>4, <3>4
      <4>2. g[m - 1] = r /\ g[m] = r
        BY <1>2, <3>2, <4>1 DEF Step, IsReads
      <4> QED
        BY <1>2, <2>2, <4>1, <4>2
    <3> QED
      BY <1>2, <2>2, <3>3, <3>4
  <2> QED
    BY <2>3, <2>4
<1>5. g[MaxReads] = Prefix(r, Upto(MaxReads)) /\ Upto(MaxReads) = Len(r)
  BY <1>2, <1>4
<1> QED
  BY <1>1, <1>2, <1>5

\* The sources below n, among which are all that its closure reads.
Below(n) == {s \in Source : Rank[s] < Rank[n]}

\* What a closure reads is among them.
LEMMA ReadsBelow ==
    ASSUME NEW n \in Sink, NEW r \in Reads, NextRead(n, r) # Done
    PROVE  NextRead(n, r) \in Below(n)
BY NextReadTypes, ClosureAssumption DEF Below

\* When the sources below n have values, its closure reads a complete list of them.
LEMMA ReadsExist ==
    ASSUME NEW f, NEW n \in Sink, \A s \in Below(n) : f[s] \in Value
    PROVE  IsReads(f, n, ReadsOver(f, n))
<1>1. PICK g : Unfolds(f, n, MaxReads, g) /\ ReadsOver(f, n) = g[MaxReads]
  BY ReadsUnfold
<1>2. \A k \in 0 .. MaxReads : g[k] = IF k = 0 THEN <<>> ELSE Step(f, n, g[k - 1])
  BY <1>1 DEF Unfolds
<1> DEFINE Partial(r) ==
               /\ r \in Reads
               /\ \A i \in 1 .. Len(r) : /\ NextRead(n, Prefix(r, i - 1)) # Done
                                         /\ r[i] = f[NextRead(n, Prefix(r, i - 1))]
           Good(k) == Partial(g[k]) /\ (Len(g[k]) = k \/ NextRead(n, g[k]) = Done)
           T == {k \in 0 .. MaxReads : ~Good(k)}
<1>3. MaxReads \in Nat
  BY NodesAssumption
<1>4. T = {}
  <2> SUFFICES ASSUME T # {} PROVE FALSE
    OBVIOUS
  <2>1. PICK m \in T : \A k \in T : m <= k
    <3>1. T \in SUBSET Nat
      BY <1>3
    <3> HIDE DEF T
    <3> QED
      BY <3>1, LeastNat
  <2>2. m \in 0 .. MaxReads /\ ~Good(m)
    BY <2>1
  <2>3. CASE m = 0
    <3>1. g[m] = <<>> /\ Len(<<>>) = 0
      BY <1>2, <2>2, <2>3
    <3>2. <<>> \in [1 .. 0 -> Value] /\ 0 \in 0 .. MaxReads
      BY <1>3
    <3>3. <<>> \in Reads
      BY <3>2 DEF Reads
    <3> QED
      BY <2>2, <2>3, <3>1, <3>3
  <2>4. CASE m # 0
    <3> DEFINE r == g[m - 1]
    <3>1. m - 1 \in 0 .. MaxReads /\ m - 1 \notin T
      BY <1>3, <2>1, <2>2, <2>4
    <3>2. Good(m - 1) /\ g[m] = Step(f, n, r)
      BY <1>2, <2>2, <2>4, <3>1
    <3>3. r \in Reads /\ Partial(r) /\ (Len(r) = m - 1 \/ NextRead(n, r) = Done)
      BY <3>2
    <3> HIDE DEF r
    <3>4. CASE NextRead(n, r) = Done
      BY <2>2, <3>2, <3>3, <3>4 DEF Step
    <3>5. CASE NextRead(n, r) # Done
      <4> DEFINE s == NextRead(n, r)
                 q == Append(r, f[s])
      <4>1. s \in Below(n) /\ f[s] \in Value /\ Len(r) # MaxReads
        BY <3>3, <3>5, ReadsBelow, ClosureAssumption
      <4>2. g[m] = q
        BY <3>2, <3>5 DEF Step
      <4>3. /\ q \in Reads /\ Len(q) = Len(r) + 1 /\ q[Len(r) + 1] = f[s]
            /\ \A k \in 1 .. Len(r) : q[k] = r[k]
            /\ \A k \in 0 .. Len(r) : Prefix(q, k) = Prefix(r, k)
            /\ Prefix(r, Len(r)) = r /\ Len(r) \in Nat
        BY <3>3, <4>1, Prefixes
      <4>4. Partial(q)
        <5> SUFFICES ASSUME NEW i \in 1 .. Len(q)
                     PROVE  /\ NextRead(n, Prefix(q, i - 1)) # Done
                            /\ q[i] = f[NextRead(n, Prefix(q, i - 1))]
          BY <4>3
        <5>1. i - 1 \in 0 .. Len(r) /\ Prefix(q, i - 1) = Prefix(r, i - 1)
          BY <4>3
        <5>2. CASE i = Len(r) + 1
          <6>1. Prefix(q, i - 1) = r
            BY <4>3, <5>1, <5>2
          <6> QED
            BY <3>5, <4>3, <5>2, <6>1
        <5>3. CASE i \in 1 .. Len(r)
          BY <3>3, <4>3, <5>1, <5>3
        <5> QED
          BY <4>3, <5>2, <5>3
      <4>5. Len(q) = m
        BY <2>2, <3>3, <3>5, <4>3
      <4> QED
        BY <2>2, <4>2, <4>4, <4>5
    <3> QED
      BY <3>4, <3>5
  <2> QED
    BY <2>3, <2>4
<1>5. Good(MaxReads)
  BY <1>3, <1>4
<1>6. NextRead(n, g[MaxReads]) = Done
  BY <1>5, ClosureAssumption
<1> QED
  BY <1>1, <1>5, <1>6 DEF IsReads

\* What a closure reads depends on the sources below it only.
LEMMA ReadsCongruent ==
    ASSUME NEW f, NEW h, NEW n \in Sink, \A s \in Below(n) : f[s] \in Value /\ h[s] = f[s]
    PROVE  ReadsOver(h, n) = ReadsOver(f, n)
<1> DEFINE r == ReadsOver(f, n)
<1>1. IsReads(f, n, r)
  BY ReadsExist
<1>2. IsReads(h, n, r)
  <2> HIDE DEF r
  <2> SUFFICES ASSUME NEW i \in 1 .. Len(r)
               PROVE  r[i] = h[NextRead(n, Prefix(r, i - 1))]
    BY <1>1 DEF IsReads
  <2>1. r \in Reads
    BY <1>1 DEF IsReads
  <2>2. i - 1 \in 0 .. Len(r)
    BY <2>1, Prefixes
  <2>3. Prefix(r, i - 1) \in Reads
    BY <2>1, <2>2, Prefixes
  <2>4. NextRead(n, Prefix(r, i - 1)) \in Below(n)
    BY <1>1, <2>3, ReadsBelow DEF IsReads
  <2> QED
    BY <1>1, <2>4 DEF IsReads
<1> QED
  BY <1>2, ReadsOverIs

-----------------------------------------------------------------------------
(* The value of every source. *)

\* One unfolding of the recursive function in Fresh.
Unfold(store, g) ==
    [s \in Source |-> IF s \in State THEN store[s] ELSE Result(s, ReadsOver(g, s))]

\* A node of least rank in a set of nodes.
LEMMA LeastNode ==
    ASSUME NEW S \in SUBSET Node, S # {}
    PROVE  \E s \in S : \A t \in S : Rank[s] <= Rank[t]
<1> DEFINE T == {Rank[s] : s \in S}
<1>1. T \in SUBSET Nat /\ T # {}
  BY RankAssumption
<1>2. PICK m \in T : \A k \in T : m <= k
  <2> HIDE DEF T
  <2> QED
    BY <1>1, LeastNat
<1> QED
  BY <1>2

\* The solutions of the recursion give every source a value.
LEMMA FreshTypes ==
    ASSUME NEW store, \A s \in State : store[s] \in Value,
           NEW g, NEW m \in Nat, \A s \in Source : Rank[s] < m => g[s] = Unfold(store, g)[s]
    PROVE  \A s \in Source : Rank[s] < m => g[s] \in Value
<1> DEFINE S == {s \in Source : Rank[s] < m /\ g[s] \notin Value}
<1> SUFFICES ASSUME S # {} PROVE FALSE
  OBVIOUS
<1>1. PICK s \in S : \A t \in S : Rank[s] <= Rank[t]
  <2>1. S \in SUBSET Node
    BY NodeSets
  <2> HIDE DEF S
  <2> QED
    BY <2>1, LeastNode
<1>2. s \in Source /\ Rank[s] < m /\ g[s] \notin Value /\ s \in Node /\ Rank[s] \in Nat
  BY <1>1, NodeSets, RankAssumption
<1>3. s \in Scan /\ s \in Sink
  BY <1>2, NodeSets DEF Unfold, Source
<1>4. \A t \in Below(s) : g[t] \in Value
  <2> SUFFICES ASSUME NEW t \in Source, Rank[t] < Rank[s]
               PROVE  g[t] \in Value
    BY DEF Below
  <2>1. Rank[t] \in Nat /\ Rank[t] < m
    BY <1>2, NodeSets, RankAssumption
  <2>2. t \notin S
    BY <1>1, <1>2, <2>1
  <2> QED
    BY <2>1, <2>2
<1>5. ReadsOver(g, s) \in Reads
  BY <1>3, <1>4, ReadsExist DEF IsReads
<1>6. Result(s, ReadsOver(g, s)) \in Value
  BY <1>3, <1>5, ClosureAssumption
<1> QED
  BY <1>2, <1>3, <1>6, NodesAssumption DEF Unfold

\* Two solutions agree as far as both go.
LEMMA FreshAgrees ==
    ASSUME NEW store, \A s \in State : store[s] \in Value,
           NEW g, NEW m \in Nat, \A s \in Source : Rank[s] < m => g[s] = Unfold(store, g)[s],
           NEW h, \A s \in Source : Rank[s] < m => h[s] = Unfold(store, h)[s]
    PROVE  \A s \in Source : Rank[s] < m => h[s] = g[s]
<1> DEFINE S == {s \in Source : Rank[s] < m /\ h[s] # g[s]}
<1> SUFFICES ASSUME S # {} PROVE FALSE
  OBVIOUS
<1>1. PICK s \in S : \A t \in S : Rank[s] <= Rank[t]
  <2>1. S \in SUBSET Node
    BY NodeSets
  <2> HIDE DEF S
  <2> QED
    BY <2>1, LeastNode
<1>2. s \in Source /\ Rank[s] < m /\ h[s] # g[s] /\ s \in Node /\ Rank[s] \in Nat
  BY <1>1, NodeSets, RankAssumption
<1>3. s \in Scan /\ s \in Sink /\ s \notin State
  BY <1>2, NodeSets DEF Unfold, Source
<1>4. \A t \in Below(s) : g[t] \in Value /\ h[t] = g[t]
  <2> SUFFICES ASSUME NEW t \in Source, Rank[t] < Rank[s]
               PROVE  g[t] \in Value /\ h[t] = g[t]
    BY DEF Below
  <2>1. Rank[t] \in Nat /\ Rank[t] < m
    BY <1>2, NodeSets, RankAssumption
  <2>2. t \notin S
    BY <1>1, <1>2, <2>1
  <2>3. g[t] \in Value
    BY <2>1, FreshTypes
  <2> QED
    BY <2>1, <2>2, <2>3
<1>5. ReadsOver(h, s) = ReadsOver(g, s)
  BY <1>3, <1>4, ReadsCongruent
<1> QED
  BY <1>2, <1>3, <1>5 DEF Unfold

\* g solves the recursion below rank m.
Solves(store, g, m) == \A s \in Source : Rank[s] < m => g[s] = Unfold(store, g)[s]

\* A solution for the sources of rank less than m extends to those of rank m.
LEMMA FreshBelow ==
    ASSUME NEW store, \A s \in State : store[s] \in Value
    PROVE  \A m \in Nat : \E g : Solves(store, g, m)
<1> DEFINE T == {m \in Nat : ~ \E g : Solves(store, g, m)}
<1> SUFFICES ASSUME T # {} PROVE FALSE
  OBVIOUS
<1>1. PICK m \in T : \A k \in T : m <= k
  <2>1. T \in SUBSET Nat
    OBVIOUS
  <2> HIDE DEF T
  <2> QED
    BY <2>1, LeastNat
<1>2. m \in Nat /\ ~ \E g : Solves(store, g, m)
  BY <1>1
<1>3. CASE m = 0
  <2>1. Solves(store, store, 0)
    BY NodeSets, RankAssumption DEF Solves
  <2> QED
    BY <1>2, <1>3, <2>1
<1>4. CASE m # 0
  <2>1. m - 1 \in Nat /\ m - 1 \notin T
    BY <1>1, <1>2, <1>4
  <2>2. PICK h : Solves(store, h, m - 1)
    BY <2>1
  <2> DEFINE g == Unfold(store, h)
  <2>3. \A s \in Source : Rank[s] < m - 1 => g[s] = h[s] /\ h[s] \in Value
    <3>1. \A s \in Source : Rank[s] < m - 1 => h[s] \in Value
      BY <2>1, <2>2, FreshTypes DEF Solves
    <3> QED
      BY <2>2, <3>1 DEF Solves
  <2>4. ASSUME NEW s \in Source, Rank[s] < m
        PROVE  g[s] = Unfold(store, g)[s]
    <3> HIDE DEF g
    <3>1. CASE s \in State
      BY <3>1 DEF g, Unfold
    <3>2. CASE s \notin State
      <4>1. s \in Sink
        BY <3>2, NodeSets DEF Source
      <4>2. \A t \in Below(s) : h[t] \in Value /\ g[t] = h[t]
        <5> SUFFICES ASSUME NEW t \in Source, Rank[t] < Rank[s]
                     PROVE  h[t] \in Value /\ g[t] = h[t]
          BY DEF Below
        <5>1. Rank[t] \in Nat /\ Rank[s] \in Nat
          BY NodeSets, RankAssumption
        <5>2. Rank[t] < m - 1
          BY <1>2, <2>4, <5>1
        <5> QED
          BY <2>3, <5>2
      <4>3. ReadsOver(g, s) = ReadsOver(h, s)
        BY <4>1, <4>2, ReadsCongruent
      <4> QED
        BY <3>2, <4>3 DEF g, Unfold
    <3> QED
      BY <3>1, <3>2
  <2>5. Solves(store, g, m)
    BY <2>4 DEF Solves
  <2> QED
    BY <1>2, <2>5
<1> QED
  BY <1>3, <1>4

\* The recursive function in Fresh exists.
LEMMA FreshUnfold ==
    ASSUME NEW store, \A s \in State : store[s] \in Value
    PROVE  Fresh(store) = Unfold(store, Fresh(store))
<1> DEFINE G(m) == CHOOSE g : Solves(store, g, m)
           fresh == [s \in Source |-> G(Rank[s] + 1)[s]]
<1>1. \A m \in Nat : Solves(store, G(m), m)
  BY FreshBelow
<1> HIDE DEF G
<1>2. \A s \in Source : Rank[s] \in Nat /\ Rank[s] + 1 \in Nat
  BY NodeSets, RankAssumption
<1>3. \A s, t \in Source : Rank[t] < Rank[s] =>
          fresh[t] = G(Rank[s] + 1)[t] /\ fresh[t] \in Value
  <2> SUFFICES ASSUME NEW s \in Source, NEW t \in Source, Rank[t] < Rank[s]
               PROVE  G(Rank[t] + 1)[t] = G(Rank[s] + 1)[t] /\ G(Rank[t] + 1)[t] \in Value
    OBVIOUS
  <2>1. Rank[t] \in Nat /\ Rank[s] \in Nat /\ Rank[t] < Rank[t] + 1
        /\ Rank[t] + 1 \in Nat /\ Rank[s] + 1 \in Nat
        /\ \A u \in Source : Rank[u] < Rank[t] + 1 => Rank[u] < Rank[s] + 1
    BY <1>2
  <2> DEFINE g == G(Rank[t] + 1)
             h == G(Rank[s] + 1)
             m == Rank[t] + 1
  <2>2. /\ m \in Nat
        /\ \A u \in Source : Rank[u] < m => g[u] = Unfold(store, g)[u]
        /\ \A u \in Source : Rank[u] < m => h[u] = Unfold(store, h)[u]
    BY <1>1, <2>1 DEF Solves
  <2> HIDE DEF g, h
  <2>3. \A u \in Source : Rank[u] < m => h[u] = g[u]
    BY <2>2, FreshAgrees
  <2>4. \A u \in Source : Rank[u] < m => g[u] \in Value
    BY <2>2, FreshTypes
  <2>5. h[t] = g[t] /\ g[t] \in Value
    BY <2>1, <2>3, <2>4
  <2> QED
    BY <2>5 DEF g, h
<1>4. fresh = Unfold(store, fresh)
  <2> SUFFICES ASSUME NEW s \in Source
               PROVE  fresh[s] = IF s \in State THEN store[s] ELSE Result(s, ReadsOver(fresh, s))
    BY DEF Unfold
  <2>1. G(Rank[s] + 1)[s] = Unfold(store, G(Rank[s] + 1))[s]
    BY <1>1, <1>2 DEF Solves
  <2>2. CASE s \in State
    BY <2>1, <2>2 DEF Unfold
  <2>3. CASE s \notin State
    <3> DEFINE h == G(Rank[s] + 1)
    <3>1. s \in Sink
      BY <2>3, NodeSets DEF Source
    <3>2. \A t \in Below(s) : fresh[t] = h[t] /\ h[t] \in Value
      BY <1>3 DEF Below
    <3>3. ReadsOver(fresh, s) = ReadsOver(h, s)
      <4> HIDE DEF h, fresh
      <4> QED
        BY <3>1, <3>2, ReadsCongruent
    <3> QED
      BY <2>1, <2>3, <3>3 DEF Unfold
  <2> QED
    BY <2>2, <2>3
<1> HIDE DEF fresh
<1> DEFINE c == CHOOSE g : g = Unfold(store, g)
<1>5. c = Unfold(store, c)
  BY <1>4
<1>6. Fresh(store) = c
  BY DEF Fresh, Unfold
<1> QED
  BY <1>5, <1>6

\* Every source has one fresh value: a state its own, a signal what its closure returns
\* having read the fresh values.
LEMMA FreshValues ==
    ASSUME NEW store, \A s \in State : store[s] \in Value
    PROVE  /\ \A s \in Source : Fresh(store)[s] \in Value
           /\ \A s \in State : Fresh(store)[s] = store[s]
           /\ \A s \in Scan : Fresh(store)[s] = Result(s, ReadsOver(Fresh(store), s))
<1>1. Fresh(store) = Unfold(store, Fresh(store))
  BY FreshUnfold
<1>2. \A s \in Source : Fresh(store)[s] = Unfold(store, Fresh(store))[s]
  BY <1>1
<1>3. ASSUME NEW s \in Source
      PROVE  Fresh(store)[s] \in Value
  <2>1. Rank[s] + 1 \in Nat /\ Rank[s] < Rank[s] + 1
    BY NodeSets, RankAssumption
  <2>2. \A t \in Source : Rank[t] < Rank[s] + 1 => Fresh(store)[t] \in Value
    BY <1>2, <2>1, FreshTypes
  <2> QED
    BY <2>1, <2>2
<1> QED
  BY <1>2, <1>3, NodeSets, NodesAssumption DEF Unfold

\* Only the values of the states matter.
LEMMA FreshOfStates ==
    ASSUME NEW store, \A s \in State : store[s] \in Value
    PROVE  Fresh([s \in State |-> store[s]]) = Fresh(store)
<1> DEFINE states == [s \in State |-> store[s]]
<1>1. \A s \in State : states[s] \in Value /\ states[s] = store[s]
  OBVIOUS
<1> HIDE DEF states
<1>2. \A g : Unfold(states, g) = Unfold(store, g)
  BY <1>1 DEF Unfold
<1>3. (CHOOSE g : g = Unfold(states, g)) = (CHOOSE g : g = Unfold(store, g))
  BY <1>2
<1>4. Fresh(states) = (CHOOSE g : g = Unfold(states, g))
      /\ Fresh(store) = (CHOOSE g : g = Unfold(store, g))
  BY DEF Fresh, Unfold
<1> QED
  BY <1>3, <1>4 DEF states
-----------------------------------------------------------------------------
(* What a run read, while it lasts and after it. *)

\* The reads of a closure under way are those it would repeat now.
ReadsHold(n) ==
    \A i \in 1 .. Len(seen[n]) : /\ NextRead(n, Prefix(seen[n], i - 1)) = srcs[n][i]
                                 /\ seen[n][i] = val[srcs[n][i]]
RunReads == \A n \in Sink : pc[n] \in Active => ReadsHold(n)

\* r is a complete list of reads, and n has kept what follows from it.
Outcome(n, r) ==
    /\ NextRead(n, r) = Done
    /\ n \in Scan => val[n] = Result(n, r)
    /\ n \in Effect => obs[n] = r
RunEnds == \A n \in Sink : pc[n] = "trim" => Outcome(n, seen[n])

\* The value of s has changed since n read it at index i, and the entry of n says so, or
\* will when the signal s has told its sinks or the notification of the state s arrives.
Stale(s, n, i) ==
    \/ sinks[s][n][i] = "Dirty"
    \/ sinks[s][n][i] = "MaybeDirty" /\ pc[s] = "trim" /\ result[s]
    \/ s \in State /\ \E j \in 1 .. Len(notifys) : notifys[j] = s
    \/ s \in State /\ pc[s] = "notify" /\ <<n, i>> \in todo[s]

\* r is what the last run of n read.  Each value read is the present one or is stale.
LastReads(n, r) ==
    \A i \in 1 .. Len(r) : /\ NextRead(n, Prefix(r, i - 1)) = srcs[n][i]
                           /\ r[i] = val[srcs[n][i]] \/ Stale(srcs[n][i], n, i)
IsLastRun(n, r) == Len(r) = Len(srcs[n]) /\ Outcome(n, r) /\ LastReads(n, r)

\* A sink that is not known to be dirty is what its last run made it.
Usable(n) == pc[n] \in Settling /\ dirty[n] # "Dirty" /\ Attended(n)
LastRun == \A n \in Sink : Usable(n) => \E r \in Reads : IsLastRun(n, r)

ValueInv == RunReads /\ RunEnds /\ LastRun

-----------------------------------------------------------------------------
(* The sources of a sink during a step. *)

\* The sources a closure has read so far stay as they are until it returns.
LEMMA ReadSources ==
    ASSUME BaseInv, FlagInv, NEW n \in Sink, pc[n] \in Active, NEW i \in 1 .. Len(seen[n])
    PROVE  /\ srcs[n][i] \in Source /\ i \in Index /\ i <= Len(srcs[n])
           /\ Settled(srcs[n][i]) /\ pc[srcs[n][i]] = "idle"
<1>1. /\ TypeOK /\ Progress /\ Computing /\ NodeCalls
      /\ Len(seen[n]) \in Nat /\ Len(seen[n]) <= Len(srcs[n])
      /\ Len(srcs[n]) \in Nat /\ Len(srcs[n]) <= MaxReads /\ MaxReads \in Nat
      /\ srcs[n] \in Seq(Source)
  BY Before, CallsCompute, SinkTypes DEF FlagInv, PhaseInv
<1>2. i \in Index /\ i <= Len(srcs[n]) /\ srcs[n][i] \in Source
  BY <1>1 DEF Index
<1> DEFINE s == srcs[n][i]
<1>3. sinks[s][n][i] = "Clean" /\ ~BeingRead(n, i)
  BY <1>1, <1>2 DEF FlagInv, EntryInv, ReadClean, BeingRead
<1>4. pc[s] # "notify"
  BY <1>1, <1>2, NodeSets DEF Computing
<1>5. CASE s \in Scan
  BY <1>2, <1>3, <1>4, <1>5 DEF FlagInv, EntryInv, CleanEntry, CleanEntryAt, Settled
<1>6. CASE s \in State
  <2>1. s \notin Scan
    BY <1>6, Kinds
  <2> QED
    BY <1>1, <1>2, <1>4, <1>6, <2>1 DEF NodeCalls, Settled
<1> QED
  BY <1>2, <1>5, <1>6 DEF Source

\* The bindings of a sink between its runs.
LEMMA SettledSources ==
    ASSUME BaseInv, NEW n \in Sink, pc[n] \in Settling, NEW i \in 1 .. Len(srcs[n])
    PROVE  srcs[n][i] \in Source /\ i \in Index /\ sinks[srcs[n][i]][n][i] # "Unbound"
<1>1. /\ TypeOK /\ Progress /\ BindingsAgree
      /\ Len(srcs[n]) \in Nat /\ Len(srcs[n]) <= MaxReads /\ MaxReads \in Nat
      /\ srcs[n] \in Seq(Source)
  BY Before, SinkTypes
<1>2. i \in Index /\ i <= Len(srcs[n]) /\ srcs[n][i] \in Source
  BY <1>1 DEF Index
<1> QED
  BY <1>1, <1>2 DEF BindingsAgree, Settling

\* What is stale stays so until the sink runs.
LEMMA StaleStays ==
    ASSUME BaseInv, FlagInv, EffectStep,
           NEW s \in Source, NEW n \in Sink, NEW i \in Index,
           pc[n] \in Settling, sinks[s][n][i] # "Unbound", Stale(s, n, i)
    PROVE  Stale(s, n, i)'
<1> USE DEF graph, calls, sweep, disc, queues, loop, users
<1>1. TypeOK /\ s \in Node /\ n \in Node /\ notifys \in Seq(State)
  BY Before, NodeSets DEF TypeOK
<1>2. ASSUME NEW r \in Source, NEW m \in Sink, NEW j \in Index, NotifyEffect(r, m, j)
      PROVE  Stale(s, n, i)'
  <2>1. pc[s] # "trim"
    BY <1>1, <1>2 DEF NotifyEffect
  <2>2. r \in State => level[r] = "Dirty"
    BY DEF FlagInv, PhaseInv, StateLevel
  <2>3. CASE s \in State /\ \E k \in 1 .. Len(notifys) : notifys[k] = s
    BY <1>2, <2>3 DEF NotifyEffect, Stale
  <2>4. CASE sinks[s][n][i] = "Dirty"
    BY <1>2, <2>4 DEF NotifyEffect, EntryBecomes, ApplyNotify, Stale
  <2>5. CASE s \in State /\ pc[s] = "notify" /\ <<n, i>> \in todo[s]
    <3>1. s \notin Scan
      BY <2>5, Kinds
    <3>2. CASE r = s /\ m = n /\ j = i
      BY <1>2, <2>2, <2>5, <3>2 DEF NotifyEffect, EntryBecomes, ApplyNotify, Stale
    <3>3. CASE ~(r = s /\ m = n /\ j = i)
      <4>1. pc'[s] = "notify" /\ <<n, i>> \in todo'[s]
        BY <1>1, <1>2, <2>5, <3>1, <3>3 DEF NotifyEffect
      <4> QED
        BY <2>5, <4>1 DEF Stale
    <3> QED
      BY <3>2, <3>3
  <2> QED
    BY <2>1, <2>3, <2>4, <2>5 DEF Stale
<1>3. ASSUME NEW r \in Source, NotifyDoneEffect(r)
      PROVE  Stale(s, n, i)'
  BY <1>1, <1>3 DEF NotifyDoneEffect, Becomes, Stale
<1>4. ASSUME NEW m \in Sink,
             (\E c \in {"check", "run"} : StartEffect(m, c)) \/ CheckCleanEffect(m) \/ CloseEffect(m)
             \/ ClearDoneEffect(m)
      PROVE  Stale(s, n, i)'
  <2>1. pc[m] # "trim" /\ pc[m] # "notify" /\ \A x \in Node : x # m => pc'[x] = pc[x]
    BY <1>4 DEF StartEffect, CheckCleanEffect, CloseEffect, ClearDoneEffect, Becomes
  <2>2. UNCHANGED <<sinks, notifys, todo>>
    BY <1>4 DEF StartEffect, CheckCleanEffect, CloseEffect, ClearDoneEffect
  <2>3. result' = result \/ \A x \in Scan : x # m => result'[x] = result[x]
    BY <1>4 DEF StartEffect, CheckCleanEffect, CloseEffect, ClearDoneEffect, Becomes
  <2>4. s \in Scan \/ (s \in State /\ s \notin Scan /\ pc[s] # "trim")
    BY Kinds DEF FlagInv, PhaseInv, NodeCalls
  <2> QED
    BY <1>1, <2>1, <2>2, <2>3, <2>4 DEF Stale
<1>5. ASSUME NEW m \in Sink, CheckDoneEffect(m)
      PROVE  Stale(s, n, i)'
  BY <1>1, <1>5 DEF CheckDoneEffect, ResolvedTo, Becomes, Stale
<1>6. ASSUME NEW m \in Sink, NEW r \in Source, NEW j \in Index, BindEffect(m, r, j)
      PROVE  Stale(s, n, i)'
  <2>1. n # m
    BY <1>6 DEF BindEffect, Settling
  <2> QED
    BY <1>1, <1>6, <2>1 DEF BindEffect, Becomes, Stale
<1>7. ASSUME NEW m \in Sink, NEW r \in Source, ReadEffect(m, r)
      PROVE  Stale(s, n, i)'
  BY <1>1, <1>7 DEF ReadEffect, Becomes, Stale
<1>8. ASSUME NEW m \in Sink, UnbindEffect(m)
      PROVE  Stale(s, n, i)'
  <2>1. n # m
    BY <1>8 DEF UnbindEffect, Settling
  <2> QED
    BY <1>1, <1>8, <2>1 DEF UnbindEffect, EntryBecomes, Stale
<1>9. ASSUME NEW m \in Sink, TrimEffect(m)
      PROVE  Stale(s, n, i)'
  <2>1. s \in Scan \/ (s \in State /\ s \notin Scan /\ pc[s] # "trim")
    BY Kinds DEF FlagInv, PhaseInv, NodeCalls
  <2> QED
    BY <1>1, <1>9, <2>1 DEF TrimEffect, ResolvedTo, FromIsDirty, Becomes, Stale
<1>10. ASSUME NEW r \in State, BeginNotifyEffect(r)
       PROVE  Stale(s, n, i)'
  <2>1. s = r => pc'[s] = "notify" /\ <<n, i>> \in todo'[s] /\ s \in State
    BY <1>1, <1>10 DEF BeginNotifyEffect, Becomes, Bound, Key
  <2>2. CASE s \in State /\ s # r /\ \E k \in 1 .. Len(notifys) : notifys[k] = s
    <3>1. PICK k \in 1 .. Len(notifys) : notifys[k] = s
      BY <2>2
    <3>2. CASE UNCHANGED notifys
      BY <2>2, <3>2 DEF Stale
    <3>3. CASE notifys # <<>> /\ r = Head(notifys) /\ notifys' = Tail(notifys)
      <4>1. /\ Head(notifys) = notifys[1] /\ Len(notifys') = Len(notifys) - 1
            /\ \A x \in 1 .. Len(notifys) - 1 : notifys'[x] = notifys[x + 1]
            /\ Len(notifys) \in Nat
        BY <1>1, <3>3, HeadTailProperties
      <4>2. k # 1
        BY <2>2, <3>1, <3>3, <4>1
      <4>3. k - 1 \in 1 .. Len(notifys') /\ (k - 1) + 1 = k
        BY <4>1, <4>2
      <4>4. notifys'[k - 1] = s
        BY <3>1, <4>1, <4>3
      <4> QED
        BY <2>2, <4>3, <4>4 DEF Stale
    <3> QED
      BY <1>10, <3>2, <3>3 DEF BeginNotifyEffect
  <2>3. CASE s = r
    BY <2>1, <2>3 DEF Stale
  <2> QED
    BY <1>1, <1>10, <2>2, <2>3 DEF BeginNotifyEffect, Becomes, Quiet, Stale
<1>11. ASSUME NEW m \in Sink, BeginClearEffect(m)
       PROVE  Stale(s, n, i)'
  BY <1>1, <1>11 DEF BeginClearEffect, Becomes, Quiet, Stale
<1>12. ASSUME NEW r \in State, LooseEffect(r)
       PROVE  Stale(s, n, i)'
  <2>1. \A k \in 1 .. Len(notifys) : notifys'[k] = notifys[k] /\ k \in 1 .. Len(notifys')
    BY <1>1, <1>12, AppendProperties DEF LooseEffect
  <2> QED
    BY <1>12, <2>1 DEF LooseEffect, Stale
<1>13. ASSUME NEW e \in Effect, SubscribeEffect(e) \/ UnsubscribeEffect(e)
       PROVE  Stale(s, n, i)'
  BY <1>13 DEF SubscribeEffect, UnsubscribeEffect, Stale
<1>14. ASSUME StageEffect
       PROVE  Stale(s, n, i)'
  BY <1>14 DEF StageEffect, Stale
<1> QED
  BY <1>2, <1>3, <1>4, <1>5, <1>6, <1>7, <1>8, <1>9, <1>10, <1>11, <1>12, <1>13, <1>14
     DEF EffectStep

\* A source changes value under a sink that is not running only if the entry gets stale.
LEMMA ValuesMove ==
    ASSUME BaseInv, FlagInv, EffectStep,
           NEW s \in Source, NEW n \in Sink, NEW i \in Index,
           pc[n] \in Settling, sinks[s][n][i] # "Unbound"
    PROVE  val'[s] = val[s] \/ Stale(s, n, i)'
<1> USE DEF graph, calls, sweep, disc, queues, loop, users
<1>1. TypeOK /\ s \in Node /\ n \in Node /\ notifys \in Seq(State)
  BY Before, NodeSets DEF TypeOK
<1>2. ASSUME NEW m \in Sink, CloseEffect(m), val'[s] # val[s]
      PROVE  Stale(s, n, i)'
  <2>1. s = m /\ m \in Scan /\ pc[s] = "run" /\ n # m
    BY <1>2 DEF CloseEffect, Becomes, Settling
  <2>2. result'[s] = TRUE /\ pc'[s] = "trim"
    BY <1>1, <1>2, <2>1 DEF CloseEffect, Becomes
  <2>3. sinks[s][n][i] \in {"MaybeDirty", "Dirty"} /\ UNCHANGED sinks
    <3>1. ~BeingRead(n, i)
      BY DEF BeingRead, Settling
    <3>2. sinks[s][n][i] # "Clean"
      BY <2>1, <3>1 DEF FlagInv, EntryInv, CleanEntry, CleanEntryAt
    <3> QED
      BY <1>1, <1>2, <3>2, Types DEF Entry, Dirty, CloseEffect
  <2> QED
    BY <2>2, <2>3 DEF Stale
<1>3. ASSUME NEW r \in State, BeginNotifyEffect(r), val'[s] # val[s]
      PROVE  Stale(s, n, i)'
  <2>1. s = r /\ pc'[s] = "notify" /\ <<n, i>> \in todo'[s]
    BY <1>1, <1>3 DEF BeginNotifyEffect, Becomes, Bound, Key
  <2> QED
    BY <2>1 DEF Stale
<1>4. ASSUME NEW m \in Sink, BeginClearEffect(m)
      PROVE  val'[s] = val[s]
  <2>1. CASE m \in Scan
    <3>1. s # m
      BY <1>4, <2>1 DEF BeginClearEffect, NoSinks
    <3> QED
      BY <1>4, <3>1 DEF BeginClearEffect
  <2>2. CASE m \in Effect
    BY <1>4, <2>2 DEF BeginClearEffect
  <2> QED
    BY <2>1, <2>2 DEF Sink
<1>5. ASSUME NEW r \in State, LooseEffect(r), val'[s] # val[s]
      PROVE  Stale(s, n, i)'
  <2>1. s = r
    BY <1>5 DEF LooseEffect
  <2>2. Len(notifys') \in 1 .. Len(notifys') /\ notifys'[Len(notifys')] = s
    BY <1>1, <1>5, <2>1, AppendProperties DEF LooseEffect
  <2> QED
    BY <2>1, <2>2 DEF Stale
<1>6. ASSUME NEW r \in Source, NotifyDoneEffect(r)
      PROVE  val'[s] = val[s]
  BY <1>6 DEF NotifyDoneEffect
<1>10. ASSUME NEW r \in Source, NEW m \in Sink, NEW j \in Index, NotifyEffect(r, m, j)
       PROVE  val'[s] = val[s]
  BY <1>10 DEF NotifyEffect
<1>7. ASSUME NEW m \in Sink,
             \/ \E c \in {"check", "run"} : StartEffect(m, c)
             \/ CheckCleanEffect(m) \/ CheckDoneEffect(m)
             \/ UnbindEffect(m) \/ TrimEffect(m) \/ ClearDoneEffect(m)
      PROVE  val'[s] = val[s]
  BY <1>7
     DEF StartEffect, CheckCleanEffect, CheckDoneEffect, UnbindEffect, TrimEffect, ClearDoneEffect
<1>8. ASSUME NEW m \in Sink, NEW r \in Source,
             ReadEffect(m, r) \/ \E j \in Index : BindEffect(m, r, j)
      PROVE  val'[s] = val[s]
  BY <1>8 DEF ReadEffect, BindEffect
<1>9. ASSUME \/ \E e \in Effect : SubscribeEffect(e) \/ UnsubscribeEffect(e)
             \/ StageEffect
      PROVE  val'[s] = val[s]
  BY <1>9 DEF SubscribeEffect, UnsubscribeEffect, StageEffect
<1> QED
  BY <1>2, <1>3, <1>4, <1>5, <1>6, <1>7, <1>8, <1>9, <1>10 DEF EffectStep

\* A sink becomes usable by the end of a run, and stays so with what that run made of it.
LEMMA UsableSteps ==
    ASSUME BaseInv, FlagInv, EffectStep, NEW n \in Sink, Usable(n)'
    PROVE  \/ TrimEffect(n)
           \/ /\ Usable(n) /\ srcs'[n] = srcs[n]
              /\ n \in Scan => val'[n] = val[n]
              /\ n \in Effect => obs'[n] = obs[n]
<1> USE DEF graph, calls, sweep, disc, queues, loop, users
<1> DEFINE Stays == /\ Usable(n) /\ srcs'[n] = srcs[n]
                    /\ n \in Scan => val'[n] = val[n]
                    /\ n \in Effect => obs'[n] = obs[n]
<1>1. TypeOK /\ n \in Node /\ n \notin State
  BY Before, NodeSets, Kinds
<1>2. ASSUME NEW r \in Source, NEW m \in Sink, NEW j \in Index, NotifyEffect(r, m, j)
      PROVE  Stays
  <2>1. ApplyNotify("Dirty", level[r]) = "Dirty"
    BY DEF ApplyNotify
  <2> QED
    BY <1>1, <1>2, <2>1 DEF NotifyEffect, Usable, Settling, Attended
<1>3. ASSUME NEW m \in Sink,
             \/ \E c \in {"check", "run"} : StartEffect(m, c)
             \/ CheckCleanEffect(m) \/ CheckDoneEffect(m)
      PROVE  Stays
  <2>1. CASE \E c \in {"check", "run"} : StartEffect(m, c)
    BY <1>1, <1>3, <2>1 DEF StartEffect, Becomes, Usable, Settling, Attended
  <2>2. CASE CheckCleanEffect(m)
    BY <1>1, <1>3, <2>2 DEF CheckCleanEffect, Becomes, Usable, Settling, Attended
  <2>3. CASE CheckDoneEffect(m)
    <3>1. ProgressOf(m)
      BY Before
    <3> QED
      BY <1>1, <1>3, <2>3, <3>1
         DEF CheckDoneEffect, Becomes, Usable, Settling, Attended, ProgressOf
  <2> QED
    BY <1>3, <2>1, <2>2, <2>3
<1>4. ASSUME NEW m \in Sink, NEW r \in Source, ReadEffect(m, r) \/ \E j \in Index : BindEffect(m, r, j)
      PROVE  Stays
  BY <1>1, <1>4 DEF ReadEffect, BindEffect, Becomes, Usable, Settling, Attended
<1>5. ASSUME NEW m \in Sink, CloseEffect(m)
      PROVE  Stays
  <2>1. n # m
    BY <1>1, <1>5 DEF CloseEffect, Becomes, Usable, Settling
  <2>2. n \in Scan => n \in Source
    BY NodeSets
  <2> QED
    BY <1>1, <1>5, <2>1, <2>2 DEF CloseEffect, Becomes, Usable, Attended
<1>6. ASSUME NEW m \in Sink, UnbindEffect(m)
      PROVE  Stays
  BY <1>1, <1>6 DEF UnbindEffect, Usable, Settling, Attended
<1>7. ASSUME NEW m \in Sink, TrimEffect(m)
      PROVE  TrimEffect(n) \/ Stays
  <2>1. CASE n # m
    BY <1>1, <1>7, <2>1 DEF TrimEffect, Becomes, Usable, Settling, Attended
  <2> QED
    BY <1>7, <2>1
<1>8. ASSUME NEW m \in Sink, ClearDoneEffect(m)
      PROVE  Stays
  <2>1. n # m
    <3>1. m \in Effect => life[m] = "dropped"
      BY <1>8 DEF ClearDoneEffect, FlagInv, PhaseInv, ClearAlone
    <3> QED
      BY <1>1, <1>8, <3>1 DEF ClearDoneEffect, Becomes, Usable, Attended, Sink
  <2> QED
    BY <1>1, <1>8, <2>1 DEF ClearDoneEffect, Becomes, Usable, Settling, Attended
<1>9. ASSUME NEW m \in Sink, BeginClearEffect(m)
      PROVE  Stays
  <2>1. n # m
    BY <1>1, <1>9 DEF BeginClearEffect, Becomes, Usable, Settling
  <2>2. n \in Scan => n \in Source
    BY NodeSets
  <2> QED
    BY <1>1, <1>9, <2>1, <2>2 DEF BeginClearEffect, Becomes, Usable, Settling, Attended
<1>10. ASSUME NEW r \in State, BeginNotifyEffect(r) \/ LooseEffect(r)
       PROVE  Stays
  <2>1. (n \in Scan => n \in Source) /\ n # r
    BY <1>1, NodeSets
  <2> QED
    BY <1>1, <1>10, <2>1 DEF BeginNotifyEffect, LooseEffect, Becomes, Usable, Settling, Attended
<1>11. ASSUME NEW r \in Source, NotifyDoneEffect(r)
       PROVE  Stays
  BY <1>1, <1>11 DEF NotifyDoneEffect, Becomes, Usable, Settling, Attended
<1>12. ASSUME NEW e \in Effect, SubscribeEffect(e) \/ UnsubscribeEffect(e)
       PROVE  Stays
  <2>1. CASE SubscribeEffect(e)
    <3>1. dirty[e] = "Dirty"
      BY <2>1 DEF SubscribeEffect, FlagInv, PhaseInv, NewEffect
    <3> QED
      BY <1>1, <2>1, <3>1 DEF SubscribeEffect, Becomes, Usable, Settling, Attended
  <2>2. CASE UnsubscribeEffect(e)
    BY <1>1, <2>2 DEF UnsubscribeEffect, Becomes, Usable, Settling, Attended
  <2> QED
    BY <1>12, <2>1, <2>2
<1>13. ASSUME StageEffect
       PROVE  Stays
  BY <1>13 DEF StageEffect, Usable, Settling, Attended
<1> QED
  BY <1>2, <1>3, <1>4, <1>5, <1>6, <1>7, <1>8, <1>9, <1>10, <1>11, <1>12, <1>13 DEF EffectStep

-----------------------------------------------------------------------------
(* The steps keep ValueInv. *)

\* What a running closure has read keeps its value, and nothing else is written meanwhile.
LEMMA RunSteps ==
    ASSUME BaseInv, FlagInv, EffectStep, NEW n \in Sink, pc'[n] \in Active
    PROVE  \/ StartEffect(n, "run")
           \/ \E s \in Source : ReadEffect(n, s)
           \/ CloseEffect(n)
           \/ \E s \in Source, i \in Index : BindEffect(n, s, i)
           \/ /\ pc'[n] = pc[n] /\ seen'[n] = seen[n] /\ srcs'[n] = srcs[n]
              /\ n \in Scan => val'[n] = val[n]
              /\ n \in Effect => obs'[n] = obs[n]
<1> USE DEF graph, calls, sweep, disc, queues, loop, users
<1> DEFINE Stays == /\ pc'[n] = pc[n] /\ seen'[n] = seen[n] /\ srcs'[n] = srcs[n]
                    /\ n \in Scan => val'[n] = val[n]
                    /\ n \in Effect => obs'[n] = obs[n]
<1>1. TypeOK /\ n \in Node /\ n \notin State /\ (n \in Scan => n \in Source)
  BY Before, NodeSets, Kinds
<1>2. ASSUME NEW m \in Sink, m # n,
             \/ \E c \in {"check", "run"} : StartEffect(m, c)
             \/ CheckDoneEffect(m) \/ ClearDoneEffect(m) \/ BeginClearEffect(m) \/ TrimEffect(m)
      PROVE  Stays
  BY <1>1, <1>2
     DEF StartEffect, CheckDoneEffect, ClearDoneEffect, BeginClearEffect, TrimEffect, Becomes
<1>3. ASSUME \/ CheckDoneEffect(n) \/ ClearDoneEffect(n) \/ BeginClearEffect(n) \/ TrimEffect(n)
             \/ StartEffect(n, "check")
      PROVE  FALSE
  BY <1>1, <1>3
     DEF StartEffect, CheckDoneEffect, ClearDoneEffect, BeginClearEffect, TrimEffect, Becomes, Active
<1>4. ASSUME NEW m \in Sink, CheckCleanEffect(m) \/ UnbindEffect(m)
      PROVE  Stays
  BY <1>4 DEF CheckCleanEffect, UnbindEffect
<1>5. ASSUME NEW m \in Sink, m # n, CloseEffect(m)
      PROVE  Stays
  BY <1>1, <1>5 DEF CloseEffect, Becomes
<1>6. ASSUME NEW m \in Sink, m # n, NEW s \in Source,
             ReadEffect(m, s) \/ \E i \in Index : BindEffect(m, s, i)
      PROVE  Stays
  BY <1>1, <1>6 DEF ReadEffect, BindEffect, Becomes
<1>7. ASSUME NEW s \in Source, NotifyDoneEffect(s)
      PROVE  Stays
  BY <1>1, <1>7 DEF NotifyDoneEffect, Becomes, Active
<1>8. ASSUME NEW s \in Source, NEW m \in Sink, NEW i \in Index, NotifyEffect(s, m, i)
      PROVE  Stays
  BY <1>1, <1>8 DEF NotifyEffect, Active
<1>9. ASSUME NEW s \in State, BeginNotifyEffect(s) \/ LooseEffect(s)
      PROVE  Stays
  BY <1>1, <1>9, NodeSets DEF BeginNotifyEffect, LooseEffect, Becomes, Active
<1>10. ASSUME NEW e \in Effect, SubscribeEffect(e) \/ UnsubscribeEffect(e)
       PROVE  Stays
  BY <1>10 DEF SubscribeEffect, UnsubscribeEffect
<1>11. ASSUME StageEffect
       PROVE  Stays
  BY <1>11 DEF StageEffect
<1> QED
  BY <1>2, <1>3, <1>4, <1>5, <1>6, <1>7, <1>8, <1>9, <1>10, <1>11 DEF EffectStep

\* While a closure runs, the value of a source that is up to date stays.
LEMMA SettledValues ==
    ASSUME BaseInv, FlagInv, EffectStep, NEW n \in Sink, pc[n] \in Active,
           NEW s \in Source, Settled(s)
    PROVE  val'[s] = val[s]
<1> USE DEF graph, calls, sweep, disc, queues, loop, users
<1>1. ~Quiet /\ s \in Node
  BY NodeSets DEF Quiet, Active
<1>2. ASSUME NEW m \in Sink, CloseEffect(m)
      PROVE  val'[s] = val[s]
  BY <1>1, <1>2 DEF CloseEffect, Becomes, Settled
<1>3. ASSUME \/ \E r \in State : BeginNotifyEffect(r) \/ LooseEffect(r)
             \/ \E m \in Sink : BeginClearEffect(m)
      PROVE  FALSE
  BY <1>1, <1>3 DEF BeginNotifyEffect, LooseEffect, BeginClearEffect
<1>4. ASSUME NEW m \in Sink,
             \/ \E c \in {"check", "run"} : StartEffect(m, c)
             \/ CheckCleanEffect(m) \/ CheckDoneEffect(m)
             \/ UnbindEffect(m) \/ TrimEffect(m) \/ ClearDoneEffect(m)
      PROVE  val'[s] = val[s]
  BY <1>4
     DEF StartEffect, CheckCleanEffect, CheckDoneEffect, UnbindEffect, TrimEffect, ClearDoneEffect
<1>5. ASSUME NEW m \in Sink, NEW r \in Source,
             ReadEffect(m, r) \/ \E j \in Index : BindEffect(m, r, j)
      PROVE  val'[s] = val[s]
  BY <1>5 DEF ReadEffect, BindEffect
<1>6. ASSUME NEW r \in Source, NotifyDoneEffect(r)
      PROVE  val'[s] = val[s]
  BY <1>6 DEF NotifyDoneEffect
<1>7. ASSUME NEW r \in Source, NEW m \in Sink, NEW j \in Index, NotifyEffect(r, m, j)
      PROVE  val'[s] = val[s]
  BY <1>7 DEF NotifyEffect
<1>8. ASSUME NEW e \in Effect, SubscribeEffect(e) \/ UnsubscribeEffect(e)
      PROVE  val'[s] = val[s]
  BY <1>8 DEF SubscribeEffect, UnsubscribeEffect
<1>9. ASSUME StageEffect
      PROVE  val'[s] = val[s]
  BY <1>9 DEF StageEffect
<1> QED
  BY <1>2, <1>3, <1>4, <1>5, <1>6, <1>7, <1>8, <1>9 DEF EffectStep

\* A closure under way goes on reading what it would read.
LEMMA RunReadsStep ==
    ASSUME BaseInv, FlagInv, RunReads, EffectStep
    PROVE  RunReads'
<1> USE DEF graph, calls, sweep, disc, queues, loop, users
<1> SUFFICES ASSUME NEW n \in Sink, pc'[n] \in Active
             PROVE  ReadsHold(n)'
  BY DEF RunReads
<1>1. /\ TypeOK /\ Progress /\ n \in Node /\ ProgressOf(n) /\ seen[n] \in Reads
      /\ Len(seen[n]) \in Nat
  BY Before, SinkTypes
<1>2. ASSUME pc[n] \in Active, NEW i \in 1 .. Len(seen[n])
      PROVE  /\ NextRead(n, Prefix(seen[n], i - 1)) = srcs[n][i]
             /\ seen[n][i] = val[srcs[n][i]] /\ val'[srcs[n][i]] = val[srcs[n][i]]
             /\ i \in Index /\ i <= Len(srcs[n])
  BY <1>2, ReadSources, SettledValues DEF RunReads, ReadsHold
<1>3. CASE StartEffect(n, "run")
  <2>1. seen'[n] = <<>>
    BY <1>1, <1>3 DEF StartEffect, ProgressOf
  <2> QED
    BY <2>1 DEF ReadsHold
<1>4. ASSUME NEW s \in Source, ReadEffect(n, s)
      PROVE  ReadsHold(n)'
  <2>1. /\ pc[n] = "read" /\ srcs' = srcs /\ val' = val /\ seen'[n] = Append(seen[n], val[s])
        /\ srcs[n][Len(seen[n]) + 1] = s /\ s = NextRead(n, seen[n])
    BY <1>1, <1>4 DEF ReadEffect, Becomes, ProgressOf
  <2>2. /\ Len(seen'[n]) = Len(seen[n]) + 1 /\ seen'[n][Len(seen[n]) + 1] = val[s]
        /\ \A i \in 1 .. Len(seen[n]) : seen'[n][i] = seen[n][i]
        /\ \A k \in 0 .. Len(seen[n]) : Prefix(seen'[n], k) = Prefix(seen[n], k)
        /\ Prefix(seen[n], Len(seen[n])) = seen[n]
    BY <1>1, <2>1, Prefixes
  <2> SUFFICES ASSUME NEW i \in 1 .. Len(seen'[n])
               PROVE  /\ NextRead(n, Prefix(seen'[n], i - 1)) = srcs[n][i]
                      /\ seen'[n][i] = val[srcs[n][i]]
    BY <2>1 DEF ReadsHold
  <2>3. i - 1 \in 0 .. Len(seen[n])
    BY <1>1, <2>2
  <2>4. CASE i = Len(seen[n]) + 1
    <3>1. Prefix(seen'[n], i - 1) = seen[n]
      BY <1>1, <2>2, <2>3, <2>4
    <3> QED
      BY <2>1, <2>2, <2>4, <3>1
  <2>5. CASE i \in 1 .. Len(seen[n])
    BY <1>2, <2>1, <2>2, <2>3, <2>5 DEF Active
  <2> QED
    BY <1>1, <2>2, <2>4, <2>5
<1>5. ASSUME NEW s \in Source, NEW j \in Index, BindEffect(n, s, j)
      PROVE  ReadsHold(n)'
  <2>1. /\ pc[n] = "run" /\ seen' = seen /\ val' = val /\ j = Len(seen[n]) + 1
        /\ Len(srcs'[n]) = IF j <= Len(srcs[n]) THEN Len(srcs[n]) ELSE j
        /\ \A k \in Index : k <= Len(srcs'[n]) => srcs'[n][k] = IF k = j THEN s ELSE srcs[n][k]
    BY <1>5 DEF BindEffect
  <2>2. Len(srcs[n]) \in Nat
    BY Before
  <2>3. \A i \in 1 .. Len(seen[n]) : srcs'[n][i] = srcs[n][i]
    <3> SUFFICES ASSUME NEW i \in 1 .. Len(seen[n])
                 PROVE  srcs'[n][i] = srcs[n][i]
      OBVIOUS
    <3>1. i \in Index /\ i <= Len(srcs[n]) /\ i # j
      BY <1>1, <1>2, <2>1 DEF Active
    <3>2. i <= Len(srcs'[n])
      BY <1>1, <2>1, <2>2, <3>1
    <3> QED
      BY <2>1, <3>1, <3>2
  <2> QED
    BY <1>2, <2>1, <2>3 DEF ReadsHold, Active
<1>6. CASE pc'[n] = pc[n] /\ seen'[n] = seen[n] /\ srcs'[n] = srcs[n]
  BY <1>2, <1>6 DEF ReadsHold
<1>7. CASE CloseEffect(n)
  <2>1. pc[n] = "run" /\ seen' = seen /\ srcs' = srcs
    BY <1>7 DEF CloseEffect
  <2> QED
    BY <1>2, <2>1 DEF ReadsHold, Active
<1> QED
  BY <1>3, <1>4, <1>5, <1>6, <1>7, RunSteps

\* A closure that has returned has read everything, and its result stays.
LEMMA RunEndsStep ==
    ASSUME BaseInv, FlagInv, RunEnds, EffectStep
    PROVE  RunEnds'
<1> USE DEF graph, calls, sweep, disc, queues, loop, users
<1> SUFFICES ASSUME NEW n \in Sink, pc'[n] = "trim"
             PROVE  Outcome(n, seen[n])'
  BY DEF RunEnds
<1>1. n \in Node /\ (n \in Scan => n \in Source) /\ Scan \cap Effect = {} /\ n \in Scan \cup Effect
  BY NodeSets, Kinds
<1>2. CASE CloseEffect(n)
  BY <1>1, <1>2 DEF CloseEffect, Becomes, Outcome
<1>3. CASE StartEffect(n, "run") \/ (\E s \in Source : ReadEffect(n, s))
           \/ \E s \in Source, i \in Index : BindEffect(n, s, i)
  BY <1>1, <1>3 DEF StartEffect, ReadEffect, BindEffect, Becomes
<1>4. CASE /\ pc'[n] = pc[n] /\ seen'[n] = seen[n] /\ srcs'[n] = srcs[n]
           /\ n \in Scan => val'[n] = val[n]
           /\ n \in Effect => obs'[n] = obs[n]
  BY <1>4 DEF RunEnds, Outcome
<1> QED
  BY <1>2, <1>3, <1>4, RunSteps DEF Active

\* Between its runs a sink keeps what its last run made of it, and the bindings know what has
\* become stale since.
LEMMA LastRunStep ==
    ASSUME BaseInv, FlagInv, ValueInv, EffectStep
    PROVE  LastRun'
<1> USE DEF graph, calls, sweep, disc, queues, loop, users
<1> SUFFICES ASSUME NEW n \in Sink, Usable(n)'
             PROVE  \E r \in Reads : IsLastRun(n, r)'
  BY DEF LastRun
<1>1. CASE TrimEffect(n)
  <2>1. TypeOK /\ Progress /\ n \in Node
    BY Before
  <2>2. /\ seen[n] \in Reads /\ Len(seen[n]) \in Nat /\ Len(seen[n]) <= Len(srcs[n])
        /\ srcs[n] \in Seq(Source) /\ Len(srcs[n]) \in Nat
    BY <2>1, SinkTypes
  <2>3. /\ pc[n] = "trim" /\ UNCHANGED <<val, obs>>
        /\ srcs'[n] = SubSeq(srcs[n], 1, Len(seen[n]))
    BY <1>1 DEF TrimEffect, Becomes
  <2>4. /\ Len(srcs'[n]) = Len(seen[n])
        /\ \A i \in 1 .. Len(seen[n]) : srcs'[n][i] = srcs[n][i]
    BY <2>2, <2>3, SubSeqProperties
  <2>5. Outcome(n, seen[n]) /\ ReadsHold(n)
    BY <2>3 DEF ValueInv, RunEnds, RunReads, Active
  <2>6. PICK r \in Reads : r = seen[n]
    BY <2>2
  <2>7. Len(r) = Len(srcs'[n]) /\ Outcome(n, r)'
    BY <2>3, <2>4, <2>5, <2>6 DEF Outcome
  <2>8. LastReads(n, r)'
    BY <2>3, <2>4, <2>5, <2>6 DEF ReadsHold, LastReads
  <2> QED
    BY <2>7, <2>8 DEF IsLastRun
<1>2. CASE /\ Usable(n) /\ srcs'[n] = srcs[n]
           /\ n \in Scan => val'[n] = val[n]
           /\ n \in Effect => obs'[n] = obs[n]
  <2>1. PICK r \in Reads : IsLastRun(n, r)
    BY <1>2 DEF ValueInv, LastRun
  <2>2. Outcome(n, r)'
    BY <1>2, <2>1 DEF IsLastRun, Outcome
  <2>3. ASSUME NEW i \in 1 .. Len(r), NEW s \in Source, s = srcs[n][i]
        PROVE  r[i] = val'[s] \/ Stale(s, n, i)'
    <3>1. i \in 1 .. Len(srcs[n]) /\ pc[n] \in Settling
      BY <1>2, <2>1 DEF IsLastRun, Usable
    <3>3. i \in Index /\ sinks[s][n][i] # "Unbound"
      BY <2>3, <3>1, SettledSources
    <3>4. r[i] = val[s] \/ Stale(s, n, i)
      BY <2>1, <2>3 DEF IsLastRun, LastReads
    <3>5. val'[s] = val[s] \/ Stale(s, n, i)'
      BY <3>1, <3>3, ValuesMove
    <3>6. Stale(s, n, i) => Stale(s, n, i)'
      BY <3>1, <3>3, StaleStays
    <3> QED
      BY <3>4, <3>5, <3>6
  <2>4. LastReads(n, r)'
    <3> SUFFICES ASSUME NEW i \in 1 .. Len(r)
                 PROVE  /\ NextRead(n, Prefix(r, i - 1)) = srcs'[n][i]
                        /\ (r[i] = val[srcs[n][i]] \/ Stale(srcs[n][i], n, i))'
      BY DEF LastReads
    <3>1. i \in 1 .. Len(srcs[n]) /\ pc[n] \in Settling
      BY <1>2, <2>1 DEF IsLastRun, Usable
    <3>2. PICK s \in Source : s = srcs[n][i]
      BY <3>1, SettledSources
    <3>3. s = srcs'[n][i] /\ (r[i] = val'[s] \/ Stale(s, n, i)')
      BY <1>2, <2>3, <3>2
    <3>4. (r[i] = val[srcs[n][i]] \/ Stale(srcs[n][i], n, i))'
      BY <3>3 DEF Stale
    <3> QED
      BY <1>2, <2>1, <3>4 DEF IsLastRun, LastReads
  <2>5. IsLastRun(n, r)'
    BY <1>2, <2>1, <2>2, <2>4 DEF IsLastRun
  <2> QED
    BY <2>5
<1> QED
  BY <1>1, <1>2, UsableSteps

\* What runs read and make holds in every reachable state.
LEMMA SpecValueInv == Spec => [](BaseInv /\ FlagInv /\ ValueInv)
<1>1. Init => ValueInv
  <2> SUFFICES ASSUME Init PROVE ValueInv
    OBVIOUS
  <2>1. \A n \in Sink : pc[n] = "idle" /\ dirty[n] = "Dirty"
    BY NodeSets DEF Init
  <2> QED
    BY <2>1 DEF ValueInv, RunReads, RunEnds, LastRun, Usable, Active
<1>2. BaseInv /\ FlagInv /\ ValueInv /\ [Next]_vars => ValueInv'
  <2> SUFFICES ASSUME BaseInv, FlagInv, ValueInv, [Next]_vars PROVE ValueInv'
    OBVIOUS
  <2>1. EffectStep
    BY StepEffects DEF FlagInv
  <2> QED
    BY <2>1, RunReadsStep, RunEndsStep, LastRunStep DEF ValueInv
<1> QED
  BY <1>1, <1>2, SpecFlagInv, PTL DEF Spec

-----------------------------------------------------------------------------
(* What is clean is what would be computed afresh. *)

\* The source of an entry that a sink may rely on is up to date, and unchanged since it was
\* read, once the notifications are delivered.
LEMMA CleanSource ==
    ASSUME BaseInv, FlagInv, Delivered, NEW n \in Sink, pc[n] \in Settling,
           NEW i \in Index, NEW s \in Source, sinks[s][n][i] = "Clean"
    PROVE  Settled(s) /\ ~Stale(s, n, i)
<1>1. pc[s] # "notify" /\ notifys = <<>>
  BY DEF Delivered
<1>2. ~Stale(s, n, i)
  BY <1>1 DEF Stale
<1>3. CASE s \in Scan
  BY <1>1, <1>2, <1>3
     DEF FlagInv, EntryInv, CleanEntry, CleanEntryAt, BeingRead, Settling, Settled
<1>4. CASE s \in State
  <2>1. s \notin Scan /\ pc[s] = "idle"
    BY <1>1, <1>4, Kinds DEF FlagInv, PhaseInv, NodeCalls
  <2> QED
    BY <1>2, <2>1 DEF Settled
<1> QED
  BY <1>3, <1>4 DEF Source

\* When the sources below a clean sink have the values computed afresh, what it read last is
\* what its closure would read now.
LEMMA CleanOutcome ==
    ASSUME BaseInv, FlagInv, ValueInv, Delivered,
           NEW n \in Sink, pc[n] = "idle", dirty[n] = "Clean", Attended(n),
           \A s \in Below(n) : Settled(s) => val[s] = Fresh(val)[s]
    PROVE  Outcome(n, ReadsOver(Fresh(val), n))
<1>1. PICK r \in Reads : IsLastRun(n, r)
  BY DEF Usable, Settling, ValueInv, LastRun
<1>2. Len(r) \in Nat /\ \A k \in 0 .. Len(r) : Prefix(r, k) \in Reads
  BY Prefixes
<1>3. ASSUME NEW i \in 1 .. Len(r)
      PROVE  /\ NextRead(n, Prefix(r, i - 1)) # Done
             /\ r[i] = Fresh(val)[NextRead(n, Prefix(r, i - 1))]
  <2>1. i \in 1 .. Len(srcs[n]) /\ pc[n] \in Settling
    BY <1>1 DEF IsLastRun, Settling
  <2>2. PICK s \in Source : s = srcs[n][i]
    BY <2>1, SettledSources
  <2>3. i \in Index /\ sinks[s][n][i] # "Unbound"
    BY <2>1, <2>2, SettledSources
  <2>4. sinks[s][n][i] = "Clean"
    <3>1. sinks[s][n][i] \notin {"MaybeDirty", "Dirty"}
      BY <2>1, <2>3 DEF FlagInv, EntryInv, FlagEntry, FlagEntryAt
    <3>2. sinks[s][n][i] \in Entry
      BY <2>3, Before, Types
    <3> QED
      BY <2>3, <3>1, <3>2 DEF Entry, Dirty
  <2>5. Settled(s) /\ ~Stale(s, n, i)
    BY <2>1, <2>3, <2>4, CleanSource
  <2>6. s = NextRead(n, Prefix(r, i - 1)) /\ r[i] = val[s]
    BY <1>1, <2>2, <2>5 DEF IsLastRun, LastReads
  <2>7. s \in Below(n)
    <3>1. Prefix(r, i - 1) \in Reads /\ s # Done
      BY <1>2, NodesAssumption
    <3> QED
      BY <2>6, <3>1, ReadsBelow
  <2> QED
    BY <2>5, <2>6, <2>7, NodesAssumption
<1>4. IsReads(Fresh(val), n, r)
  BY <1>1, <1>3 DEF IsReads, IsLastRun, Outcome
<1> QED
  BY <1>1, <1>4, ReadsOverIs DEF IsLastRun

\* The states are the base of the reference.
LEMMA FreshNow ==
    ASSUME TypeOK
    PROVE  /\ \A s \in Source : Fresh(val)[s] \in Value
           /\ \A s \in State : Fresh(val)[s] = val[s]
           /\ \A s \in Scan : Fresh(val)[s] = Result(s, ReadsOver(Fresh(val), s))
<1>1. \A s \in State : val[s] \in Value
  BY DEF TypeOK
<1> QED
  BY <1>1, FreshValues

\* Every source that is up to date has the value computed afresh.  Were it not so, a source
\* of least rank would differ from the reference although all that it read does not.
LEMMA SettledIsFresh ==
    ASSUME BaseInv, FlagInv, ValueInv, Delivered
    PROVE  \A s \in Source : Settled(s) => val[s] = Fresh(val)[s]
<1> DEFINE S == {s \in Source : Settled(s) /\ val[s] # Fresh(val)[s]}
<1> SUFFICES ASSUME S # {} PROVE FALSE
  OBVIOUS
<1>1. PICK n \in S : \A t \in S : Rank[n] <= Rank[t]
  <2>1. S \in SUBSET Node
    BY NodeSets
  <2> HIDE DEF S
  <2> QED
    BY <2>1, LeastNode
<1>2. TypeOK
  BY Before
<1>3. n \in Scan /\ n \in Sink /\ pc[n] = "idle" /\ dirty[n] = "Clean" /\ Attended(n)
  BY <1>2, FreshNow, NodeSets, Kinds DEF Source, Settled, Attended
<1>4. \A s \in Below(n) : Settled(s) => val[s] = Fresh(val)[s]
  <2> SUFFICES ASSUME NEW s \in Below(n), Settled(s), val[s] # Fresh(val)[s] PROVE FALSE
    OBVIOUS
  <2>1. s \in S /\ Rank[s] < Rank[n] /\ s \in Source
    BY DEF Below
  <2>2. Rank[n] <= Rank[s] /\ Rank[s] \in Nat /\ Rank[n] \in Nat
    BY <1>1, <2>1, RankAssumption, NodeSets
  <2> QED
    BY <2>1, <2>2
<1>5. val[n] = Result(n, ReadsOver(Fresh(val), n))
  BY <1>3, <1>4, CleanOutcome DEF Outcome
<1> QED
  BY <1>2, <1>3, <1>5, FreshNow

\* Once the runtime has delivered the queued notifications, every cache that is clean and
\* not in use holds what its closure computes from the current states, in any graph and
\* however the states were written: ScanNode::update may return such a cache at once.
THEOREM SpecCleanCachesAreFresh == Spec => []CleanCachesAreFresh
<1>1. BaseInv /\ FlagInv /\ ValueInv => CleanCachesAreFresh
  BY SettledIsFresh, NodeSets DEF CleanCachesAreFresh, Settled
<1> QED
  BY <1>1, SpecValueInv, PTL

\* When no work is left every live effect has seen the current states: none was forgotten by
\* a notification, a check that found nothing changed, or a queue.
THEOREM SpecEffectsAreCurrent == Spec => []EffectsAreCurrent
<1>1. BaseInv /\ FlagInv /\ ValueInv /\ PendingInv => EffectsAreCurrent
  <2> SUFFICES ASSUME BaseInv, FlagInv, ValueInv, PendingInv, Quiescent,
                      NEW e \in Effect, life[e] = "live"
               PROVE  obs[e] = View(val, e)
    BY DEF EffectsAreCurrent
  <2>1. TypeOK /\ e \in Sink /\ e \in Node /\ pc[e] = "idle" /\ Attended(e)
    BY Before, NodeSets DEF Quiescent, Quiet, Attended
  <2>2. Delivered
    BY NodeSets DEF Quiescent, Quiet, Delivered
  <2>3. ~IsPending(e)
    BY DEF PendingInv, BatchRt, Quiescent, IsPending, Pending
  <2>4. dirty[e] = "Clean"
    BY <2>1, <2>3 DEF PendingInv, AllQueued, Due
  <2> QED
    <3>1. Outcome(e, ReadsOver(Fresh(val), e))
      BY <2>1, <2>2, <2>4, CleanOutcome, SettledIsFresh DEF Below
    <3> QED
      BY <3>1 DEF Outcome, View
<1> QED
  BY <1>1, SpecValueInv, SpecPendingInv, PTL

-----------------------------------------------------------------------------
(* What calls rely on. *)

\* Checks and closures are under way in a read or in dispatch_reactions only, and both begin
\* when the notifications have been delivered.
CallsRt == \A n \in Sink : pc[n] \in {"check"} \cup Active => rt \in {"get", "reactions"}
NotifysRt == rt \in {"sc", "get", "reactions"} => notifys = <<>>

\* One effect is called at a time, so that no closure drops an effect that is being checked.
OneEffect == \A e, f \in Effect :
                 pc[e] \in {"check"} \cup Active /\ pc[f] \in {"check"} \cup Active => e = f
CheckAttended == \A n \in Sink : pc[n] = "check" => Attended(n)

\* A top-level read asks for a signal.
GetInv == rt = "get" => get \in Scan

ContextInv == CallsRt /\ OneEffect /\ CheckAttended

\* A call begins in a read, in dispatch_reactions or in another call.
LEMMA CallsRtStep ==
    ASSUME BaseInv, CallsRt, EffectStep
    PROVE  CallsRt'
<1> USE DEF graph, calls, sweep, disc, queues, loop, users
<1> SUFFICES ASSUME NEW n \in Sink, pc'[n] \in {"check"} \cup Active
             PROVE  rt' \in {"get", "reactions"}
  BY DEF CallsRt
<1>1. n \in Node /\ (Quiet => pc[n] = "idle") /\ "idle" \notin {"check"} \cup Active
      /\ "notify" \notin {"check"} \cup Active /\ "clear" \notin {"check"} \cup Active
  BY NodeSets DEF Quiet, Active
<1>2. CASE rt' = rt /\ pc'[n] = pc[n]
  BY <1>2 DEF CallsRt
<1>3. ASSUME NEW s \in Source, NotifyDoneEffect(s) \/ \E m \in Sink, i \in Index : NotifyEffect(s, m, i)
      PROVE  rt' = rt /\ pc'[n] = pc[n]
  <2>1. CASE NotifyDoneEffect(s)
    BY <1>1, <2>1 DEF NotifyDoneEffect, Becomes
  <2>2. ASSUME NEW m \in Sink, NEW i \in Index, NotifyEffect(s, m, i)
        PROVE  rt' = rt /\ pc'[n] = pc[n]
    BY <1>1, <2>2 DEF NotifyEffect
  <2> QED
    BY <1>3, <2>1, <2>2
<1>4. ASSUME NEW m \in Sink, NEW c, StartEffect(m, c)
      PROVE  rt' \in {"get", "reactions"}
  BY <1>4 DEF StartEffect, CallsRt, Active
<1>5. ASSUME NEW m \in Sink,
             \/ CheckCleanEffect(m) \/ CheckDoneEffect(m) \/ UnbindEffect(m) \/ TrimEffect(m)
             \/ ClearDoneEffect(m)
      PROVE  rt' = rt /\ pc'[n] = pc[n]
  BY <1>1, <1>5
     DEF CheckCleanEffect, CheckDoneEffect, UnbindEffect, TrimEffect, ClearDoneEffect, Becomes
<1>6. ASSUME NEW m \in Sink,
             \/ CloseEffect(m)
             \/ \E s \in Source : ReadEffect(m, s) \/ \E i \in Index : BindEffect(m, s, i)
      PROVE  rt' \in {"get", "reactions"}
  BY <1>6 DEF ReadEffect, CloseEffect, BindEffect, CallsRt, Active
<1>7. ASSUME \/ \E m \in Sink : BeginClearEffect(m)
             \/ \E s \in State : BeginNotifyEffect(s) \/ LooseEffect(s)
      PROVE  FALSE
  BY <1>1, <1>7 DEF BeginClearEffect, BeginNotifyEffect, LooseEffect, Becomes
<1>8. ASSUME NEW e \in Effect, SubscribeEffect(e) \/ UnsubscribeEffect(e)
      PROVE  rt' = rt /\ pc'[n] = pc[n]
  BY <1>8 DEF SubscribeEffect, UnsubscribeEffect
<1>9. ASSUME StageEffect
      PROVE  rt' = rt /\ pc'[n] = pc[n]
  BY <1>1, <1>9 DEF StageEffect
<1> QED
  BY <1>2, <1>3, <1>4, <1>5, <1>6, <1>7, <1>8, <1>9 DEF EffectStep

\* A notification is queued outside of contexts, and a context opens without any.
LEMMA NotifysRtStep ==
    ASSUME LooseEnds \subseteq {"idle"}, BaseInv, NotifysRt, EffectStep
    PROVE  NotifysRt'
<1> USE DEF graph, calls, sweep, disc, queues, loop, users
<1>1. notifys \in Seq(State) /\ (notifys # <<>> => Tail(notifys) \in Seq(State))
  BY Before DEF TypeOK
<1>2. ASSUME NEW s \in Source, NotifyDoneEffect(s) \/ \E m \in Sink, i \in Index : NotifyEffect(s, m, i)
      PROVE  UNCHANGED <<rt, notifys>>
  <2>1. CASE NotifyDoneEffect(s)
    BY <2>1 DEF NotifyDoneEffect
  <2>2. ASSUME NEW m \in Sink, NEW i \in Index, NotifyEffect(s, m, i)
        PROVE  UNCHANGED <<rt, notifys>>
    BY <2>2 DEF NotifyEffect
  <2> QED
    BY <1>2, <2>1, <2>2
<1>3. ASSUME NEW m \in Sink,
             \/ \E c \in {"check", "run"} : StartEffect(m, c)
             \/ CheckCleanEffect(m) \/ CheckDoneEffect(m) \/ UnbindEffect(m) \/ TrimEffect(m)
             \/ ClearDoneEffect(m) \/ CloseEffect(m)
      PROVE  UNCHANGED <<rt, notifys>>
  BY <1>3 DEF StartEffect, CheckCleanEffect, CheckDoneEffect, UnbindEffect, TrimEffect,
              ClearDoneEffect, CloseEffect
<1>4. ASSUME NEW m \in Sink, NEW s \in Source, ReadEffect(m, s) \/ \E i \in Index : BindEffect(m, s, i)
      PROVE  UNCHANGED <<rt, notifys>>
  BY <1>4 DEF ReadEffect, BindEffect
<1>5. ASSUME NEW m \in Sink, BeginClearEffect(m)
      PROVE  NotifysRt'
  BY <1>5 DEF BeginClearEffect, NotifysRt, Sink
<1>6. ASSUME NEW s \in State, BeginNotifyEffect(s)
      PROVE  NotifysRt'
  BY <1>6 DEF BeginNotifyEffect, NotifysRt
<1>7. ASSUME NEW s \in State, LooseEffect(s)
      PROVE  NotifysRt'
  BY <1>7 DEF LooseEffect, NotifysRt
<1>8. ASSUME NEW e \in Effect, SubscribeEffect(e) \/ UnsubscribeEffect(e)
      PROVE  UNCHANGED <<rt, notifys>>
  BY <1>8 DEF SubscribeEffect, UnsubscribeEffect
<1>9. ASSUME StageEffect
      PROVE  NotifysRt'
  BY <1>9 DEF StageEffect, NotifysRt
<1>10. UNCHANGED <<rt, notifys>> => NotifysRt'
  BY DEF NotifysRt
<1> QED
  BY <1>2, <1>3, <1>4, <1>5, <1>6, <1>7, <1>8, <1>9, <1>10 DEF EffectStep

\* Effects are called one after the other.
LEMMA OneEffectStep ==
    ASSUME BaseInv, FlagInv, OneEffect, CheckAttended, EffectStep
    PROVE  OneEffect' /\ CheckAttended'
<1> USE DEF graph, calls, sweep, disc, queues, loop, users
<1> DEFINE InCall(c) == c \in {"check"} \cup Active
<1>1. ASSUME NEW m \in Sink, NEW c \in {"check", "run"}, StartEffect(m, c)
      PROVE  OneEffect' /\ CheckAttended'
  <2>1. \A x \in Effect : pc'[x] = IF x = m THEN c ELSE pc[x]
    BY <1>1, NodeSets DEF StartEffect, Becomes
  <2>2. UNCHANGED life
    BY <1>1 DEF StartEffect
  <2>3. m \in Effect => InCall(pc[m]) \/ \A x \in Effect : pc[x] = "idle"
    BY <1>1, NodeSets DEF StartEffect, Quiet
  <2>4. OneEffect'
    BY <2>1, <2>3 DEF OneEffect, Active
  <2>5. CheckAttended'
    BY <1>1, <2>1, <2>2, NodeSets DEF StartEffect, Becomes, CheckAttended, Attended
  <2> QED
    BY <2>4, <2>5
<1>2. CASE /\ \A e \in Effect : pc'[e] = pc[e] \/ InCall(pc[e]) \/ ~InCall(pc'[e])
           /\ \A n \in Sink : pc'[n] = "check" => pc[n] = "check"
           /\ UNCHANGED life
  BY <1>2 DEF OneEffect, CheckAttended, Attended
<1>3. ASSUME NEW s \in Source, NotifyDoneEffect(s)
      PROVE  /\ \A e \in Effect : pc'[e] = pc[e] \/ InCall(pc[e]) \/ ~InCall(pc'[e])
             /\ \A n \in Sink : pc'[n] = "check" => pc[n] = "check"
             /\ UNCHANGED life
  BY <1>3, NodeSets DEF NotifyDoneEffect, Becomes, Active
<1>4. ASSUME NEW s \in Source, NEW m \in Sink, NEW i \in Index, NotifyEffect(s, m, i)
      PROVE  /\ \A e \in Effect : pc'[e] = pc[e] \/ InCall(pc[e]) \/ ~InCall(pc'[e])
             /\ \A n \in Sink : pc'[n] = "check" => pc[n] = "check"
             /\ UNCHANGED life
  BY <1>4, NodeSets DEF NotifyEffect, Active
<1>5. ASSUME NEW m \in Sink,
             \/ CheckCleanEffect(m) \/ CheckDoneEffect(m) \/ UnbindEffect(m) \/ TrimEffect(m)
             \/ ClearDoneEffect(m) \/ CloseEffect(m) \/ BeginClearEffect(m)
      PROVE  /\ \A e \in Effect : pc'[e] = pc[e] \/ InCall(pc[e]) \/ ~InCall(pc'[e])
             /\ \A n \in Sink : pc'[n] = "check" => pc[n] = "check"
             /\ UNCHANGED life
  BY <1>5, NodeSets DEF CheckCleanEffect, CheckDoneEffect, UnbindEffect, TrimEffect,
              ClearDoneEffect, CloseEffect, BeginClearEffect, Becomes, Active
<1>6. ASSUME NEW m \in Sink, NEW s \in Source, ReadEffect(m, s) \/ \E i \in Index : BindEffect(m, s, i)
      PROVE  /\ \A e \in Effect : pc'[e] = pc[e] \/ InCall(pc[e]) \/ ~InCall(pc'[e])
             /\ \A n \in Sink : pc'[n] = "check" => pc[n] = "check"
             /\ UNCHANGED life
  BY <1>6, NodeSets DEF ReadEffect, BindEffect, Becomes, Active
<1>7. ASSUME NEW s \in State, BeginNotifyEffect(s) \/ LooseEffect(s)
      PROVE  /\ \A e \in Effect : pc'[e] = pc[e] \/ InCall(pc[e]) \/ ~InCall(pc'[e])
             /\ \A n \in Sink : pc'[n] = "check" => pc[n] = "check"
             /\ UNCHANGED life
  BY <1>7, NodeSets DEF BeginNotifyEffect, LooseEffect, Becomes, Active
<1>8. ASSUME NEW e \in Effect, SubscribeEffect(e)
      PROVE  OneEffect' /\ CheckAttended'
  BY <1>8 DEF SubscribeEffect, Becomes, OneEffect, CheckAttended, Attended
<1>9. ASSUME NEW e \in Effect, UnsubscribeEffect(e)
      PROVE  OneEffect' /\ CheckAttended'
  <2>1. UNCHANGED pc
    BY <1>9 DEF UnsubscribeEffect
  <2>2. pc[e] # "check"
    BY <1>9, NodeSets DEF UnsubscribeEffect, Quiet, OneEffect, Active
  <2>3. \A f \in Effect : f # e => life'[f] = life[f]
    BY <1>9 DEF UnsubscribeEffect, Becomes
  <2> QED
    BY <2>1, <2>2, <2>3 DEF OneEffect, CheckAttended, Attended
<1>10. ASSUME StageEffect
       PROVE  OneEffect' /\ CheckAttended'
  BY <1>10 DEF StageEffect, OneEffect, CheckAttended, Attended
<1> QED
  BY <1>1, <1>2, <1>3, <1>4, <1>5, <1>6, <1>7, <1>8, <1>9, <1>10 DEF EffectStep

\* A top-level read asks for a signal.
LEMMA SpecGetInv == Spec => []GetInv
<1> USE DEF graph, calls, sweep, disc, queues, loop, users
<1>1. Init => GetInv
  BY DEF Init, GetInv
<1>2. ASSUME GetInv, [Next]_vars
      PROVE  GetInv'
  <2>1. CASE UNCHANGED <<rt, get>>
    BY <1>2, <2>1 DEF GetInv
  <2>2. ASSUME NEW n \in Scan, Get(n)
        PROVE  GetInv'
    BY <2>2 DEF Get, GetInv
  <2>3. CASE rt' # "get"
    BY <2>3 DEF GetInv
  <2>4. CASE ActionsDone \/ ReactionsDone \/ DiscardUnbinds \/ DiscardUnbindsDone \/ DiscardsDone
             \/ Discard \/ ApplyDone \/ GetDone \/ Flush \/ OpenContext \/ CloseContext
             \/ \E stage \in {"actions", "apply", "discards"} : Dispatch(stage)
    <3>1. rt' # "get"
      BY <2>4 DEF ActionsDone, ReactionsDone, DiscardUnbinds, DiscardUnbindsDone, DiscardsDone,
                  Discard, ApplyDone, GetDone, Flush, OpenContext, CloseContext, Dispatch, Return
    <3> QED
      BY <2>3, <3>1
  <2>5. ASSUME NEW s \in Source, NotifyDone(s) \/ \E k \in Key : NotifySink(s, k)
        PROVE  UNCHANGED <<rt, get>>
    BY <2>5 DEF NotifyDone, NotifySink
  <2>6. ASSUME NEW n \in Sink, \/ CheckSource(n) \/ CheckDone(n) \/ Bind(n) \/ ReadValue(n)
                               \/ CloseRun(n) \/ UnbindSource(n) \/ TrimDone(n) \/ ClearDone(n)
        PROVE  UNCHANGED <<rt, get>>
    BY <2>6 DEF CheckSource, CheckDone, Bind, ReadValue, CloseRun, UnbindSource, TrimDone, ClearDone
  <2>7. ASSUME \/ \E n \in Scan : ScanUpdate(n)
               \/ RunAction \/ ApplyUnbind \/ ApplyPending \/ RunReaction
        PROVE  UNCHANGED <<rt, get>>
    BY <2>7 DEF ScanUpdate, RunAction, ApplyUnbind, ApplyPending, RunReaction
  <2>8. ASSUME \/ \E s \in State, v \in Value : Set(s, v) \/ SetLoose(s, v) \/ SpawnSet(s, v)
               \/ \E e \in Effect : Subscribe(e) \/ Unsubscribe(e)
        PROVE  UNCHANGED <<rt, get>>
    BY <2>8 DEF Set, SetLoose, SpawnSet, Subscribe, Unsubscribe
  <2> QED
    BY <1>2, <2>1, <2>2, <2>4, <2>5, <2>6, <2>7, <2>8 DEF Next, Internal, Users, vars
<1> QED
  BY <1>1, <1>2, PTL DEF Spec

\* The runtime calls effects one by one, in the stages made for it.
LEMMA SpecContextInv == Spec => []ContextInv
<1>1. Init => ContextInv
  <2> SUFFICES ASSUME Init PROVE ContextInv
    OBVIOUS
  <2>1. \A n \in Sink : pc[n] = "idle"
    BY NodeSets DEF Init
  <2>2. \A e \in Effect : pc[e] = "idle"
    BY <2>1, NodeSets
  <2> QED
    BY <2>1, <2>2 DEF ContextInv, CallsRt, OneEffect, CheckAttended, Active
<1>2. BaseInv /\ FlagInv /\ ContextInv /\ [Next]_vars => ContextInv'
  <2> SUFFICES ASSUME BaseInv, FlagInv, ContextInv, [Next]_vars PROVE ContextInv'
    OBVIOUS
  <2>1. EffectStep
    BY StepEffects DEF FlagInv
  <2> QED
    BY <2>1, CallsRtStep, OneEffectStep DEF ContextInv
<1> QED
  BY <1>1, <1>2, SpecFlagInv, PTL DEF Spec

\* No notification is queued while something is computed.
LEMMA SpecNotifysRt ==
    ASSUME LooseEnds \subseteq {"idle"}
    PROVE  Spec => []NotifysRt
<1>1. Init => NotifysRt
  BY DEF Init, NotifysRt
<1>2. BaseInv /\ FlagInv /\ NotifysRt /\ [Next]_vars => NotifysRt'
  BY StepEffects, NotifysRtStep DEF FlagInv
<1> QED
  BY <1>1, <1>2, SpecFlagInv, PTL DEF Spec

\* Neither do calls meet a notification on its way to the sinks.
LEMMA CallsDelivered ==
    ASSUME BaseInv, FlagInv, ContextInv, NotifysRt,
           NEW n \in Sink, pc[n] \in {"check"} \cup Active
    PROVE  Delivered
<1>1. Computing
  BY CallsCompute DEF FlagInv
<1> QED
  BY <1>1, NodeSets DEF Computing, Delivered, ContextInv, CallsRt, NotifysRt

\* Unless a borrow_mut_loose ends inside a context, no computation sees outdated state: what
\* a running closure has read is at every moment what its sources have on the current
\* states, however the graph changes shape under it, and so is what is read at top level.
THEOREM SpecReadsAreCurrent ==
    ASSUME LooseEnds \subseteq {"idle"}
    PROVE  Spec => []ReadsAreCurrent
<1>1. BaseInv /\ FlagInv /\ ValueInv /\ ContextInv /\ NotifysRt /\ GetInv => ReadsAreCurrent
  <2> SUFFICES ASSUME BaseInv, FlagInv, ValueInv, ContextInv, NotifysRt, GetInv
               PROVE  ReadsAreCurrent
    OBVIOUS
  <2>1. ASSUME rt = "get", Quiet, Settled(get)
        PROVE  val[get] = Fresh(val)[get]
    <3>1. Delivered
      BY <2>1, NodeSets DEF Quiet, Delivered, NotifysRt
    <3> QED
      BY <2>1, <3>1, SettledIsFresh, NodeSets DEF GetInv
  <2>2. ASSUME NEW n \in Sink, pc[n] \in {"run", "read"}, NEW i \in 1 .. Len(seen[n])
        PROVE  seen[n][i] = Fresh(val)[srcs[n][i]]
    <3>1. pc[n] \in Active
      BY <2>2 DEF Active
    <3>2. Delivered
      BY <3>1, CallsDelivered
    <3>3. PICK s \in Source : s = srcs[n][i] /\ Settled(s)
      BY <3>1, ReadSources
    <3>4. seen[n][i] = val[s]
      BY <3>1, <3>3 DEF ValueInv, RunReads, ReadsHold
    <3> QED
      BY <3>2, <3>3, <3>4, SettledIsFresh
  <2> QED
    BY <2>1, <2>2 DEF ReadsAreCurrent, GetsAreCurrent
<1> QED
  BY <1>1, SpecValueInv, SpecContextInv, SpecNotifysRt, SpecGetInv, PTL

\* A check calls ScanNode::update only on a source that the closure reads on the current
\* states, in the same place: nothing is recomputed behind a condition that has changed.
THEOREM SpecChecksFollowCurrentReads ==
    ASSUME LooseEnds \subseteq {"idle"}
    PROVE  Spec => []ChecksFollowCurrentReads
<1>1. BaseInv /\ FlagInv /\ ValueInv /\ ContextInv /\ NotifysRt => ChecksFollowCurrentReads
  <2> SUFFICES ASSUME BaseInv, FlagInv, ValueInv, ContextInv, NotifysRt,
                      NEW n \in Sink, pc[n] = "check", pos[n] <= Len(srcs[n])
               PROVE  NextRead(n, [i \in 1 .. pos[n] - 1 |-> Fresh(val)[srcs[n][i]]])
                      = srcs[n][pos[n]]
    BY DEF ChecksFollowCurrentReads
  <2>1. TypeOK /\ Progress /\ ProgressOf(n)
    BY Before
  <2>2. /\ Len(srcs[n]) \in Nat /\ Len(srcs[n]) <= MaxReads /\ MaxReads \in Nat
        /\ pos[n] \in Nat /\ pos[n] >= 1 /\ srcs[n] \in Seq(Source)
    BY <2>1, SinkTypes
  <2>3. Delivered
    BY CallsDelivered
  <2>4. Usable(n)
    BY <2>1 DEF ProgressOf, Usable, Settling, ContextInv, CheckAttended
  <2>5. PICK r \in Reads : IsLastRun(n, r)
    BY <2>4 DEF ValueInv, LastRun
  <2>6. Len(r) = Len(srcs[n]) /\ pos[n] \in 1 .. Len(r)
    BY <2>2, <2>5 DEF IsLastRun
  <2>7. NextRead(n, Prefix(r, pos[n] - 1)) = srcs[n][pos[n]]
    BY <2>5, <2>6 DEF IsLastRun, LastReads
  <2>8. ASSUME NEW i \in 1 .. pos[n] - 1
        PROVE  r[i] = Fresh(val)[srcs[n][i]]
    <3>1. i \in Index /\ i < pos[n] /\ i <= Len(srcs[n]) /\ i \in 1 .. Len(r)
      BY <2>2, <2>6 DEF Index
    <3>2. PICK s \in Source : s = srcs[n][i]
      BY <2>2, <3>1
    <3>3. sinks[s][n][i] = "Clean"
      BY <3>1, <3>2 DEF FlagInv, EntryInv, CheckedClean
    <3>4. Settled(s) /\ ~Stale(s, n, i)
      BY <2>3, <3>1, <3>3, CleanSource DEF Settling
    <3>5. r[i] = val[s]
      BY <2>5, <3>1, <3>2, <3>4 DEF IsLastRun, LastReads
    <3> QED
      BY <2>3, <3>2, <3>4, <3>5, SettledIsFresh
  <2>9. [i \in 1 .. pos[n] - 1 |-> Fresh(val)[srcs[n][i]]] = Prefix(r, pos[n] - 1)
    BY <2>8 DEF Prefix
  <2> QED
    BY <2>7, <2>9
<1> QED
  BY <1>1, SpecValueInv, SpecContextInv, SpecNotifysRt, PTL

-----------------------------------------------------------------------------
(* The abstract promise. *)

\* A state is written.
LEMMA WriteStep ==
    ASSUME BaseInv, TypeOK', NEW s \in State, UNCHANGED obs,
           \A r \in Source : r # s => val'[r] = val[r]
    PROVE  \E v \in Value : Abstract!Write(s, v)
<1>1. PICK v \in Value : v = val'[s]
  BY DEF TypeOK
<1>2. Abstract!Write(s, v)
  BY <1>1, NodeSets DEF Abstract!Write
<1> QED
  BY <1>2

\* A closure returns: an effect has observed the states of this instant.
LEMMA CloseStep ==
    ASSUME BaseInv, TypeOK', FlagInv, ValueInv, ContextInv, NotifysRt,
           NEW n \in Sink, CloseEffect(n)
    PROVE  \/ UNCHANGED Abstract!vars
           \/ n \in Effect /\ Abstract!Observe(n)
<1> USE DEF graph, calls, sweep, disc, queues, loop, users
<1>1. TypeOK /\ pc[n] \in Active /\ NextRead(n, seen[n]) = Done /\ seen[n] \in Reads
  BY Before, Types DEF CloseEffect, Active
<1>2. CASE n \in Scan
  <2>1. UNCHANGED obs /\ \A s \in State : val'[s] = val[s]
    BY <1>2, NodeSets, Kinds DEF CloseEffect, Becomes
  <2> QED
    BY <2>1 DEF Abstract!vars
<1>3. CASE n \in Effect
  <2>1. n \notin Scan
    BY <1>3, Kinds
  <2>2. /\ UNCHANGED val
        /\ \A e \in Effect : obs'[e] = IF e = n THEN seen[n] ELSE obs[e]
    BY <2>1 DEF CloseEffect, Becomes
  <2>3. IsReads(Fresh(val), n, seen[n])
    <3> SUFFICES ASSUME NEW i \in 1 .. Len(seen[n])
                 PROVE  /\ NextRead(n, Prefix(seen[n], i - 1)) # Done
                        /\ seen[n][i] = Fresh(val)[NextRead(n, Prefix(seen[n], i - 1))]
      BY <1>1 DEF IsReads
    <3>1. PICK s \in Source : s = srcs[n][i] /\ Settled(s)
      BY <1>1, ReadSources
    <3>2. NextRead(n, Prefix(seen[n], i - 1)) = s /\ seen[n][i] = val[s]
      BY <1>1, <3>1 DEF ValueInv, RunReads, ReadsHold
    <3>3. Delivered
      BY <1>1, CallsDelivered
    <3> QED
      BY <3>1, <3>2, <3>3, SettledIsFresh, NodesAssumption
  <2>4. seen[n] = View(val, n)
    BY <2>3, ReadsOverIs DEF View
  <2>5. View([s \in State |-> val[s]], n) = View(val, n)
    BY <1>1, FreshOfStates DEF View, TypeOK
  <2>6. obs' \in [Effect -> Reads] /\ obs \in [Effect -> Reads]
    BY <1>1 DEF TypeOK
  <2>7. obs' = [obs EXCEPT ![n] = View([s \in State |-> val[s]], n)]
    BY <1>3, <2>2, <2>4, <2>5, <2>6
  <2>8. [s \in State |-> val[s]]' = [s \in State |-> val[s]]
    BY <2>2
  <2> QED
    BY <1>3, <2>7, <2>8 DEF Abstract!Observe
<1> QED
  BY <1>2, <1>3 DEF Sink

\* Unless a borrow_mut_loose ends inside a context, the graph implements the specification
\* without caches, flags and queues: every run of an effect, which takes many steps, sees
\* the states of the instant at which its closure returns, all at once.
THEOREM SpecImplementsGlitchFree ==
    ASSUME LooseEnds \subseteq {"idle"}
    PROVE  Spec => ImplementsGlitchFree
<1> USE DEF graph, calls, sweep, disc, queues, loop, users
<1>1. Init => Abstract!Init
  <2> SUFFICES ASSUME Init PROVE Abstract!Init
    OBVIOUS
  <2>1. PICK init \in [State -> Value] :
            val = [s \in Source |-> IF s \in State THEN init[s] ELSE NoValue]
    BY DEF Init
  <2>2. \A s \in State : val[s] \in Value
    BY <2>1, NodeSets
  <2> QED
    BY <2>2 DEF Init, Abstract!Init, Abstract!NotRun
<1>2. BaseInv /\ BaseInv' /\ FlagInv /\ ValueInv /\ ContextInv /\ NotifysRt /\ [Next]_vars
      => [Abstract!Next]_(Abstract!vars)
  <2> SUFFICES ASSUME BaseInv, BaseInv', FlagInv, ValueInv, ContextInv, NotifysRt, [Next]_vars
               PROVE  [Abstract!Next]_(Abstract!vars)
    OBVIOUS
  <2>1. EffectStep /\ TypeOK'
    BY StepEffects DEF FlagInv, BaseInv, CallsInv
  <2>2. ASSUME NEW s \in State, BeginNotifyEffect(s) \/ LooseEffect(s)
        PROVE  Abstract!Next
    <3>1. UNCHANGED obs /\ \A r \in Source : r # s => val'[r] = val[r]
      BY <2>2 DEF BeginNotifyEffect, LooseEffect
    <3> QED
      BY <2>1, <3>1, WriteStep DEF Abstract!Next
  <2>3. ASSUME NEW n \in Sink, CloseEffect(n)
        PROVE  Abstract!Next \/ UNCHANGED Abstract!vars
    <3>1. n \in Effect /\ Abstract!Observe(n) => Abstract!Next
      BY DEF Abstract!Next
    <3> QED
      BY <2>1, <2>3, <3>1, CloseStep
  <2>4. ASSUME NEW n \in Sink, BeginClearEffect(n)
        PROVE  UNCHANGED Abstract!vars
    <3>1. UNCHANGED obs /\ \A s \in State : val'[s] = val[s]
      BY <2>4, NodeSets, Kinds DEF BeginClearEffect
    <3> QED
      BY <3>1 DEF Abstract!vars
  <2>5. UNCHANGED <<val, obs>> => UNCHANGED Abstract!vars
    BY DEF Abstract!vars
  <2>6. ASSUME NEW s \in Source, NotifyDoneEffect(s)
        PROVE  UNCHANGED <<val, obs>>
    BY <2>6 DEF NotifyDoneEffect
  <2>7. ASSUME NEW s \in Source, NEW m \in Sink, NEW i \in Index, NotifyEffect(s, m, i)
        PROVE  UNCHANGED <<val, obs>>
    BY <2>7 DEF NotifyEffect
  <2>8. ASSUME NEW m \in Sink,
               \/ \E c \in {"check", "run"} : StartEffect(m, c)
               \/ CheckCleanEffect(m) \/ CheckDoneEffect(m) \/ UnbindEffect(m) \/ TrimEffect(m)
               \/ ClearDoneEffect(m)
        PROVE  UNCHANGED <<val, obs>>
    BY <2>8 DEF StartEffect, CheckCleanEffect, CheckDoneEffect, UnbindEffect, TrimEffect,
                ClearDoneEffect
  <2>9. ASSUME NEW m \in Sink, NEW s \in Source, ReadEffect(m, s) \/ \E i \in Index : BindEffect(m, s, i)
        PROVE  UNCHANGED <<val, obs>>
    BY <2>9 DEF ReadEffect, BindEffect
  <2>10. ASSUME \/ \E e \in Effect : SubscribeEffect(e) \/ UnsubscribeEffect(e)
                \/ StageEffect
         PROVE  UNCHANGED <<val, obs>>
    BY <2>10 DEF SubscribeEffect, UnsubscribeEffect, StageEffect
  <2> QED
    BY <2>1, <2>2, <2>3, <2>4, <2>5, <2>6, <2>7, <2>8, <2>9, <2>10 DEF EffectStep
<1> QED
  BY <1>1, <1>2, SpecValueInv, SpecContextInv, SpecNotifysRt, PTL DEF Spec, ImplementsGlitchFree, Abstract!Spec

-----------------------------------------------------------------------------
(* What caches and bindings are there for. *)

\* The bindings of an effect that was dropped are going to be removed.
ToUnbind(e) == \E i \in 1 .. Len(unbinds) : unbinds[i] = e
DroppedUnbinds ==
    \A e \in Effect : life[e] = "dropped" /\ pc[e] = "idle" /\ srcs[e] # <<>> => ToUnbind(e)

\* A signal has bindings only together with a cache, unless it is being computed or discarded.
CachedBindings ==
    \A n \in Scan : pc[n] \in Settling \cup {"trim"} /\ srcs[n] # <<>> => val[n] # NoValue

\* An effect without its node keeps its bindings only while it is queued for unbinding.
LEMMA DroppedUnbindsStep ==
    ASSUME BaseInv, FlagInv, ContextInv, DroppedUnbinds, EffectStep
    PROVE  DroppedUnbinds'
<1> USE DEF graph, calls, sweep, disc, queues, loop, users
<1> SUFFICES ASSUME NEW e \in Effect, life'[e] = "dropped", pc'[e] = "idle", srcs'[e] # <<>>
             PROVE  ToUnbind(e)'
  BY DEF DroppedUnbinds
<1>1. TypeOK /\ e \in Node /\ e \in Sink /\ e \notin Source /\ unbinds \in Seq(Effect)
  BY Before, NodeSets DEF TypeOK
<1>2. \A x \in Effect : unbinds' = Append(unbinds, x) => ToUnbind(x)' /\ (ToUnbind(e) => ToUnbind(e)')
  <2> SUFFICES ASSUME NEW x \in Effect, unbinds' = Append(unbinds, x)
               PROVE  ToUnbind(x)' /\ (ToUnbind(e) => ToUnbind(e)')
    OBVIOUS
  <2>1. /\ Len(unbinds) \in Nat /\ Len(unbinds') = Len(unbinds) + 1
        /\ unbinds'[Len(unbinds) + 1] = x
        /\ \A k \in 1 .. Len(unbinds) : unbinds'[k] = unbinds[k]
    BY <1>1, AppendProperties
  <2> QED
    BY <2>1 DEF ToUnbind
<1>3. UNCHANGED unbinds /\ ToUnbind(e) => ToUnbind(e)'
  BY DEF ToUnbind
<1>4. life[e] = "dropped" /\ pc[e] = "idle" /\ srcs[e] # <<>> => ToUnbind(e)
  BY DEF DroppedUnbinds
<1> DEFINE Same == UNCHANGED unbinds /\ life[e] = "dropped" /\ pc[e] = "idle" /\ srcs[e] # <<>>
<1>5. ASSUME NEW s \in Source, NotifyDoneEffect(s)
      PROVE  Same
  BY <1>1, <1>5 DEF NotifyDoneEffect, Becomes
<1>6. ASSUME NEW s \in Source, NEW m \in Sink, NEW i \in Index, NotifyEffect(s, m, i)
      PROVE  Same
  BY <1>1, <1>6 DEF NotifyEffect
<1>7. ASSUME NEW m \in Sink, NEW c \in {"check", "run"}, StartEffect(m, c)
      PROVE  Same
  BY <1>1, <1>7 DEF StartEffect, Becomes
<1>8. ASSUME NEW m \in Sink, CheckDoneEffect(m)
      PROVE  Same
  BY <1>1, <1>8 DEF CheckDoneEffect, Becomes, ContextInv, CheckAttended, Attended
<1>9. ASSUME NEW m \in Sink, CheckCleanEffect(m) \/ CloseEffect(m) \/ UnbindEffect(m)
      PROVE  Same
  BY <1>1, <1>9 DEF CheckCleanEffect, CloseEffect, UnbindEffect, Becomes
<1>10. ASSUME NEW m \in Sink, NEW s \in Source, ReadEffect(m, s) \/ \E i \in Index : BindEffect(m, s, i)
       PROVE  Same
  BY <1>1, <1>10 DEF ReadEffect, BindEffect, Becomes
<1>11. ASSUME NEW m \in Sink, TrimEffect(m)
       PROVE  ToUnbind(e)'
  <2>1. CASE m = e
    <3>1. seen[e] # <<>>
      <4>1. srcs'[e] = SubSeq(srcs[e], 1, Len(seen[e])) /\ srcs[e] \in Seq(Source)
        BY <1>1, <1>11, <2>1, Before DEF TrimEffect, Becomes
      <4>2. SubSeq(srcs[e], 1, 0) = <<>>
        BY <4>1
      <4> QED
        BY <4>1, <4>2
    <3>2. life[e] = "dropped" /\ unbinds' = Append(unbinds, e)
      BY <1>11, <2>1, <3>1 DEF TrimEffect
    <3> QED
      BY <1>2, <3>2
  <2>2. CASE m # e
    <3>1. life[e] = "dropped" /\ pc[e] = "idle" /\ srcs[e] # <<>>
      BY <1>1, <1>11, <2>2 DEF TrimEffect, Becomes
    <3>2. UNCHANGED unbinds \/ (m \in Effect /\ unbinds' = Append(unbinds, m))
      BY <1>11 DEF TrimEffect
    <3> QED
      BY <1>2, <1>3, <1>4, <3>1, <3>2
  <2> QED
    BY <2>1, <2>2
<1>12. ASSUME NEW m \in Sink, ClearDoneEffect(m)
       PROVE  Same
  BY <1>1, <1>12 DEF ClearDoneEffect, Becomes
<1>13. ASSUME NEW m \in Sink, BeginClearEffect(m)
       PROVE  ToUnbind(e)'
  <2>1. m # e /\ life[e] = "dropped" /\ pc[e] = "idle" /\ srcs[e] # <<>>
    BY <1>1, <1>13 DEF BeginClearEffect, Becomes
  <2>2. PICK i \in 1 .. Len(unbinds) : unbinds[i] = e
    BY <1>4, <2>1 DEF ToUnbind
  <2>3. CASE unbinds # <<>> /\ m = Head(unbinds) /\ unbinds' = Tail(unbinds)
    <3>1. /\ Head(unbinds) = unbinds[1] /\ Len(unbinds') = Len(unbinds) - 1
          /\ \A x \in 1 .. Len(unbinds) - 1 : unbinds'[x] = unbinds[x + 1]
          /\ Len(unbinds) \in Nat
      BY <1>1, <2>3, HeadTailProperties
    <3>2. i # 1
      BY <2>1, <2>2, <2>3, <3>1
    <3>3. i - 1 \in 1 .. Len(unbinds') /\ unbinds'[i - 1] = e
      BY <2>2, <3>1, <3>2
    <3> QED
      BY <3>3 DEF ToUnbind
  <2> QED
    BY <1>3, <1>4, <1>13, <2>1, <2>3 DEF BeginClearEffect
<1>14. ASSUME NEW s \in State, BeginNotifyEffect(s) \/ LooseEffect(s)
       PROVE  Same
  BY <1>1, <1>14, NodeSets DEF BeginNotifyEffect, LooseEffect, Becomes
<1>15. ASSUME NEW f \in Effect, SubscribeEffect(f)
       PROVE  Same
  BY <1>1, <1>15 DEF SubscribeEffect, Becomes
<1>16. ASSUME NEW f \in Effect, UnsubscribeEffect(f)
       PROVE  ToUnbind(e)'
  <2>1. CASE f = e
    BY <1>2, <1>16, <2>1 DEF UnsubscribeEffect
  <2>2. CASE f # e
    <3>1. life[e] = "dropped" /\ pc[e] = "idle" /\ srcs[e] # <<>>
      BY <1>16, <2>2 DEF UnsubscribeEffect, Becomes
    <3> QED
      BY <1>2, <1>3, <1>4, <1>16, <3>1 DEF UnsubscribeEffect
  <2> QED
    BY <2>1, <2>2
<1>17. ASSUME StageEffect
       PROVE  Same
  BY <1>17 DEF StageEffect
<1> QED
  BY <1>3, <1>4, <1>5, <1>6, <1>7, <1>8, <1>9, <1>10, <1>11, <1>12, <1>13, <1>14, <1>15, <1>16, <1>17
     DEF EffectStep

\* A cache is discarded together with the bindings of its signal.
LEMMA CachedBindingsStep ==
    ASSUME BaseInv, FlagInv, CachedBindings, EffectStep
    PROVE  CachedBindings'
<1> USE DEF graph, calls, sweep, disc, queues, loop, users
<1> SUFFICES ASSUME NEW n \in Scan, pc'[n] \in Settling \cup {"trim"}, srcs'[n] # <<>>
             PROVE  val'[n] # NoValue
  BY DEF CachedBindings
<1>1. /\ TypeOK /\ n \in Node /\ n \in Sink /\ n \in Source /\ n \notin State /\ n \notin Effect
      /\ seen[n] \in Reads /\ srcs[n] \in Seq(Source)
  BY Before, NodeSets, Kinds, Types
<1> DEFINE Same == val'[n] = val[n] /\ pc[n] \in Settling \cup {"trim"} /\ srcs[n] # <<>>
<1>2. Same => val'[n] # NoValue
  BY DEF CachedBindings
<1>3. ASSUME NEW s \in Source, NotifyDoneEffect(s)
      PROVE  Same
  BY <1>1, <1>3 DEF NotifyDoneEffect, Becomes, Settling
<1>4. ASSUME NEW s \in Source, NEW m \in Sink, NEW i \in Index, NotifyEffect(s, m, i)
      PROVE  Same
  BY <1>1, <1>4 DEF NotifyEffect, Settling
<1>5. ASSUME NEW m \in Sink, NEW c \in {"check", "run"}, StartEffect(m, c)
      PROVE  Same
  BY <1>1, <1>5 DEF StartEffect, Becomes, Settling
<1>6. ASSUME NEW m \in Sink,
             CheckCleanEffect(m) \/ CheckDoneEffect(m) \/ UnbindEffect(m) \/ ClearDoneEffect(m)
      PROVE  Same
  BY <1>1, <1>6 DEF CheckCleanEffect, CheckDoneEffect, UnbindEffect, ClearDoneEffect, Becomes, Settling
<1>7. ASSUME NEW m \in Sink, NEW s \in Source, ReadEffect(m, s) \/ \E i \in Index : BindEffect(m, s, i)
      PROVE  Same
  BY <1>1, <1>7 DEF ReadEffect, BindEffect, Becomes, Settling
<1>8. ASSUME NEW m \in Sink, CloseEffect(m)
      PROVE  val'[n] # NoValue
  <2>1. CASE m = n
    <3>1. val'[n] = Result(n, seen[n])
      BY <1>1, <1>8, <2>1 DEF CloseEffect, Becomes
    <3> QED
      BY <1>1, <3>1, ClosureAssumption, NodesAssumption
  <2>2. CASE m # n
    <3>1. Same
      BY <1>1, <1>8, <2>2 DEF CloseEffect, Becomes
    <3> QED
      BY <1>2, <3>1
  <2> QED
    BY <2>1, <2>2
<1>9. ASSUME NEW m \in Sink, TrimEffect(m)
      PROVE  Same
  <2>1. SubSeq(<<>>, 1, Len(seen[n])) = <<>> \/ srcs[n] # <<>>
    <3>1. Len(seen[n]) \in Nat /\ Len(seen[n]) <= Len(srcs[n])
      BY <1>1, Before DEF ProgressOf
    <3>2. SubSeq(<<>>, 1, 0) = <<>>
      OBVIOUS
    <3> QED
      BY <3>1, <3>2
  <2> QED
    BY <1>1, <1>9, <2>1 DEF TrimEffect, Becomes
<1>10. ASSUME NEW m \in Sink, BeginClearEffect(m)
       PROVE  Same
  <2>1. m # n
    BY <1>1, <1>10 DEF BeginClearEffect, Becomes, Settling
  <2> QED
    BY <1>1, <1>10, <2>1 DEF BeginClearEffect, Becomes, Sink
<1>11. ASSUME NEW s \in State, BeginNotifyEffect(s) \/ LooseEffect(s)
       PROVE  Same
  BY <1>1, <1>11, NodeSets DEF BeginNotifyEffect, LooseEffect, Becomes
<1>12. ASSUME NEW f \in Effect, SubscribeEffect(f) \/ UnsubscribeEffect(f)
       PROVE  Same
  BY <1>1, <1>12 DEF SubscribeEffect, UnsubscribeEffect
<1>13. ASSUME StageEffect
       PROVE  Same
  BY <1>13 DEF StageEffect
<1> QED
  BY <1>2, <1>3, <1>4, <1>5, <1>6, <1>7, <1>8, <1>9, <1>10, <1>11, <1>12, <1>13 DEF EffectStep

\* When no work is left, every cache has a user, and no effect that was dropped is one: each
\* binding that a dropped node leaves behind is removed, and each cache that is left without
\* sinks is discarded, together with its own bindings.
THEOREM SpecNoOrphanCache == Spec => []NoOrphanCache
<1> DEFINE LifeInv == DroppedUnbinds /\ CachedBindings
<1>1. Init => LifeInv
  <2>1. Init => \A n \in Sink : srcs[n] = <<>>
    BY DEF Init
  <2> QED
    BY <2>1, NodeSets DEF DroppedUnbinds, CachedBindings
<1>2. BaseInv /\ FlagInv /\ ContextInv /\ LifeInv /\ [Next]_vars => LifeInv'
  <2> SUFFICES ASSUME BaseInv, FlagInv, ContextInv, LifeInv, [Next]_vars PROVE LifeInv'
    OBVIOUS
  <2>1. EffectStep
    BY StepEffects DEF FlagInv
  <2> QED
    BY <2>1, DroppedUnbindsStep, CachedBindingsStep
<1>3. BaseInv /\ FlagInv /\ LifeInv /\ UnusedCacheIsScheduled /\ ScheduledOnce => NoOrphanCache
  <2> SUFFICES ASSUME BaseInv, FlagInv, LifeInv, UnusedCacheIsScheduled, ScheduledOnce, Quiescent
               PROVE  /\ \A n \in Scan \ Keep : val[n] # NoValue =>
                             \E k \in Bound(n) : IF k[1] \in Effect THEN life[k[1]] = "live"
                                                                    ELSE val[k[1]] # NoValue
                      /\ \A s \in Source : \A k \in Bound(s) : k[1] \in Effect => life[k[1]] = "live"
    BY DEF NoOrphanCache
  <2>1. TypeOK /\ BindingsAgree /\ \A n \in Sink : pc[n] = "idle"
    BY Before DEF Quiescent, Quiet
  <2>2. ASSUME NEW s \in Source, NEW n \in Sink, NEW i \in Index, <<n, i>> \in Bound(s)
        PROVE  srcs[n] # <<>>
    <3>1. sinks[s][n][i] # "Unbound"
      BY <2>2 DEF Bound
    <3>2. i <= Len(srcs[n]) /\ i \in Nat /\ i >= 1
      BY <2>1, <3>1, NodesAssumption DEF BindingsAgree, Index
    <3> QED
      BY <3>2
  <2>3. ASSUME NEW s \in Source, NEW e \in Effect, NEW i \in Index, <<e, i>> \in Bound(s)
        PROVE  life[e] = "live"
    <3>1. srcs[e] # <<>> /\ pc[e] = "idle" /\ life[e] \in {"new", "live", "dropped"}
      BY <2>1, <2>2, <2>3, NodeSets, Types
    <3>2. life[e] # "new"
      BY <3>1 DEF FlagInv, PhaseInv, NewEffect
    <3>3. life[e] # "dropped"
      BY <3>1 DEF DroppedUnbinds, ToUnbind, Quiescent
    <3> QED
      BY <3>1, <3>2, <3>3
  <2>4. ASSUME NEW n \in Scan \ Keep, val[n] # NoValue
        PROVE  \E k \in Bound(n) : IF k[1] \in Effect THEN life[k[1]] = "live"
                                                      ELSE val[k[1]] # NoValue
    <3>1. ~scheduled[n]
      BY DEF ScheduledOnce, Quiescent
    <3>2. ~NoSinks(sinks[n])
      BY <2>4, <3>1 DEF UnusedCacheIsScheduled
    <3>3. PICK m \in Sink, i \in Index : sinks[n][m][i] # "Unbound"
      BY <3>2 DEF NoSinks
    <3>4. <<m, i>> \in Bound(n) /\ n \in Source
      BY <3>3, NodeSets DEF Bound, Key
    <3>5. CASE m \in Effect
      BY <2>3, <3>4, <3>5
    <3>6. CASE m \in Scan
      <4>1. val[m] # NoValue /\ m \notin Effect
        BY <2>1, <2>2, <3>4, <3>6, Kinds DEF CachedBindings, Settling
      <4> QED
        BY <3>4, <4>1
    <3> QED
      BY <3>5, <3>6 DEF Sink
  <2>5. ASSUME NEW s \in Source, NEW k \in Bound(s), k[1] \in Effect
        PROVE  life[k[1]] = "live"
    <3>1. k = <<k[1], k[2]>> /\ k[2] \in Index
      BY DEF Bound, Key
    <3> QED
      BY <2>3, <2>5, <3>1
  <2> QED
    BY <2>4, <2>5
<1> HIDE DEF LifeInv
<1> QED
  BY <1>1, <1>2, <1>3, SpecFlagInv, SpecContextInv, SpecUnusedCacheIsScheduled, SpecScheduledOnce, PTL
     DEF Spec

-----------------------------------------------------------------------------
(* What makes a closure run. *)

\* A dedup signal only tells its sinks that it may have changed.
DedupLevel == \A s \in Dedup : pc[s] = "notify" => level[s] = "MaybeDirty"

\* An entry of a dedup signal says that it has changed, or is about to.
Changed(s, n, i) == \/ sinks[s][n][i] = "Dirty"
                    \/ sinks[s][n][i] = "MaybeDirty" /\ pc[s] = "trim" /\ result[s]
MovedEntry ==
    \A s \in Dedup, n \in Sink, i \in Index :
        pc[n] \in Settling /\ Changed(s, n, i) => n \in moved

\* A sink is dirty at once only by a source that does not compare its values.
OnlyDedup(n) == srcs[n] # <<>> /\ \A i \in 1 .. Len(srcs[n]) : srcs[n][i] \in Dedup
MovedDirty ==
    \A n \in Sink : pc[n] \in Settling /\ dirty[n] = "Dirty" /\ OnlyDedup(n) => n \in moved

MovedInv == DedupLevel /\ MovedEntry /\ MovedDirty

\* Sweeps keep the level of dedup signals.
LEMMA DedupLevelStep ==
    ASSUME BaseInv, FlagInv, DedupLevel, EffectStep
    PROVE  DedupLevel'
<1> USE DEF graph, calls, sweep, disc, queues, loop, users
<1> SUFFICES ASSUME NEW s \in Dedup, pc'[s] = "notify"
             PROVE  level'[s] = "MaybeDirty"
  BY DEF DedupLevel
<1>1. /\ TypeOK /\ s \in Node /\ s \in Source /\ s \in Scan /\ s \notin State
      /\ (pc[s] = "notify" => level[s] = "MaybeDirty")
  BY Before, NodeSets, Kinds, NodesAssumption DEF DedupLevel
<1>2. ASSUME NEW r \in Source, NEW m \in Sink, NEW i \in Index, NotifyEffect(r, m, i)
      PROVE  level'[s] = "MaybeDirty"
  <2>1. MaybeIf(level[r], TRUE) = "MaybeDirty"
    BY DEF MaybeIf
  <2> QED
    BY <1>1, <1>2, <2>1 DEF NotifyEffect
<1>3. ASSUME NEW r \in Source, NotifyDoneEffect(r)
      PROVE  level'[s] = "MaybeDirty"
  BY <1>1, <1>3 DEF NotifyDoneEffect, Becomes
<1>4. ASSUME NEW m \in Sink,
             \/ \E c \in {"check", "run"} : StartEffect(m, c)
             \/ CheckCleanEffect(m) \/ CheckDoneEffect(m)
      PROVE  level'[s] = level[s] /\ pc[s] = "notify"
  BY <1>1, <1>4 DEF StartEffect, CheckCleanEffect, CheckDoneEffect, Becomes
<1>5. ASSUME NEW m \in Sink,
             \/ UnbindEffect(m) \/ TrimEffect(m) \/ ClearDoneEffect(m) \/ CloseEffect(m)
             \/ BeginClearEffect(m)
      PROVE  level'[s] = level[s] /\ pc[s] = "notify"
  BY <1>1, <1>5
     DEF UnbindEffect, TrimEffect, ClearDoneEffect, CloseEffect, BeginClearEffect, Becomes
<1>6. ASSUME NEW m \in Sink, NEW r \in Source, ReadEffect(m, r) \/ \E i \in Index : BindEffect(m, r, i)
      PROVE  level'[s] = level[s] /\ pc[s] = "notify"
  BY <1>1, <1>6 DEF ReadEffect, BindEffect, Becomes
<1>7. ASSUME NEW r \in State, BeginNotifyEffect(r) \/ LooseEffect(r)
      PROVE  level'[s] = level[s] /\ pc[s] = "notify"
  BY <1>1, <1>7 DEF BeginNotifyEffect, LooseEffect, Becomes
<1>8. ASSUME \/ \E e \in Effect : SubscribeEffect(e) \/ UnsubscribeEffect(e)
             \/ StageEffect
      PROVE  level'[s] = level[s] /\ pc[s] = "notify"
  BY <1>8 DEF SubscribeEffect, UnsubscribeEffect, StageEffect
<1> QED
  BY <1>1, <1>2, <1>3, <1>4, <1>5, <1>6, <1>7, <1>8 DEF EffectStep

\* After a run no entry of the sink is flagged, and after the bindings are cleared none is left.
LEMMA EntriesAfter ==
    ASSUME BaseInv, FlagInv, NEW n \in Sink, pc[n] \in {"trim", "clear"}, pos[n] > Len(srcs[n]),
           NEW s \in Source, NEW i \in Index
    PROVE  sinks[s][n][i] \in {"Clean", "Unbound"}
<1>1. BindingsAgree /\ pos[n] \in Nat /\ Len(srcs[n]) \in Nat /\ Len(seen[n]) \in Nat /\ ProgressOf(n)
  BY Before
<1>2. CASE sinks[s][n][i] # "Unbound"
  <2>1. i <= Len(srcs[n]) /\ srcs[n][i] = s /\ (i <= Len(seen[n]) \/ i >= pos[n]) /\ i \in Nat
    BY <1>1, <1>2, NodesAssumption DEF BindingsAgree, Index
  <2>2. i <= Len(seen[n]) /\ pc[n] = "trim"
    BY <1>1, <2>1 DEF ProgressOf, Index
  <2> QED
    BY <2>1, <2>2 DEF FlagInv, EntryInv, ReadClean, Active
<1> QED
  BY <1>2

\* An entry of a dedup signal is set dirty for a reader whose source has changed.
LEMMA MovedEntryStep ==
    ASSUME BaseInv, FlagInv, DedupLevel, MovedEntry, EffectStep
    PROVE  MovedEntry'
<1> USE DEF graph, calls, sweep, disc, queues, loop, users
<1> SUFFICES ASSUME NEW s \in Dedup, NEW n \in Sink, NEW i \in Index,
                    pc'[n] \in Settling, Changed(s, n, i)'
             PROVE  n \in moved'
  BY DEF MovedEntry
<1>1. /\ TypeOK /\ s \in Node /\ s \in Source /\ s \in Scan /\ s \in Sink /\ s \notin State
      /\ n \in Node
  BY Before, NodeSets, Kinds, NodesAssumption
<1> DEFINE Was == pc[n] \in Settling /\ Changed(s, n, i)
<1>2. Was /\ (n \in moved => n \in moved') => n \in moved'
  BY DEF MovedEntry
<1>3. ASSUME NEW r \in Source, NEW m \in Sink, NEW j \in Index, NotifyEffect(r, m, j)
      PROVE  Was /\ moved' = moved
  <2>1. pc[n] \in Settling /\ pc'[s] # "trim" /\ moved' = moved
    BY <1>1, <1>3 DEF NotifyEffect, Settling
  <2>2. r \in Dedup => level[r] = "MaybeDirty"
    BY <1>3 DEF NotifyEffect, DedupLevel
  <2>3. sinks'[s][n][i] = "Dirty" => sinks[s][n][i] = "Dirty"
    BY <1>1, <1>3, <2>2 DEF NotifyEffect, EntryBecomes, ApplyNotify
  <2> QED
    BY <2>1, <2>3 DEF Changed
<1>4. ASSUME NEW r \in Source, NotifyDoneEffect(r)
      PROVE  Was /\ moved' = moved
  BY <1>1, <1>4 DEF NotifyDoneEffect, Becomes, Settling, Changed
<1>5. ASSUME NEW m \in Sink, NEW c \in {"check", "run"}, StartEffect(m, c)
      PROVE  Was /\ (n \in moved => n \in moved')
  BY <1>1, <1>5 DEF StartEffect, Becomes, Settling, Changed
<1>6. ASSUME NEW m \in Sink, CheckCleanEffect(m)
      PROVE  Was /\ moved' = moved
  BY <1>1, <1>6 DEF CheckCleanEffect, Changed
<1>7. ASSUME NEW m \in Sink, CheckDoneEffect(m)
      PROVE  Was /\ moved' = moved
  BY <1>1, <1>7 DEF CheckDoneEffect, ResolvedTo, FromIsDirty, Becomes, Settling, Changed
<1>8. ASSUME NEW m \in Sink, NEW r \in Source, NEW j \in Index, BindEffect(m, r, j)
      PROVE  Was /\ moved' = moved
  <2>1. n # m
    BY <1>1, <1>8 DEF BindEffect, Becomes, Settling
  <2> QED
    BY <1>1, <1>8, <2>1 DEF BindEffect, Becomes, Settling, Changed
<1>9. ASSUME NEW m \in Sink, NEW r \in Source, ReadEffect(m, r)
      PROVE  Was /\ moved' = moved
  BY <1>1, <1>9 DEF ReadEffect, Becomes, Settling, Changed
<1>10. ASSUME NEW m \in Sink, CloseEffect(m)
       PROVE  n \in moved'
  <2>1. n # m /\ pc[n] \in Settling /\ UNCHANGED sinks
    BY <1>1, <1>10 DEF CloseEffect, Becomes, Settling
  <2>2. moved \subseteq moved'
    BY <1>10 DEF CloseEffect
  <2>3. CASE s # m
    BY <1>1, <1>2, <1>10, <2>1, <2>2, <2>3 DEF CloseEffect, Becomes, Changed
  <2>4. CASE s = m
    <3>1. CASE sinks[s][n][i] = "Dirty"
      BY <1>2, <2>1, <2>2, <3>1 DEF Changed
    <3>2. CASE sinks[s][n][i] # "Dirty"
      <4>1. sinks[s][n][i] = "MaybeDirty" /\ result'[s]
        BY <2>1, <3>2 DEF Changed
      <4>2. val[s] # Result(s, seen[s]) /\ moved' = moved \cup Readers(s)
        BY <1>1, <1>10, <2>4, <4>1 DEF CloseEffect, Becomes
      <4>3. i \in 1 .. Len(srcs[n]) /\ srcs[n][i] = s
        BY <1>1, <4>1, Before, NodesAssumption DEF BindingsAgree, Index
      <4> QED
        BY <2>1, <4>2, <4>3 DEF Readers, Settling
    <3> QED
      BY <3>1, <3>2
  <2> QED
    BY <2>3, <2>4
<1>11. ASSUME NEW m \in Sink, UnbindEffect(m)
       PROVE  Was /\ moved' = moved
  BY <1>1, <1>11 DEF UnbindEffect, EntryBecomes, Changed
<1>12. ASSUME NEW m \in Sink, TrimEffect(m)
       PROVE  n \in moved'
  <2>1. n # m
    BY <1>1, <1>12, EntriesAfter DEF TrimEffect, ResolvedTo, Changed
  <2> QED
    BY <1>1, <1>2, <1>12, <2>1 DEF TrimEffect, ResolvedTo, FromIsDirty, Becomes, Settling, Changed
<1>13. ASSUME NEW m \in Sink, ClearDoneEffect(m)
       PROVE  n \in moved'
  <2>1. n # m
    BY <1>1, <1>13, EntriesAfter DEF ClearDoneEffect, Changed
  <2> QED
    BY <1>1, <1>2, <1>13, <2>1 DEF ClearDoneEffect, Becomes, Settling, Changed
<1>14. ASSUME NEW m \in Sink, BeginClearEffect(m)
       PROVE  Was /\ moved' = moved
  BY <1>1, <1>14 DEF BeginClearEffect, Becomes, Settling, Changed
<1>15. ASSUME NEW r \in State, BeginNotifyEffect(r) \/ LooseEffect(r)
       PROVE  Was /\ moved \subseteq moved'
  BY <1>1, <1>15, NodeSets DEF BeginNotifyEffect, LooseEffect, Becomes, Settling, Changed
<1>16. ASSUME NEW e \in Effect, SubscribeEffect(e) \/ UnsubscribeEffect(e)
       PROVE  Was /\ moved' = moved
  BY <1>16 DEF SubscribeEffect, UnsubscribeEffect, Changed
<1>17. ASSUME StageEffect
       PROVE  Was /\ moved' = moved
  BY <1>17 DEF StageEffect, Changed
<1> QED
  BY <1>2, <1>3, <1>4, <1>5, <1>6, <1>7, <1>8, <1>9, <1>10, <1>11, <1>12, <1>13, <1>14, <1>15,
     <1>16, <1>17 DEF EffectStep

\* A sink is set dirty at once by a source that does not compare its values.
LEMMA MovedDirtyStep ==
    ASSUME BaseInv, FlagInv, DedupLevel, MovedDirty, EffectStep
    PROVE  MovedDirty'
<1> USE DEF graph, calls, sweep, disc, queues, loop, users
<1> SUFFICES ASSUME NEW n \in Sink, pc'[n] \in Settling, dirty'[n] = "Dirty", OnlyDedup(n)'
             PROVE  n \in moved'
  BY DEF MovedDirty
<1>1. TypeOK /\ n \in Node /\ n \notin State
  BY Before, NodeSets, Kinds
<1> DEFINE Was == pc[n] \in Settling /\ dirty[n] = "Dirty" /\ srcs'[n] = srcs[n]
<1>2. Was /\ (n \in moved => n \in moved') => n \in moved'
  BY DEF MovedDirty, OnlyDedup
<1>3. ASSUME NEW r \in Source, NEW m \in Sink, NEW j \in Index, NotifyEffect(r, m, j)
      PROVE  Was /\ moved' = moved
  <2>1. pc[n] \in Settling /\ srcs' = srcs /\ moved' = moved
    BY <1>1, <1>3 DEF NotifyEffect, Settling
  <2>2. CASE m # n
    BY <1>1, <1>3, <2>1, <2>2 DEF NotifyEffect
  <2>3. CASE m = n /\ dirty[n] # "Dirty"
    <3>1. level[r] = "Dirty" /\ pc[r] = "notify" /\ sinks[r][n][j] # "Unbound"
      BY <1>3, <2>3 DEF NotifyEffect, ApplyNotify
    <3>2. r \notin Dedup
      BY <3>1 DEF DedupLevel
    <3>3. j \in 1 .. Len(srcs[n]) /\ srcs[n][j] = r
      BY <3>1, Before, NodesAssumption DEF BindingsAgree, Index
    <3>4. srcs'[n] = srcs[n]
      BY <2>1
    <3> QED
      BY <3>2, <3>3, <3>4 DEF OnlyDedup
  <2> QED
    BY <2>1, <2>2, <2>3
<1>4. ASSUME NEW r \in Source, NotifyDoneEffect(r)
      PROVE  Was /\ moved' = moved
  BY <1>1, <1>4 DEF NotifyDoneEffect, Becomes, Settling
<1>5. ASSUME NEW m \in Sink, NEW c \in {"check", "run"}, StartEffect(m, c)
      PROVE  Was /\ (n \in moved => n \in moved')
  BY <1>1, <1>5 DEF StartEffect, Becomes, Settling
<1>6. ASSUME NEW m \in Sink, CheckCleanEffect(m) \/ CheckDoneEffect(m) \/ UnbindEffect(m)
      PROVE  Was /\ moved' = moved
  BY <1>1, <1>6 DEF CheckCleanEffect, CheckDoneEffect, UnbindEffect, Becomes, Settling
<1>7. ASSUME NEW m \in Sink, NEW r \in Source, NEW j \in Index, BindEffect(m, r, j)
      PROVE  Was /\ moved' = moved
  BY <1>1, <1>7 DEF BindEffect, Becomes, Settling
<1>8. ASSUME NEW m \in Sink, NEW r \in Source, ReadEffect(m, r)
      PROVE  Was /\ moved' = moved
  BY <1>1, <1>8 DEF ReadEffect, Becomes, Settling
<1>9. ASSUME NEW m \in Sink, CloseEffect(m)
      PROVE  Was /\ moved \subseteq moved'
  BY <1>1, <1>9 DEF CloseEffect, Becomes, Settling
<1>10. ASSUME NEW m \in Sink, TrimEffect(m)
       PROVE  Was /\ moved' = moved
  <2>1. dirty[m] = "Clean"
    BY <1>10 DEF TrimEffect, FlagInv, PhaseInv, ActiveClean, Active
  <2> QED
    BY <1>1, <1>10, <2>1 DEF TrimEffect, Becomes, Settling
<1>11. ASSUME NEW m \in Sink, ClearDoneEffect(m)
       PROVE  Was /\ moved' = moved
  <2>1. n # m
    BY <1>11 DEF ClearDoneEffect, Becomes, OnlyDedup
  <2> QED
    BY <1>1, <1>11, <2>1 DEF ClearDoneEffect, Becomes, Settling
<1>12. ASSUME NEW m \in Sink, BeginClearEffect(m)
       PROVE  Was /\ moved' = moved
  BY <1>1, <1>12 DEF BeginClearEffect, Becomes, Settling
<1>13. ASSUME NEW r \in State, BeginNotifyEffect(r) \/ LooseEffect(r)
       PROVE  Was /\ moved \subseteq moved'
  BY <1>1, <1>13, NodeSets DEF BeginNotifyEffect, LooseEffect, Becomes, Settling
<1>14. ASSUME NEW e \in Effect, SubscribeEffect(e) \/ UnsubscribeEffect(e)
       PROVE  Was /\ moved' = moved
  BY <1>14 DEF SubscribeEffect, UnsubscribeEffect
<1>15. ASSUME StageEffect
       PROVE  Was /\ moved' = moved
  BY <1>15 DEF StageEffect
<1> QED
  BY <1>2, <1>3, <1>4, <1>5, <1>6, <1>7, <1>8, <1>9, <1>10, <1>11, <1>12, <1>13, <1>14, <1>15
     DEF EffectStep

\* A closure that only reads dedup signals runs again only when the value of one of them has
\* changed since its last run began: the comparison of a dedup signal spares all the
\* computations behind it, through any chain of signals between.
THEOREM SpecRunsOnlyIfMoved == Spec => RunsOnlyIfMoved
<1> USE DEF graph, calls, sweep, disc, queues, loop, users
<1>1. Init => MovedInv
  <2> SUFFICES ASSUME Init PROVE MovedInv
    OBVIOUS
  <2>1. /\ \A n \in Sink : srcs[n] = <<>>
        /\ \A s \in Source : pc[s] = "idle"
        /\ \A s \in Source, n \in Sink, i \in Index : sinks[s][n][i] = "Unbound"
    BY NodeSets DEF Init
  <2>2. Dedup \subseteq Source
    BY NodeSets, NodesAssumption
  <2> QED
    BY <2>1, <2>2 DEF MovedInv, DedupLevel, MovedEntry, MovedDirty, OnlyDedup, Changed
<1>2. BaseInv /\ FlagInv /\ MovedInv /\ [Next]_vars => MovedInv'
  <2> SUFFICES ASSUME BaseInv, FlagInv, MovedInv, [Next]_vars PROVE MovedInv'
    OBVIOUS
  <2>1. EffectStep
    BY StepEffects DEF FlagInv
  <2> QED
    BY <2>1, DedupLevelStep, MovedEntryStep, MovedDirtyStep DEF MovedInv
<1>3. BaseInv /\ FlagInv /\ MovedInv /\ [Next]_vars =>
          [\A n \in Sink : /\ pc[n] # "run" /\ pc'[n] = "run" /\ seen'[n] = <<>>
                           /\ srcs[n] # <<>>
                           /\ \A i \in 1 .. Len(srcs[n]) : srcs[n][i] \in Dedup
                           => n \in moved]_vars
  <2> SUFFICES ASSUME BaseInv, FlagInv, MovedInv, [Next]_vars,
                      NEW n \in Sink, pc[n] # "run", pc'[n] = "run", seen'[n] = <<>>, OnlyDedup(n)
               PROVE  n \in moved
    BY DEF OnlyDedup
  <2>1. EffectStep
    BY StepEffects DEF FlagInv
  <2>2. /\ TypeOK /\ BindingsAgree /\ n \in Node /\ Len(seen[n]) \in Nat /\ pos[n] \in Nat
        /\ seen[n] \in Reads /\ pos[n] \in 1 .. MaxReads + 1
        /\ Len(srcs[n]) \in Nat /\ Len(srcs[n]) <= MaxReads /\ MaxReads \in Nat
    BY Before, SinkTypes, Types
  <2>3. ASSUME NEW s \in Source, ReadEffect(n, s)
        PROVE  FALSE
    <3>1. seen'[n] = Append(seen[n], val[s])
      BY <2>3 DEF ReadEffect, Becomes
    <3> QED
      BY <2>2, <3>1, Prefixes
  <2>4. CASE StartEffect(n, "run")
    <3>1. CASE dirty[n] = "Dirty" /\ pc[n] = "idle"
      BY <3>1 DEF MovedInv, MovedDirty, Settling
    <3>2. CASE pc[n] = "check"
      <4>1. pos[n] <= Len(srcs[n]) /\ sinks[srcs[n][pos[n]]][n][pos[n]] = "Dirty"
        BY <2>4, <3>2 DEF StartEffect
      <4>2. pos[n] \in 1 .. Len(srcs[n]) /\ pos[n] \in Index
        BY <2>2, <4>1 DEF Index
      <4>3. srcs[n][pos[n]] \in Dedup
        BY <4>2 DEF OnlyDedup
      <4> QED
        BY <3>2, <4>1, <4>2, <4>3 DEF MovedInv, MovedEntry, Changed, Settling
    <3> QED
      BY <2>4, <3>1, <3>2 DEF StartEffect
  <2>5. ASSUME CloseEffect(n) \/ \E s \in Source, i \in Index : BindEffect(n, s, i)
        PROVE  FALSE
    BY <2>5 DEF CloseEffect, BindEffect
  <2> QED
    BY <2>1, <2>3, <2>4, <2>5, RunSteps DEF Active
<1> QED
  BY <1>1, <1>2, <1>3, SpecFlagInv, PTL DEF Spec, RunsOnlyIfMoved
===============================================================================
