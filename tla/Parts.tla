------------------------------- MODULE Parts -------------------------------
(***************************************************************************)
(* The parts of the crate that meet the rest at one call only, side by     *)
(* side: each has its own variables, and a behavior is one of one part.    *)
(*                                                                         *)
(*   "feed"     FeedNodes       the nodes of change feeds and slab maps    *)
(*   "queues"   PhaseQueues     the queues of Globals                      *)
(*   "channel"  ContextChannel  contexts lent to callbacks                 *)
(*   "stream"   SignalStream    stream_from                                *)
(*   "oneshot"  Oneshot         oneshot_broadcast                          *)
(*   "refs"     StateRefs       StateRef                                   *)
(***************************************************************************)
EXTENDS Integers, Sequences, DirtyFlags

CONSTANTS
    Effect, Key, MaxReads,        \* of FeedNodes
    All, Id, Item, MaxId,         \* of PhaseQueues
    Channel, Context, MaxDepth,   \* of ContextChannel
    Receiver, NoKey,              \* of Oneshot
    Outside, NoRef, MaxObjects, MaxCalls  \* of StateRefs

VARIABLES
    part,
    kind, binder, effect, scheduled, panicked,
    map, start, last, taken, order,
    state, stack, panicking,
    stream,
    shot,
    obj, top, calls, dropping, unwinding, crossed

feed == <<kind, binder, effect, scheduled, panicked>>
queues == <<map, start, last, taken, order>>
channel == <<state, stack, panicking>>
refs == <<obj, top, calls, dropping, unwinding, crossed>>
vars == <<part, feed, queues, channel, stream, shot, refs>>

Feed == INSTANCE FeedNodes
Queues == INSTANCE PhaseQueues
Channels == INSTANCE ContextChannel
Streams == INSTANCE SignalStream
Shots == INSTANCE Oneshot
Refs == INSTANCE StateRefs

ASSUME PartsAssumption ==
    /\ Feed!NodesAssumption /\ Queues!QueuesAssumption
    /\ Channels!ChannelAssumption /\ Shots!ReceiversAssumption /\ Refs!RefsAssumption

Init ==
    /\ part \in {"feed", "queues", "channel", "stream", "oneshot", "refs"}
    /\ Feed!Init /\ (part # "feed" => kind = "state")
    /\ Queues!Init /\ Channels!Init /\ Streams!Init /\ Shots!Init /\ Refs!Init

FeedStep == /\ part = "feed" /\ Feed!Next
            /\ UNCHANGED <<part, queues, channel, stream, shot, refs>>
QueueStep == /\ part = "queues" /\ Queues!Next
             /\ UNCHANGED <<part, feed, channel, stream, shot, refs>>
ChannelStep == /\ part = "channel" /\ Channels!Next
               /\ UNCHANGED <<part, feed, queues, stream, shot, refs>>
StreamStep == /\ part = "stream" /\ Streams!Next
              /\ UNCHANGED <<part, feed, queues, channel, shot, refs>>
ShotStep == /\ part = "oneshot" /\ Shots!Next
            /\ UNCHANGED <<part, feed, queues, channel, stream, refs>>
RefStep == /\ part = "refs" /\ Refs!Next
           /\ UNCHANGED <<part, feed, queues, channel, stream, shot>>

Next == FeedStep \/ QueueStep \/ ChannelStep \/ StreamStep \/ ShotStep \/ RefStep

\* flush runs the reactions that are scheduled (EffectsCatchUp of Runtime).
StreamUpdates ==
    /\ part = "stream" /\ Streams!Updates
    /\ UNCHANGED <<part, feed, queues, channel, shot, refs>>

Spec == Init /\ [][Next]_vars /\ WF_vars(StreamUpdates)

-----------------------------------------------------------------------------
(* Properties. *)

\* Slab maps and change feeds: no change is lost to a dependant (FeedNodes).
ChangesReachReaders == Feed!ChangesReachReaders

\* Slab maps and change feeds: no dependant runs for nothing, and none asks a dependency that
\* is not resolved (FeedNodes).
RunsAreDue == Feed!RunsAreDue

\* Buckets keep, order and hand out what Runtime takes them to (PhaseQueues).
QueuesKeepOrder == Queues!QueuesImplementOrder /\ Queues!BoundsAreExact

\* A channel lends a context to one callback at a time and none that has ended
\* (ContextChannel).
ContextsAreLentOnce == Channels!ContextsAreLentOnce

\* Everything a StateRef is made of is dropped once; and as long as no closure over a static
\* StateRef has borrowed from the closures around it, a StateRef and what it is made from
\* point to nothing that was dropped (StateRefs).
RefsStayValid == Refs!RefsStayValid

\* Who waits is woken (SignalStream, Oneshot): the consumer of a stream after every change of
\* its source, and what is then ready for it is current; and a receiver of a broadcast, which
\* has left a waker of its own that send takes.
WaitersAreWoken ==
    /\ Streams!ChangeWakesConsumer
    /\ [](Streams!ReadyIsCurrent /\ Shots!SleepersHaveWakers)
=============================================================================
