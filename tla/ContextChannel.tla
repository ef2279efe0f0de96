--------------------------- MODULE ContextChannel ---------------------------
(***************************************************************************)
(* Context channels (core/context_channel.rs): scope makes a context       *)
(* available to callbacks further down the call stack, try_with borrows    *)
(* it.  The three public channels differ in the type of the context only.  *)
(*                                                                         *)
(* The call stack is a state of the model: a frame is a call of scope or   *)
(* try_with that has not returned, with the state its StateGuard puts back *)
(* when it ends.  User code runs in the callback of the last frame, may    *)
(* call any channel, and may panic.  A panic ends the frames one by one    *)
(* until some callback, or the code outside of all, catches it.            *)
(***************************************************************************)
EXTENDS Integers, SequencesExt

CONSTANTS Channel, Context,
          MaxDepth  \* bound: calls that have not returned

\* Assumed of the constants (Parts).
ChannelAssumption == MaxDepth \in Nat

VARIABLES
    state,  \* ContextChannel::state: [is] or [is, ptr]
    stack,  \* frames [on, call, ptr, restore], the last one running
    panicking

vars == <<state, stack, panicking>>

Inactive == [is |-> "Inactive"]
Available(c) == [is |-> "Available", ptr |-> c]
Borrowed == [is |-> "Borrowed"]

\* What a call makes of its channel.
Given(f) == IF f.call = "scope" THEN Available(f.ptr) ELSE Borrowed

\* The last call on channel ch, and the last with context c of the first d calls, or 0.
CallOn(ch) == SelectLastInSeq(stack, LAMBDA f : f.on = ch)
CallWith(c, d) == SelectLastInSubSeq(stack, 1, d, LAMBDA f : f.ptr = c)

\* A context is passed as `&mut`: only code that nobody lent it away from has it, the code
\* that owns it or the callback of a try_with.
Mine(c) == LET i == CallWith(c, Len(stack)) IN i # 0 => stack[i].call = "try_with"

\* A call with this context, up to its callback: its guard keeps what the channel was.
Enter(ch, call, c) ==
    LET f == [on |-> ch, call |-> call, ptr |-> c, restore |-> state[ch]]
    IN  /\ ~panicking /\ Len(stack) < MaxDepth
        /\ stack' = Append(stack, f)
        /\ state' = [state EXCEPT ![ch] = Given(f)]
        /\ UNCHANGED panicking

\* scope, up to its callback.
Scope(ch, c) == Mine(c) /\ Enter(ch, "scope", c)

\* Mutant: a context that is lent stays available.
TryWithShared(ch) ==
    /\ state[ch].is = "Available" /\ ~panicking /\ Len(stack) < MaxDepth
    /\ stack' = Append(stack, [on |-> ch, call |-> "try_with", ptr |-> state[ch].ptr,
                               restore |-> state[ch]])
    /\ UNCHANGED <<state, panicking>>

\* try_with, up to its callback, of a channel that has a context.  An inactive channel
\* answers None and is left as it was.
TryWith(ch) == state[ch].is = "Available" /\ Enter(ch, "try_with", state[ch].ptr)

\* try_with of a channel whose context is lent panics.
TryWithBorrowed(ch) ==
    /\ ~panicking /\ state[ch].is = "Borrowed"
    /\ panicking' = TRUE
    /\ UNCHANGED <<state, stack>>

\* User code panics, or catches a panic.
Panic == ~panicking /\ panicking' = TRUE /\ UNCHANGED <<state, stack>>
Catch == panicking /\ panicking' = FALSE /\ UNCHANGED <<state, stack>>

\* Mutant: the guard makes the channel inactive.
Deactivated(s, f) == [s EXCEPT ![f.on] = Inactive]

\* StateGuard::drop of a frame that ends.
Restored(s, f) == [s EXCEPT ![f.on] = f.restore]

\* The last callback returns, or a panic leaves it.
Leave ==
    /\ stack # <<>>
    /\ stack' = Front(stack)
    /\ state' = Restored(state, Last(stack))
    /\ UNCHANGED panicking

Init == /\ state = [ch \in Channel |-> Inactive]
        /\ stack = <<>>
        /\ panicking = FALSE

Next == \/ \E ch \in Channel, c \in Context : Scope(ch, c)
        \/ \E ch \in Channel : TryWith(ch) \/ TryWithBorrowed(ch)
        \/ Panic \/ Catch \/ Leave

Spec == Init /\ [][Next]_vars

-----------------------------------------------------------------------------
(* Properties. *)

\* However calls nest, return and unwind, a channel is in the state its innermost call gave
\* it: inside of a scope it lends that scope's context, inside of a try_with nothing, and
\* outside of both it is inactive, so that no pointer is left when its context ends.
ChannelFollowsCalls ==
    \A ch \in Channel :
        LET i == CallOn(ch)
        IN  state[ch] = IF i = 0 THEN Inactive ELSE Given(stack[i])

\* Two try_with callbacks never have the same `&mut` context at a time, unless the first one
\* has passed it on with scope: what `unsafe` signal_context() and action_context() ask for.
\* The calls with one context take turns, a scope first.
LentOnce ==
    \A i \in DOMAIN stack :
        LET j == CallWith(stack[i].ptr, i - 1)
        IN  stack[i].call = IF j # 0 /\ stack[j].call = "scope" THEN "try_with" ELSE "scope"

\* A channel lends a context to one callback at a time, and none that has ended.
ContextsAreLentOnce == LentOnce /\ ChannelFollowsCalls
=============================================================================
