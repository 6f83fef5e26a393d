------------------------- MODULE FanOutCommunicator -------------------------
(***************************************************************************)
(* The control-plane call primitive of srt/managers/communicator.py: one   *)
(* request is fanned out to several scheduler ranks and the caller waits   *)
(* for one response from each.  TokenizerManager has one communicator per  *)
(* kind of control request; they carry weight updates, cache flushes, LoRA *)
(* loads and unloads.                                                      *)
(*                                                                         *)
(* Responses carry no call identifier: handle_recv() counts whatever       *)
(* arrives toward the call in the result slot.  A caller here makes one    *)
(* call; code between two suspensions is one step.                         *)
(***************************************************************************)
EXTENDS Naturals, Sequences

CONSTANTS
    Caller,       \* calls of queueing_call / watching_call
    NoCaller,     \* the empty result slot
    MaxFanOut,    \* bound on the number of ranks
    Modes,        \* the modes a communicator is made with
    Cancellable   \* callers whose task may be cancelled while it waits

ASSUME FanOutAssumption ==
    /\ NoCaller \notin Caller
    /\ MaxFanOut \in Nat \ {0}
    /\ Modes \subseteq {"queueing", "watching"}
    /\ Cancellable \subseteq Caller

Rank == 1 .. MaxFanOut

VARIABLES
    mode,      \* _mode, fixed when the communicator is made
    pc,        \* progress of each call
    lock,      \* _queueing_lock: its holder, then the tasks waiting for it
    fan_out,   \* _fan_out
    slot,      \* the call whose event and values are in _result_event, _result_values
    values,    \* the value list each call's slot has collected
    expected,  \* the _result_fan_out captured with each slot
    event,     \* calls whose event is set
    ref,       \* the slot whose event and values each call has captured
    replies    \* responses on their way back, in order, per rank

vars == <<mode, pc, lock, fan_out, slot, values, expected, event, ref, replies>>

Init ==
    /\ mode \in Modes
    /\ pc = [c \in Caller |-> "idle"]
    /\ lock = <<>>
    /\ fan_out \in Rank
    /\ slot = NoCaller
    /\ values = [c \in Caller |-> <<>>]
    /\ expected = [c \in Caller |-> 0]
    /\ event = {}
    /\ ref = [c \in Caller |-> NoCaller]
    /\ replies = [k \in Rank |-> <<>>]

\* self._send(obj): each of the fan_out ranks will answer the request, and
\* answers the requests it gets in order (the ranks are external).
Send(c) ==
    replies' = [k \in Rank |-> IF k <= fan_out THEN Append(replies[k], c)
                                               ELSE replies[k]]

\* A fresh event, an empty value list and the fan-out of this call.
OpenSlot(c) ==
    /\ slot' = c
    /\ expected' = [expected EXCEPT ![c] = fan_out]
    /\ ref' = [ref EXCEPT ![c] = c]
    /\ UNCHANGED <<values, event>>

\* queueing_call up to `async with self._queueing_lock`: asyncio.Lock is FIFO.
Enqueue(c) ==
    /\ mode = "queueing"
    /\ pc[c] = "idle"
    /\ pc' = [pc EXCEPT ![c] = "queued"]
    /\ lock' = Append(lock, c)
    /\ UNCHANGED <<mode, fan_out, slot, values, expected, event, ref, replies>>

\* queueing_call once it has the lock, up to the wait on its event.
Start(c) ==
    /\ pc[c] = "queued"
    /\ lock # <<>> /\ Head(lock) = c
    /\ pc' = [pc EXCEPT ![c] = "waiting"]
    /\ Send(c)
    /\ OpenSlot(c)
    /\ UNCHANGED <<mode, lock, fan_out>>

\* watching_call up to the wait on the event: join the call in flight, or
\* open a slot and send.
Watch(c) ==
    /\ mode = "watching"
    /\ pc[c] = "idle"
    /\ pc' = [pc EXCEPT ![c] = "waiting"]
    /\ IF slot = NoCaller
         THEN Send(c) /\ OpenSlot(c)
         ELSE /\ ref' = [ref EXCEPT ![c] = slot]
              /\ UNCHANGED <<slot, values, expected, event, replies>>
    /\ UNCHANGED <<mode, lock, fan_out>>

\* Mutant: the slot is left in place by the caller that got its values.
ReturnKeepsSlot(c) ==
    /\ pc[c] = "waiting"
    /\ ref[c] \in event
    /\ pc' = [pc EXCEPT ![c] = "done"]
    /\ lock' = IF mode = "queueing" THEN Tail(lock) ELSE lock
    /\ UNCHANGED <<mode, slot, fan_out, values, expected, event, ref, replies>>

\* The rest of either call, once its event is set: take the values, clear the
\* slot if it is still this one, give the lock back.
Return(c) ==
    /\ pc[c] = "waiting"
    /\ ref[c] \in event
    /\ pc' = [pc EXCEPT ![c] = "done"]
    /\ slot' = IF slot = ref[c] THEN NoCaller ELSE slot
    /\ lock' = IF mode = "queueing" THEN Tail(lock) ELSE lock
    /\ UNCHANGED <<mode, fan_out, values, expected, event, ref, replies>>

\* Mutant: the lock of a cancelled call is never given back.
CancelKeepsLock(c) ==
    /\ c \in Cancellable
    /\ pc[c] \in {"queued", "waiting"}
    /\ pc' = [pc EXCEPT ![c] = "cancelled"]
    /\ UNCHANGED <<mode, lock, fan_out, slot, values, expected, event, ref, replies>>

\* The task of a waiting call is cancelled.  Leaving `async with` gives the
\* lock back; the slot is not cleared.
Cancel(c) ==
    /\ c \in Cancellable
    /\ pc[c] \in {"queued", "waiting"}
    /\ pc' = [pc EXCEPT ![c] = "cancelled"]
    /\ lock' = SelectSeq(lock, LAMBDA d : d # c)
    /\ UNCHANGED <<mode, fan_out, slot, values, expected, event, ref, replies>>

\* Mutant: the responses are counted against the current fan-out.
HandleRecvLiveFanOut(k) ==
    /\ replies[k] # <<>>
    /\ replies' = [replies EXCEPT ![k] = Tail(@)]
    /\ IF slot = NoCaller
         THEN UNCHANGED <<values, event>>
         ELSE /\ values' = [values EXCEPT ![slot] =
                              Append(@, [to |-> Head(replies[k]), rank |-> k])]
              /\ event' = IF Len(values'[slot]) = fan_out
                            THEN event \cup {slot} ELSE event
    /\ UNCHANGED <<mode, pc, lock, fan_out, slot, expected, ref>>

\* handle_recv: a response without a slot is dropped; the one that completes
\* the slot sets its event.
HandleRecv(k) ==
    /\ replies[k] # <<>>
    /\ replies' = [replies EXCEPT ![k] = Tail(@)]
    /\ IF slot = NoCaller
         THEN UNCHANGED <<values, event>>
         ELSE /\ values' = [values EXCEPT ![slot] =
                              Append(@, [to |-> Head(replies[k]), rank |-> k])]
              /\ event' = IF Len(values'[slot]) = expected[slot]
                            THEN event \cup {slot} ELSE event
    /\ UNCHANGED <<mode, pc, lock, fan_out, slot, expected, ref>>

\* set_fan_out, when the number of workers changes.
SetFanOut(n) ==
    /\ n # fan_out
    /\ fan_out' = n
    /\ UNCHANGED <<mode, pc, lock, slot, values, expected, event, ref, replies>>

Begin == \E c \in Caller : Enqueue(c) \/ Watch(c)
Serve == \E c \in Caller : Start(c) \/ Return(c)
Abandon == \E c \in Caller : Cancel(c)
Receive == \E k \in Rank : HandleRecv(k)
Rescale == \E n \in Rank : SetFanOut(n)

Next == Begin \/ Serve \/ Abandon \/ Receive \/ Rescale

Spec == Init /\ [][Next]_vars

\* The event loop resumes tasks that are ready and every rank answers.
FairSpec ==
    /\ Spec
    /\ \A c \in Caller : WF_vars(Start(c)) /\ WF_vars(Return(c))
    /\ \A k \in Rank : WF_vars(HandleRecv(k))

-----------------------------------------------------------------------------

\* "the caller awaits until all `fan_out` responses are collected": what a
\* call returns is one response from each rank its request went to, and every
\* one of them answers the request this call sent or joined.
OwnReplies ==
    \A c \in Caller :
        (pc[c] = "waiting" /\ ref[c] \in event) =>
            LET got == values[ref[c]] IN
            /\ Len(got) = expected[ref[c]]
            /\ \A i \in 1 .. Len(got) : got[i].to = ref[c]
            /\ \A k \in 1 .. expected[ref[c]] :
                  \E i \in 1 .. Len(got) : got[i].rank = k

\* "Only one request is in-flight at any time in either mode": no two requests
\* have responses under way.
OneInFlight ==
    \A j, k \in Rank : \A x \in 1 .. Len(replies[j]), y \in 1 .. Len(replies[k]) :
        replies[j][x] = replies[k][y]

NoneCancelled == \A c \in Caller : pc[c] # "cancelled"

\* Responses carry no call identifier, yet each is counted toward the request
\* it answers: always in watching mode, where a slot all of whose watchers were
\* cancelled stays and is joined by the next caller, and in queueing mode as
\* long as nobody has been cancelled (FanOutLateReply shows why).
RepliesRouted ==
    mode = "watching" \/ NoneCancelled => OneInFlight /\ OwnReplies

\* A slot that is open is waited for, unless calls were cancelled: otherwise
\* responses would be collected into it with nobody to take them, and a later
\* caller would find them.
SlotWaitedFor ==
    slot # NoCaller /\ NoneCancelled =>
        \E c \in Caller : pc[c] = "waiting" /\ ref[c] = slot

\* A cancelled caller "never blocks the callers queued behind it", nor the ones
\* that join the slot it left open: every call that is not cancelled returns.
CallsReturn ==
    \A c \in Caller :
        pc[c] \in {"queued", "waiting"} ~> pc[c] \in {"done", "cancelled"}
=============================================================================
