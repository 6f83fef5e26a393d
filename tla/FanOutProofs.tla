---------------------------- MODULE FanOutProofs ----------------------------
(***************************************************************************)
(* Proofs about FanOutCommunicator for any set of callers, any number of   *)
(* ranks and any choice of the callers that may be cancelled: answers are  *)
(* counted toward the request they answer, and an open slot is waited for. *)
(***************************************************************************)
EXTENDS FanOutCommunicator, FiniteSetTheorems, TLAPS

Response == [to : Caller, rank : Rank]

Typed ==
    /\ mode \in {"queueing", "watching"}
    /\ pc \in [Caller -> {"idle", "queued", "waiting", "done", "cancelled"}]
    /\ fan_out \in Rank
    /\ slot \in Caller \cup {NoCaller}
    /\ values \in [Caller -> Seq(Response)]
    /\ expected \in [Caller -> 0 .. MaxFanOut]
    /\ event \in SUBSET Caller
    /\ ref \in [Caller -> Caller \cup {NoCaller}]
    /\ replies \in [Rank -> Seq(Caller)]

(* The calls whose answers the module's properties speak for. *)
Routed == mode = "watching" \/ NoneCancelled

(* A call has its slot from the moment it waits, and nothing before. *)
CallInv ==
    \A c \in Caller :
        /\ pc[c] \in {"idle", "queued"} =>
              values[c] = <<>> /\ c \notin event /\ c # slot
        /\ pc[c] = "waiting" => ref[c] \in Caller
        /\ pc[c] = "queued" => mode = "queueing"

(* The ranks whose response to the request of s has been counted. *)
Arrived(s) == {k \in 1 .. expected[s] : replies[k] = <<>>}

(* The value list of s has one own response from each rank that arrived. *)
Collected(s) ==
    /\ Len(values[s]) = Cardinality(Arrived(s))
    /\ \A i \in 1 .. Len(values[s]) : values[s][i].to = s
    /\ \A k \in Arrived(s) : \E i \in 1 .. Len(values[s]) : values[s][i].rank = k

(* What a completed slot has collected. *)
Complete(s) ==
    /\ Len(values[s]) = expected[s]
    /\ \A i \in 1 .. Len(values[s]) : values[s][i].to = s
    /\ \A k \in 1 .. expected[s] : \E i \in 1 .. Len(values[s]) : values[s][i].rank = k

Pending == slot # NoCaller /\ slot \notin event

SlotInv ==
    /\ ~Pending => \A k \in Rank : replies[k] = <<>>
    /\ Pending =>
          /\ Collected(slot)
          /\ \E k \in Rank : replies[k] # <<>>
          /\ \A k \in Rank :
                \/ replies[k] = <<>>
                \/ replies[k] = <<slot>> /\ k \in 1 .. expected[slot]
    /\ \A s \in event : Complete(s)

(* In queueing mode the waiting call is the one that holds the lock. *)
LockInv ==
    mode = "queueing" =>
        /\ lock \in Seq(Caller)
        /\ \A c \in Caller :
              pc[c] = "waiting" => lock # <<>> /\ Head(lock) = c /\ ref[c] = c

Inv ==
    /\ Typed /\ CallInv
    /\ Routed => SlotInv
    /\ NoneCancelled => LockInv /\ SlotWaitedFor

-----------------------------------------------------------------------------
(* Lemmas *)

(* All of 1 .. n is counted exactly when n ranks are. *)
LEMMA AllArrived ==
    ASSUME NEW n \in Nat, NEW S \in SUBSET (1 .. n)
    PROVE  /\ IsFiniteSet(S) /\ Cardinality(S) \in Nat
           /\ Cardinality(S) = n <=> S = 1 .. n
<1>1. IsFiniteSet(1 .. n) /\ Cardinality(1 .. n) = n
  BY FS_Interval
<1>2. IsFiniteSet(S) /\ (Cardinality(S) = Cardinality(1 .. n) => S = 1 .. n)
  BY <1>1, FS_Subset
<1>3. Cardinality(S) \in Nat
  BY <1>2, FS_CardinalityType
<1> QED  BY <1>1, <1>2, <1>3

(* The slot of a fresh call: nothing has arrived, and each of the fan_out   *)
(* ranks has the request.                                                   *)
LEMMA FreshSlot ==
    ASSUME Inv, NEW c \in Caller, Send(c), OpenSlot(c), UNCHANGED fan_out,
           values[c] = <<>>, c \notin event, \A k \in Rank : replies[k] = <<>>,
           \A s \in event : Complete(s)
    PROVE  SlotInv'
<1> USE FanOutAssumption
<1>1. /\ slot' = c /\ event' = event /\ values' = values
      /\ expected'[c] = fan_out /\ fan_out \in 1 .. MaxFanOut
      /\ \A s \in event : expected'[s] = expected[s]
  BY DEF Inv, Typed, OpenSlot, Rank
<1>2. c # NoCaller
  OBVIOUS
<1>3. \A k \in Rank : replies'[k] = IF k <= fan_out THEN <<c>> ELSE <<>>
  <2>1. Append(<<>>, c) = <<c>>
    OBVIOUS
  <2> QED  BY <2>1 DEF Send
<1>4. Pending'
  BY <1>1, <1>2 DEF Pending
<1>5. Arrived(c)' = {}
  BY <1>1, <1>3 DEF Arrived, Rank
<1>6. Collected(c)'
  BY <1>1, <1>5, FS_EmptySet DEF Collected
<1>7. \A k \in Rank : replies'[k] = <<>> \/ (replies'[k] = <<c>> /\ k \in 1 .. expected'[c])
  BY <1>1, <1>3 DEF Rank
<1>8. 1 \in Rank /\ replies'[1] # <<>>
  BY <1>1, <1>3 DEF Rank
<1>9. ASSUME NEW s \in event' PROVE Complete(s)'
  <2>1. Complete(s) /\ values'[s] = values[s] /\ expected'[s] = expected[s]
    BY <1>1
  <2> QED  BY <2>1 DEF Complete
<1> QED  BY <1>1, <1>4, <1>6, <1>7, <1>8, <1>9 DEF SlotInv

(* A step that touches no slot and no response. *)
LEMMA SlotStutter ==
    ASSUME SlotInv, UNCHANGED <<slot, values, expected, event, replies>>
    PROVE  SlotInv'
<1>1. Pending' <=> Pending
  BY DEF Pending
<1>2. ASSUME NEW s PROVE Arrived(s)' = Arrived(s)
  BY DEF Arrived
<1>3. Pending => Collected(slot)'
  BY <1>2 DEF SlotInv, Collected
<1>4. ASSUME NEW s \in event PROVE Complete(s)'
  <2>1. Complete(s)
    BY DEF SlotInv
  <2> QED  BY <2>1 DEF Complete
<1> QED  BY <1>1, <1>3, <1>4 DEF SlotInv

-----------------------------------------------------------------------------
(* Each action preserves the invariant *)

LEMMA InitInv == Init => Inv
<1> SUFFICES ASSUME Init PROVE Inv
  OBVIOUS
<1> USE FanOutAssumption
<1>1. Typed
  BY DEF Init, Typed, Rank
<1>2. CallInv
  BY DEF Init, CallInv
<1>3. SlotInv
  BY DEF Init, SlotInv, Pending
<1>4. LockInv /\ SlotWaitedFor
  BY DEF Init, LockInv, SlotWaitedFor
<1> QED  BY <1>1, <1>2, <1>3, <1>4 DEF Inv

LEMMA EnqueueInv ==
    ASSUME Inv, NEW c \in Caller, Enqueue(c)
    PROVE  Inv'
<1>1. Typed'
  BY DEF Inv, Typed, Enqueue
<1>2. CallInv'
  BY DEF Inv, Typed, CallInv, Enqueue
<1>3. NoneCancelled' => NoneCancelled
  BY DEF Inv, Typed, Enqueue, NoneCancelled
<1>4. Routed' => SlotInv'
  BY <1>3, SlotStutter DEF Inv, Enqueue, Routed
<1>5. NoneCancelled' => LockInv'
  <2> SUFFICES ASSUME NoneCancelled, mode = "queueing" PROVE LockInv'
    BY <1>3 DEF LockInv, Enqueue
  <2>1. lock \in Seq(Caller) /\ lock' = Append(lock, c)
    BY DEF Inv, LockInv, Enqueue
  <2>2. \A d \in Caller : pc'[d] = "waiting" => pc[d] = "waiting" /\ ref'[d] = ref[d]
    BY DEF Inv, Typed, Enqueue
  <2>3. lock # <<>> => lock' # <<>> /\ Head(lock') = Head(lock)
    BY <2>1
  <2> QED  BY <2>1, <2>2, <2>3 DEF Inv, LockInv
<1>6. NoneCancelled' => SlotWaitedFor'
  BY <1>3 DEF Inv, Typed, Enqueue, SlotWaitedFor
<1> QED  BY <1>1, <1>2, <1>4, <1>5, <1>6 DEF Inv

LEMMA StartInv ==
    ASSUME Inv, NEW c \in Caller, Start(c)
    PROVE  Inv'
<1> USE FanOutAssumption
<1>1. Typed'
  BY DEF Inv, Typed, Start, Send, OpenSlot, Rank
<1>2. CallInv'
  BY DEF Inv, Typed, CallInv, Start, OpenSlot
<1>3. mode = "queueing" /\ mode' = mode
  BY DEF Inv, CallInv, Start
<1>4. NoneCancelled' => NoneCancelled
  BY DEF Inv, Typed, Start, NoneCancelled
<1>5. ASSUME NoneCancelled PROVE \A d \in Caller : pc[d] # "waiting"
  BY <1>3, <1>5 DEF Inv, LockInv, Start
<1>6. ASSUME NoneCancelled PROVE slot = NoCaller
  BY <1>5, <1>6 DEF Inv, SlotWaitedFor
<1>7. Routed' => SlotInv'
  <2> SUFFICES ASSUME NoneCancelled PROVE SlotInv'
    BY <1>3, <1>4 DEF Routed
  <2>1. SlotInv /\ ~Pending
    BY <1>6 DEF Inv, Routed, Pending
  <2> QED
    BY <2>1, FreshSlot DEF Inv, CallInv, SlotInv, Start
<1>8. NoneCancelled' => LockInv'
  <2> SUFFICES ASSUME NoneCancelled PROVE LockInv'
    BY <1>4
  <2>1. lock' = lock /\ lock \in Seq(Caller) /\ Head(lock) = c /\ ref'[c] = c
    BY <1>3 DEF Inv, Typed, LockInv, Start, OpenSlot
  <2>2. \A d \in Caller : pc'[d] = "waiting" => d = c
    BY <1>5 DEF Inv, Typed, Start
  <2>3. lock # <<>>
    BY <1>3 DEF Inv, LockInv, Start
  <2> QED  BY <2>1, <2>2, <2>3 DEF LockInv
<1>9. SlotWaitedFor'
  BY DEF Inv, Typed, Start, OpenSlot, SlotWaitedFor
<1> QED  BY <1>1, <1>2, <1>7, <1>8, <1>9 DEF Inv

LEMMA WatchInv ==
    ASSUME Inv, NEW c \in Caller, Watch(c)
    PROVE  Inv'
<1> USE FanOutAssumption
<1>1. Typed'
  <2>1. CASE slot = NoCaller
    <3>1. /\ Send(c) /\ OpenSlot(c) /\ UNCHANGED <<mode, fan_out>>
          /\ pc' = [pc EXCEPT ![c] = "waiting"]
      BY <2>1 DEF Watch
    <3> QED  BY <3>1 DEF Inv, Typed, Send, OpenSlot, Rank
  <2>2. CASE slot # NoCaller
    BY <2>2 DEF Inv, Typed, Watch
  <2> QED  BY <2>1, <2>2
<1>2. CallInv'
  BY DEF Inv, Typed, CallInv, Watch, OpenSlot
<1>3. mode = "watching" /\ mode' = mode
  BY DEF Watch
<1>4. NoneCancelled' => NoneCancelled
  BY DEF Inv, Typed, Watch, NoneCancelled
<1>5. SlotInv
  BY <1>3 DEF Inv, Routed
<1>6. SlotInv'
  <2>1. CASE slot = NoCaller
    <3>1. ~Pending
      BY <2>1 DEF Pending
    <3> QED
      BY <1>5, <2>1, <3>1, FreshSlot DEF Inv, CallInv, SlotInv, Watch
  <2>2. CASE slot # NoCaller
    <3>1. UNCHANGED <<slot, values, expected, event, replies>>
      BY <2>2 DEF Watch
    <3> QED  BY <1>5, <3>1, SlotStutter
  <2> QED  BY <2>1, <2>2
<1>7. LockInv'
  BY <1>3 DEF LockInv
<1>8. SlotWaitedFor'
  BY DEF Inv, Typed, Watch, OpenSlot, SlotWaitedFor
<1> QED  BY <1>1, <1>2, <1>6, <1>7, <1>8 DEF Inv

LEMMA ReturnInv ==
    ASSUME Inv, NEW c \in Caller, Return(c)
    PROVE  Inv'
<1> USE FanOutAssumption
<1>1. Typed'
  BY DEF Inv, Typed, Return
<1>2. CallInv'
  BY DEF Inv, Typed, CallInv, Return
<1>3. NoneCancelled' => NoneCancelled
  BY DEF Inv, Typed, Return, NoneCancelled
<1>4. Routed' => SlotInv'
  <2> SUFFICES ASSUME SlotInv PROVE SlotInv'
    BY <1>3 DEF Inv, Routed, Return
  <2>1. /\ event' = event /\ values' = values /\ expected' = expected
        /\ replies' = replies
    BY DEF Return
  <2>2. CASE slot = ref[c]
    <3>1. ~Pending /\ ~Pending'
      BY <2>2 DEF Return, Pending
    <3> QED  BY <2>1, <3>1 DEF SlotInv, Complete
  <2>3. CASE slot # ref[c]
    BY <2>1, <2>3, SlotStutter DEF Return
  <2> QED  BY <2>2, <2>3
<1>5. NoneCancelled' => LockInv'
  <2> SUFFICES ASSUME NoneCancelled, mode = "queueing" PROVE LockInv'
    BY <1>3 DEF LockInv, Return
  <2>1. lock \in Seq(Caller) /\ lock # <<>> /\ Head(lock) = c /\ lock' = Tail(lock)
    BY DEF Inv, LockInv, Return
  <2>2. \A d \in Caller : pc'[d] # "waiting"
    BY <2>1 DEF Inv, Typed, LockInv, Return
  <2> QED  BY <2>1, <2>2 DEF LockInv
<1>6. NoneCancelled' => SlotWaitedFor'
  <2> SUFFICES ASSUME NoneCancelled, slot' # NoCaller
               PROVE  \E d \in Caller : pc'[d] = "waiting" /\ ref'[d] = slot'
    BY <1>3 DEF SlotWaitedFor
  <2>1. slot # ref[c] /\ slot' = slot /\ ref' = ref
    BY DEF Return
  <2>2. PICK d \in Caller : pc[d] = "waiting" /\ ref[d] = slot
    BY <2>1 DEF Inv, SlotWaitedFor
  <2>3. d # c
    BY <2>1, <2>2
  <2> QED  BY <2>1, <2>2, <2>3 DEF Inv, Typed, Return
<1> QED  BY <1>1, <1>2, <1>4, <1>5, <1>6 DEF Inv

(* After a cancellation only watching mode is spoken for, and there the     *)
(* slot and the responses under way are left as they are.                   *)
LEMMA CancelInv ==
    ASSUME Inv, NEW c \in Caller, Cancel(c)
    PROVE  Inv'
<1>1. Typed'
  BY DEF Inv, Typed, Cancel
<1>2. CallInv'
  BY DEF Inv, Typed, CallInv, Cancel
<1>3. ~NoneCancelled'
  BY DEF Inv, Typed, Cancel, NoneCancelled
<1>4. Routed' => SlotInv'
  BY <1>3, SlotStutter DEF Inv, Cancel, Routed
<1> QED  BY <1>1, <1>2, <1>3, <1>4 DEF Inv

LEMMA HandleRecvInv ==
    ASSUME Inv, NEW k \in Rank, HandleRecv(k)
    PROVE  Inv'
<1> USE FanOutAssumption
<1>1. Typed'
  <2>1. replies' \in [Rank -> Seq(Caller)] /\ Head(replies[k]) \in Caller
    BY DEF Inv, Typed, HandleRecv
  <2>2. values' \in [Caller -> Seq(Response)]
    <3>1. [to |-> Head(replies[k]), rank |-> k] \in Response
      BY <2>1 DEF Response
    <3>2. CASE slot = NoCaller
      BY <3>2 DEF Inv, Typed, HandleRecv
    <3>3. CASE slot # NoCaller
      <4>1. slot \in Caller /\ values[slot] \in Seq(Response)
        BY <3>3 DEF Inv, Typed
      <4>2. Append(values[slot], [to |-> Head(replies[k]), rank |-> k]) \in Seq(Response)
        BY <3>1, <4>1
      <4> QED  BY <3>3, <4>1, <4>2 DEF Inv, Typed, HandleRecv
    <3> QED  BY <3>2, <3>3
  <2>3. event' \in SUBSET Caller
    BY DEF Inv, Typed, HandleRecv
  <2> QED  BY <2>1, <2>2, <2>3 DEF Inv, Typed, HandleRecv
<1>2. CallInv'
  <2>1. UNCHANGED <<mode, pc, slot, ref>>
    BY DEF HandleRecv
  <2>2. \A c \in Caller : c # slot => values'[c] = values[c] /\ (c \in event' <=> c \in event)
    BY DEF Inv, Typed, HandleRecv
  <2> QED  BY <2>1, <2>2 DEF Inv, CallInv
<1>3. Routed' => SlotInv'
  <2> SUFFICES ASSUME SlotInv PROVE SlotInv'
    BY DEF Inv, HandleRecv, Routed, NoneCancelled
  <2>p. Pending
    BY DEF HandleRecv, SlotInv
  <2>q. PICK s \in Caller : s = slot
    BY <2>p DEF Inv, Typed, Pending
  <2>1. /\ s \notin event /\ s # NoCaller
        /\ replies[k] = <<s>> /\ k \in 1 .. expected[s] /\ Collected(s)
    BY <2>p, <2>q DEF HandleRecv, SlotInv, Pending
  <2>2. /\ replies'[k] = <<>> /\ \A j \in Rank \ {k} : replies'[j] = replies[j]
        /\ slot' = s /\ slot = s /\ expected' = expected /\ expected[s] \in Nat
        /\ 1 .. expected[s] \subseteq Rank
    BY <2>q, <2>1 DEF Inv, Typed, HandleRecv, Rank
  <2>3. Arrived(s)' = Arrived(s) \cup {k} /\ k \notin Arrived(s)
    BY <2>1, <2>2 DEF Arrived
  <2>4. /\ values'[s] = Append(values[s], [to |-> s, rank |-> k])
        /\ values[s] \in Seq(Response)
        /\ \A d \in Caller \ {s} : values'[d] = values[d]
    BY <2>1, <2>q DEF Inv, Typed, HandleRecv
  <2>5. /\ IsFiniteSet(Arrived(s)) /\ Cardinality(Arrived(s)) \in Nat
        /\ Cardinality(Arrived(s)') = Cardinality(Arrived(s)) + 1
        /\ Cardinality(Arrived(s)') = expected[s] <=> Arrived(s)' = 1 .. expected[s]
    <3>1. Arrived(s) \in SUBSET (1 .. expected[s]) /\ Arrived(s)' \in SUBSET (1 .. expected[s])
      BY <2>1, <2>2, <2>3 DEF Arrived
    <3>2. IsFiniteSet(Arrived(s)) /\ Cardinality(Arrived(s)) \in Nat
      BY <2>2, <3>1, AllArrived
    <3>3. Cardinality(Arrived(s) \cup {k}) = Cardinality(Arrived(s)) + 1
      BY <2>3, <3>2, FS_AddElement
    <3>4. Cardinality(Arrived(s)') = expected[s] <=> Arrived(s)' = 1 .. expected[s]
      BY <2>2, <3>1, AllArrived
    <3> QED  BY <2>3, <3>2, <3>3, <3>4
  <2>6. Collected(s)'
    <3>1. Len(values'[s]) = Cardinality(Arrived(s)')
      BY <2>1, <2>4, <2>5 DEF Collected
    <3>2. \A i \in 1 .. Len(values'[s]) : values'[s][i].to = s
      BY <2>1, <2>4 DEF Collected
    <3>3. \A j \in Arrived(s)' : \E i \in 1 .. Len(values'[s]) : values'[s][i].rank = j
      <4> SUFFICES ASSUME NEW j \in Arrived(s)'
                   PROVE  \E i \in 1 .. Len(values'[s]) : values'[s][i].rank = j
        OBVIOUS
      <4>1. CASE j = k
        <5>1. Len(values'[s]) \in 1 .. Len(values'[s])
              /\ values'[s][Len(values'[s])].rank = k
          BY <2>4
        <5> QED  BY <4>1, <5>1
      <4>2. CASE j # k
        <5>1. PICK i \in 1 .. Len(values[s]) : values[s][i].rank = j
          BY <2>1, <2>3, <4>2 DEF Collected
        <5>2. i \in 1 .. Len(values'[s]) /\ values'[s][i] = values[s][i]
          BY <2>4, <5>1
        <5> QED  BY <5>1, <5>2
      <4> QED  BY <4>1, <4>2
    <3> QED  BY <3>1, <3>2, <3>3 DEF Collected
  <2>7. event' = IF Arrived(s)' = 1 .. expected[s] THEN event \cup {s} ELSE event
    <3>1. Len(values'[s]) = Cardinality(Arrived(s)')
      BY <2>6 DEF Collected
    <3>2. event' = IF Len(values'[s]) = expected[s] THEN event \cup {s} ELSE event
      BY <2>1, <2>q DEF HandleRecv
    <3> QED  BY <2>5, <3>1, <3>2
  <2>8. ASSUME NEW d \in event PROVE Complete(d)'
    <3>1. d \in Caller \ {s} /\ values'[d] = values[d] /\ expected'[d] = expected[d]
      BY <2>1, <2>2, <2>4 DEF Inv, Typed
    <3>2. Complete(d)
      BY DEF SlotInv
    <3> QED  BY <3>1, <3>2 DEF Complete
  <2>9. CASE Arrived(s)' = 1 .. expected[s]
    <3>1. Complete(s)'
      <4>1. Len(values'[s]) = expected'[s]
        BY <2>2, <2>5, <2>6, <2>9 DEF Collected
      <4> QED  BY <2>2, <2>6, <2>9, <4>1 DEF Collected, Complete
    <3>2. ~Pending'
      BY <2>2, <2>7, <2>9 DEF Pending
    <3>3. \A j \in Rank : replies'[j] = <<>>
      BY <2>1, <2>2, <2>9 DEF SlotInv, Arrived
    <3> QED  BY <2>7, <2>8, <2>9, <3>1, <3>2, <3>3 DEF SlotInv
  <2>10. CASE Arrived(s)' # 1 .. expected[s]
    <3>1. event' = event /\ Pending'
      BY <2>1, <2>2, <2>7, <2>10 DEF Pending
    <3>2. \E j \in Rank : replies'[j] # <<>>
      BY <2>2, <2>10 DEF Arrived
    <3>3. \A j \in Rank : \/ replies'[j] = <<>>
                          \/ replies'[j] = <<s>> /\ j \in 1 .. expected'[s]
      BY <2>1, <2>2 DEF SlotInv
    <3> QED  BY <2>2, <2>6, <2>8, <3>1, <3>2, <3>3 DEF SlotInv
  <2> QED  BY <2>9, <2>10
<1>4. NoneCancelled' => LockInv' /\ SlotWaitedFor'
  BY DEF Inv, HandleRecv, NoneCancelled, LockInv, SlotWaitedFor
<1> QED  BY <1>1, <1>2, <1>3, <1>4 DEF Inv

LEMMA SetFanOutInv ==
    ASSUME Inv, NEW n \in Rank, SetFanOut(n)
    PROVE  Inv'
<1>1. Typed'
  BY DEF Inv, Typed, SetFanOut
<1>2. CallInv'
  BY DEF Inv, CallInv, SetFanOut
<1>3. Routed' => SlotInv'
  BY SlotStutter DEF Inv, SetFanOut, Routed, NoneCancelled
<1>4. NoneCancelled' => LockInv' /\ SlotWaitedFor'
  BY DEF Inv, SetFanOut, NoneCancelled, LockInv, SlotWaitedFor
<1> QED  BY <1>1, <1>2, <1>3, <1>4 DEF Inv

LEMMA StutterInv ==
    ASSUME Inv, UNCHANGED vars
    PROVE  Inv'
<1>1. Typed' /\ CallInv'
  BY DEF vars, Inv, Typed, CallInv
<1>2. Routed' => SlotInv'
  BY SlotStutter DEF vars, Inv, Routed, NoneCancelled
<1>3. NoneCancelled' => LockInv' /\ SlotWaitedFor'
  BY DEF vars, Inv, NoneCancelled, LockInv, SlotWaitedFor
<1> QED  BY <1>1, <1>2, <1>3 DEF Inv

(* The inductive invariant holds in every reachable state.                  *)
THEOREM Invariance == Spec => []Inv
<1>1. Init => Inv
  BY InitInv
<1>2. Inv /\ [Next]_vars => Inv'
  <2> SUFFICES ASSUME Inv, [Next]_vars PROVE Inv'
    OBVIOUS
  <2>1. CASE Begin
    BY <2>1, EnqueueInv, WatchInv DEF Begin
  <2>2. CASE Serve
    BY <2>2, StartInv, ReturnInv DEF Serve
  <2>3. CASE Abandon
    BY <2>3, CancelInv DEF Abandon
  <2>4. CASE Receive
    BY <2>4, HandleRecvInv DEF Receive
  <2>5. CASE Rescale
    BY <2>5, SetFanOutInv DEF Rescale
  <2>6. CASE UNCHANGED vars
    BY <2>6, StutterInv
  <2> QED  BY <2>1, <2>2, <2>3, <2>4, <2>5, <2>6 DEF Next
<1> QED  BY <1>1, <1>2, PTL DEF Spec

(* Responses carry no call identifier, yet handle_recv counts each toward   *)
(* the request it answers, with any number of callers and ranks: always in  *)
(* watching mode, cancelled watchers included, and in queueing mode as long *)
(* as no call has been cancelled.                                           *)
THEOREM AnswersAreRouted == Spec => []RepliesRouted
<1>1. Inv => RepliesRouted
  <2> SUFFICES ASSUME Inv, Routed PROVE OneInFlight /\ OwnReplies
    BY DEF RepliesRouted, Routed
  <2>1. SlotInv
    BY DEF Inv
  <2>2. \A k \in Rank : replies[k] = <<>> \/ replies[k] = <<slot>>
    BY <2>1 DEF SlotInv
  <2>3. OneInFlight
    BY <2>2 DEF OneInFlight
  <2>4. OwnReplies
    BY <2>1 DEF SlotInv, Complete, OwnReplies
  <2> QED  BY <2>3, <2>4
<1> QED  BY <1>1, Invariance, PTL

(* A slot nobody waits for exists only after a cancellation.                *)
THEOREM SlotsAreWaitedFor == Spec => []SlotWaitedFor
<1>1. Inv => SlotWaitedFor
  BY DEF Inv, SlotWaitedFor
<1> QED  BY <1>1, Invariance, PTL
=============================================================================
