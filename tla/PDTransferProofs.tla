-------------------------- MODULE PDTransferProofs --------------------------
(***************************************************************************)
(* Proofs about PDTransfer for every set of prefill ranks, every number of *)
(* chunks and every number of faults: its type invariant, what an          *)
(* acknowledgement and a release mean, and that it implements KVHandoff.   *)
(***************************************************************************)
EXTENDS PDTransfer, FiniteSetTheorems, TLAPS

USE DEF under_way, overtaken

(* The page indices have been sent to some rank. *)
Published == dq \notin {"none", "prealloc", "dropped"}

Active(r) == pstatus[r] \notin {"none", "Failed"}

(* The worker has a chunk it has not yet written. *)
Busy(r) == wpc[r] \in {"counted", "writing"}

(* The prefill scheduler: how far it is and what its rooms look like. *)
SchedulerInv ==
    /\ preq \in {"none", "bootstrap"} => nsent = 0
    /\ preq = "running" => nsent < NumChunks
    /\ \A r \in Rank :
         /\ deq[r] <= enq[r] /\ enq[r] <= nsent
         /\ preq \in {"bootstrap", "running", "inflight"} => pstatus[r] # "none"
         /\ preq \in {"running", "inflight"} => src_held[r]
         /\ preq \in {"aborting", "done"} /\ enq[r] > 0 => ~Active(r)
         /\ preq = "none" /\ pstatus[r] = "none" => ~transfer_infos[r]

(* Before the page indices are out nothing else is under way. *)
PublishInv ==
    /\ dq = "none" => dstatus = "none"
    /\ init_time => Published
    /\ dq = "prealloc" /\ dstatus = "WaitingForInput" => bootstrap_infos
    /\ dq = "transfer" => bootstrap_infos
    /\ \A r \in Rank :
         /\ under_way(r) => enq[r] = 0 /\ ~transfer_infos[r]
         /\ ~Published => metas[r] = "none" /\ enq[r] = 0 /\ ~transfer_infos[r]
         /\ \A g \in aborts[r] : g # 0 => Published

(* What the drain accounting of a rank knows about its worker. *)
DrainInv ==
    \A r \in Rank :
        /\ wpc[r] # "idle" => outstanding[r] > 0
        /\ outstanding[r] > 0 => deq[r] > 0
        /\ lingering[r] => poisoned[r]
        /\ poisoned[r] => deq[r] > 0 /\ ~Active(r) /\ wpc[r] # "writing"
        /\ target[r] # 0 => /\ outstanding[r] > 0 /\ ~Active(r)
                            /\ ~under_way(r) /\ Published
        /\ crashed => wpc[r] = "idle" /\ ~lingering[r]

(* What has been written: all that was taken from the queue, while the room *)
(* is alive.                                                                *)
LandInv ==
    \A r \in Rank :
        /\ landed[r] + (IF Busy(r) THEN 1 ELSE 0) <= deq[r]
        /\ ~crashed /\ Active(r) =>
             /\ landed[r] + (IF Busy(r) THEN 1 ELSE 0) = deq[r]
             /\ wpc[r] = "counted" \/ deq[r] < enq[r] => transfer_infos[r]

(* The rank has written everything and will not write again. *)
Done(r) ==
    /\ landed[r] = NumChunks /\ deq[r] = NumChunks
    /\ ~Busy(r) /\ ~lingering[r]

SuccessInv ==
    /\ \A r \in Rank :
         /\ pstatus[r] = "Success" => Done(r)
         /\ conclude_state[r] = "Success" => Done(r)
         /\ <<r, "Success">> \in stats => Done(r)
         /\ r \in tracker => Done(r)
         /\ dstatus = "Success" => Done(r)
         /\ dq = "committed" => Done(r)

(* The ABORT goes out once, and a rank has answered it, or is about to, only *)
(* when it is no longer under way.                                          *)
AbortInv ==
    /\ ~abort_notified =>
         acks = {} /\ ackmsgs = {} /\ \A r \in Rank : aborts[r] = {} /\ target[r] = 0
    /\ \A r \in Rank : aborts[r] # {} =>
         /\ r \notin acks /\ target[r] = 0 /\ dq # "released"
         /\ \A g \in Nat : <<r, g>> \notin ackmsgs
         /\ \A g, h \in aborts[r] : g = h

(* The rank will not write, unless its page indices were overtaken. *)
Answered(r) == stopped(r) \/ r \in overtaken

AckInv ==
    \A r \in Rank :
        /\ r \in acks => Published /\ Answered(r)
        /\ \A g \in Nat : <<r, g>> \in ackmsgs => Published /\ Answered(r)
        /\ dq = "released" => Answered(r)

Inv ==
    /\ TypeOK /\ SchedulerInv /\ PublishInv /\ DrainInv /\ LandInv
    /\ SuccessInv /\ AbortInv /\ AckInv

-----------------------------------------------------------------------------
(* Lemmas about the operators *)

(* What update_status makes of a status, for each new status the code sets. *)
LEMMA UpdateStatus ==
    \A s \in Status :
        /\ update_status(s, "Failed") = IF s = "none" THEN "none" ELSE "Failed"
        /\ update_status(s, "Success") =
              IF s \in {"none", "Failed"} THEN s ELSE "Success"
        /\ update_status(s, "Bootstrapping") =
              IF s = "none" THEN "Bootstrapping" ELSE s
        /\ update_status(s, "WaitingForInput") =
              IF s \in {"none", "Bootstrapping"} THEN "WaitingForInput" ELSE s
  BY DEF Status, update_status, KVPoll

(* The length tests of the code: as many ranks as Rank has are all of them. *)
LEMMA EveryRank ==
    ASSUME NEW S \in SUBSET Rank
    PROVE  /\ Cardinality(S) \in Nat /\ Cardinality(Rank) \in Nat
           /\ Cardinality(S) >= Cardinality(Rank) => S = Rank
<1>1. IsFiniteSet(S) /\ Cardinality(S) \in Nat /\ Cardinality(Rank) \in Nat
  BY RankAssumption, FS_Subset, FS_CardinalityType
<1> QED
  BY <1>1, RankAssumption, FS_Subset

(* The decode variables an ABORT notification touches stay in their types. *)
LEMMA NotifyTyped ==
    ASSUME NEW force_arm \in BOOLEAN, TypeOK, ensure_abort_notified(force_arm)
    PROVE  /\ generation' \in Nat /\ armed' \in Nat /\ acks' \in SUBSET Rank
           /\ aborts' \in [Rank -> SUBSET Nat] /\ abort_notified' \in BOOLEAN
<1>1. CASE ~abort_notified /\ bootstrap_infos
  <2>1. generation' \in Nat /\ armed' \in Nat /\ acks' \in SUBSET Rank
    BY <1>1 DEF TypeOK, ensure_abort_notified, send_abort_notification,
                register_deferred_abort_room
  <2>2. abort_notified' = TRUE
    BY <1>1 DEF ensure_abort_notified, send_abort_notification
  <2>3. aborts' \in [Rank -> SUBSET Nat]
    BY <1>1, <2>1 DEF TypeOK, ensure_abort_notified, send_abort_notification
  <2> QED  BY <2>1, <2>2, <2>3
<1>2. CASE ~(~abort_notified /\ bootstrap_infos)
  BY <1>2 DEF TypeOK, ensure_abort_notified
<1> QED  BY <1>1, <1>2

-----------------------------------------------------------------------------
(* Every action keeps the invariant: one lemma for each *)

LEMMA DecodeAddInv ==
    ASSUME Inv, DecodeAdd
    PROVE  Inv'
<1>1. TypeOK'
  BY UpdateStatus DEF Inv, DecodeAdd, network, scheduler, room, worker, TypeOK,
         Status
<1>2. PublishInv'
  BY UpdateStatus DEF Inv, DecodeAdd, network, scheduler, room, worker,
         PublishInv, Published, TypeOK
<1>3. DrainInv'
  BY UpdateStatus DEF Inv, DecodeAdd, network, scheduler, room, worker,
         DrainInv, Active, Published
<1>4. SuccessInv'
  BY UpdateStatus DEF Inv, DecodeAdd, network, scheduler, room, worker,
         SuccessInv, Done, Busy, TypeOK
<1>5. AckInv'
  BY UpdateStatus DEF Inv, DecodeAdd, network, scheduler, room, worker, AckInv,
         Published, Answered, stopped, writing
<1>6. SchedulerInv' /\ LandInv'
  BY DEF Inv, DecodeAdd, network, scheduler, room, worker, SchedulerInv,
         LandInv, Active, Busy
<1>7. AbortInv'
  BY DEF Inv, TypeOK, AbortInv, DecodeAdd, network, scheduler, room, worker
<1> QED  BY <1>1, <1>2, <1>3, <1>4, <1>5, <1>6, <1>7 DEF Inv

LEMMA DecodeInitInv ==
    ASSUME Inv, DecodeInit
    PROVE  Inv'
<1>1. TypeOK'
  <2>1. dstatus' \in Status
    BY UpdateStatus DEF Inv, TypeOK, DecodeInit, Status
  <2>2. faults' \in 0..MaxFaults
    BY FaultsAssumption DEF Inv, TypeOK, DecodeInit, Fault
  <2>3. bootstrap_infos' \in BOOLEAN
    BY DEF Inv, TypeOK, DecodeInit
  <2> QED
    BY <2>1, <2>2, <2>3 DEF Inv, DecodeInit, network, scheduler, room, worker, TypeOK
<1>2. PublishInv'
  BY UpdateStatus DEF Inv, DecodeInit, Fault, network, scheduler, room, worker,
         PublishInv, Published, TypeOK
<1>3. SuccessInv'
  BY UpdateStatus DEF Inv, DecodeInit, Fault, network, scheduler, room, worker,
         SuccessInv, Done, Busy, TypeOK
<1>4. SchedulerInv' /\ DrainInv' /\ LandInv' /\ AckInv'
  BY DEF Inv, DecodeInit, Fault, network, scheduler, room, worker,
         SchedulerInv, DrainInv, LandInv, AckInv, Active, Published, Busy,
         Answered, stopped, writing
<1>5. AbortInv'
  BY DEF Inv, TypeOK, AbortInv, DecodeInit, Fault, network, scheduler, room,
         worker
<1> QED  BY <1>1, <1>2, <1>3, <1>4, <1>5 DEF Inv

LEMMA PopPreallocatedInv ==
    ASSUME Inv, PopPreallocated
    PROVE  Inv'
<1>1. TypeOK'
  <2>1. dstatus' \in Status
    BY UpdateStatus DEF Inv, TypeOK, PopPreallocated, Status
  <2>2. faults' \in 0..MaxFaults
    BY FaultsAssumption DEF Inv, TypeOK, PopPreallocated, Fault
  <2>3. init_time' \in BOOLEAN
    BY DEF Inv, TypeOK, PopPreallocated
  <2>4. metas' \in [Rank -> {"none", "sent", "closed", "overtaken", "late"}]
    BY DEF PopPreallocated
  <2> QED
    BY <2>1, <2>2, <2>3, <2>4 DEF Inv, PopPreallocated, scheduler, room, worker, TypeOK
<1>2. PublishInv'
  BY UpdateStatus DEF Inv, PopPreallocated, Fault, scheduler, room, worker,
         PublishInv, Published
<1>3. DrainInv'
  BY UpdateStatus DEF Inv, PopPreallocated, Fault, scheduler, room, worker,
         DrainInv, Active, Published
<1>4. SuccessInv'
  BY UpdateStatus DEF Inv, PopPreallocated, Fault, scheduler, room, worker,
         SuccessInv, Done, Busy, TypeOK
<1>5. AckInv'
  BY UpdateStatus DEF Inv, PopPreallocated, Fault, scheduler, room, worker,
         AckInv, Published, Answered, stopped, writing
<1>6. SchedulerInv' /\ LandInv'
  BY DEF Inv, PopPreallocated, Fault, scheduler, room, worker, SchedulerInv,
         LandInv, Active, Busy
<1>7. AbortInv'
  BY DEF Inv, TypeOK, AbortInv, PopPreallocated, Fault, scheduler, room,
         worker
<1> QED  BY <1>1, <1>2, <1>3, <1>4, <1>5, <1>6, <1>7 DEF Inv

LEMMA DropPreallocInv ==
    ASSUME Inv, DropPrealloc
    PROVE  Inv'
<1>1. TypeOK'
  BY DEF Inv, DropPrealloc, network, scheduler, room, worker, TypeOK, Status
<1>2. PublishInv'
  BY DEF Inv, DropPrealloc, network, scheduler, room, worker, PublishInv,
         Published
<1>3. DrainInv'
  BY DEF Inv, DropPrealloc, network, scheduler, room, worker, DrainInv, Active,
         Published
<1>4. SuccessInv'
  BY DEF Inv, DropPrealloc, network, scheduler, room, worker, SuccessInv, Done,
         Busy
<1>5. AckInv'
  BY DEF Inv, DropPrealloc, network, scheduler, room, worker, AckInv,
         Published, Answered, stopped, writing
<1>6. SchedulerInv' /\ LandInv'
  BY DEF Inv, DropPrealloc, network, scheduler, room, worker, SchedulerInv,
         LandInv, Active, Busy
<1>7. AbortInv'
  BY DEF Inv, TypeOK, AbortInv, DropPrealloc, network, scheduler, room, worker
<1> QED  BY <1>1, <1>2, <1>3, <1>4, <1>5, <1>6, <1>7 DEF Inv

LEMMA DecodeAbortInv ==
    ASSUME Inv, DecodeAbort
    PROVE  Inv'
<1>1. TypeOK'
  <2>1. dstatus' \in Status
    BY UpdateStatus DEF Inv, TypeOK, DecodeAbort, Status
  <2> QED
    BY <2>1, NotifyTyped DEF Inv, DecodeAbort, scheduler, room, worker, TypeOK
<1>2. PublishInv'
  BY UpdateStatus DEF Inv, DecodeAbort, ensure_abort_notified,
         send_abort_notification, register_deferred_abort_room, scheduler,
         room, worker, PublishInv, Published, TypeOK
<1>3. SuccessInv'
  BY UpdateStatus DEF Inv, DecodeAbort, ensure_abort_notified,
         send_abort_notification, register_deferred_abort_room, scheduler,
         room, worker, SuccessInv, Done, Busy, TypeOK
<1>4. AckInv'
  BY UpdateStatus DEF Inv, DecodeAbort, ensure_abort_notified,
         send_abort_notification, register_deferred_abort_room, scheduler,
         room, worker, AckInv, Published, Answered, stopped, writing
<1>5. SchedulerInv' /\ DrainInv' /\ LandInv'
  BY DEF Inv, DecodeAbort, ensure_abort_notified, send_abort_notification,
         register_deferred_abort_room, scheduler, room, worker, SchedulerInv,
         DrainInv, LandInv, Active, Published, Busy
<1>6. AbortInv'
  BY DEF Inv, TypeOK, AbortInv, DecodeAbort, scheduler, room, worker,
         ensure_abort_notified, send_abort_notification,
         register_deferred_abort_room
<1> QED  BY <1>1, <1>2, <1>3, <1>4, <1>5, <1>6 DEF Inv

LEMMA WaitingTimeoutInv ==
    ASSUME Inv, WaitingTimeout
    PROVE  Inv'
<1>1. TypeOK'
  <2>1. dstatus' \in Status
    BY UpdateStatus DEF Inv, TypeOK, WaitingTimeout, Status
  <2> QED
    BY <2>1, NotifyTyped DEF Inv, WaitingTimeout, scheduler, room, worker, TypeOK
<1>2. PublishInv'
  BY UpdateStatus DEF Inv, WaitingTimeout, ensure_abort_notified,
         send_abort_notification, register_deferred_abort_room, scheduler,
         room, worker, PublishInv, Published
<1>3. SuccessInv'
  BY UpdateStatus DEF Inv, WaitingTimeout, ensure_abort_notified,
         send_abort_notification, register_deferred_abort_room, scheduler,
         room, worker, SuccessInv, Done, Busy, TypeOK
<1>4. AckInv'
  BY UpdateStatus DEF Inv, WaitingTimeout, ensure_abort_notified,
         send_abort_notification, register_deferred_abort_room, scheduler,
         room, worker, AckInv, Published, Answered, stopped, writing
<1>5. SchedulerInv' /\ DrainInv' /\ LandInv'
  BY DEF Inv, WaitingTimeout, ensure_abort_notified, send_abort_notification,
         register_deferred_abort_room, scheduler, room, worker, SchedulerInv,
         DrainInv, LandInv, Active, Published, Busy
<1>6. AbortInv'
  BY DEF Inv, TypeOK, AbortInv, WaitingTimeout, scheduler, room, worker,
         ensure_abort_notified, send_abort_notification,
         register_deferred_abort_room
<1> QED  BY <1>1, <1>2, <1>3, <1>4, <1>5, <1>6 DEF Inv

(* Closing the sockets brings no message back and overtakes no indices. *)
LEMMA DisconnectKeeps ==
    ASSUME TypeOK, disconnect_endpoints
    PROVE  /\ metas' \in [Rank -> {"none", "sent", "closed", "overtaken", "late"}]
           /\ aborts' \in [Rank -> SUBSET Nat]
           /\ \A r \in Rank : /\ under_way(r)' => under_way(r)
                              /\ metas[r] = "none" => metas'[r] = "none"
                              /\ r \in overtaken' <=> r \in overtaken
                              /\ aborts'[r] \subseteq aborts[r]
  BY DEF TypeOK, disconnect_endpoints

LEMMA NodeFailureInv ==
    ASSUME Inv, NodeFailure
    PROVE  Inv'
<1>0. disconnect_endpoints /\ TypeOK
  BY DEF Inv, NodeFailure
<1>1. TypeOK'
  BY <1>0, DisconnectKeeps, UpdateStatus, FaultsAssumption DEF Inv, NodeFailure,
         Fault, scheduler, room, worker, TypeOK, Status
<1>2. PublishInv'
  BY <1>0, DisconnectKeeps, UpdateStatus DEF Inv, NodeFailure, scheduler, room,
         worker, PublishInv, Published, TypeOK
<1>3. SuccessInv'
  BY UpdateStatus DEF Inv, NodeFailure, Fault, scheduler, room,
         worker, SuccessInv, Done, Busy, TypeOK
<1>4. SchedulerInv' /\ DrainInv' /\ LandInv'
  BY <1>0, DisconnectKeeps DEF Inv, NodeFailure, scheduler, room, worker,
         SchedulerInv, DrainInv, LandInv, Active, Published, Busy
<1>5. AckInv'
  BY <1>0, DisconnectKeeps DEF Inv, NodeFailure, scheduler, room, worker,
         AckInv, Published, Answered, stopped, writing
<1>6. AbortInv'
  BY <1>0, DisconnectKeeps DEF Inv, AbortInv, NodeFailure, room
<1> QED  BY <1>1, <1>2, <1>3, <1>4, <1>5, <1>6 DEF Inv

LEMMA RecvStatusInv ==
    ASSUME NEW r \in Rank, NEW s \in {"Success", "Failed"}, Inv, RecvStatus(r, s)
    PROVE  Inv'
<1>1. TypeOK'
  BY UpdateStatus DEF Inv, RecvStatus, scheduler, room, worker, TypeOK, Status
<1>2. PublishInv'
  BY UpdateStatus DEF Inv, RecvStatus, scheduler, room, worker, PublishInv,
         Published, TypeOK
<1>3. SuccessInv'
  <2>1. \A q \in Rank : Done(q) <=> Done(q)'
    BY DEF RecvStatus, worker, Done, Busy
  <2>2. \A q \in tracker' : Done(q)
    BY DEF Inv, TypeOK, SuccessInv, RecvStatus
  <2>3. ASSUME dstatus' = "Success", dstatus # "Success"
        PROVE  tracker' = Rank
    <3>1. dstatus # "none" /\ s = "Success"
      BY <2>3, UpdateStatus DEF Inv, TypeOK, RecvStatus
    <3>2. ~(Cardinality(tracker') < Cardinality(Rank)) /\ tracker' \in SUBSET Rank
      BY <2>3, <3>1 DEF Inv, TypeOK, RecvStatus
    <3> QED  BY <3>2, EveryRank
  <2> QED
    BY <2>1, <2>2, <2>3 DEF Inv, TypeOK, SuccessInv, RecvStatus, scheduler, room
<1>4. SchedulerInv' /\ DrainInv' /\ LandInv' /\ AckInv'
  BY DEF Inv, RecvStatus, scheduler, room, worker, SchedulerInv, DrainInv,
         LandInv, AckInv, Active, Published, Busy, Answered, stopped, writing
<1>5. AbortInv'
  BY DEF Inv, TypeOK, AbortInv, RecvStatus, scheduler, room, worker
<1> QED  BY <1>1, <1>2, <1>3, <1>4, <1>5 DEF Inv

LEMMA RecvAckInv ==
    ASSUME NEW r \in Rank, NEW g \in Nat, Inv, RecvAck(r, g)
    PROVE  Inv'
<1>1. TypeOK'
  BY DEF Inv, RecvAck, scheduler, room, worker, TypeOK, Status
<1>2. AckInv'
  BY DEF Inv, RecvAck, scheduler, room, worker, AckInv, Published, Answered, stopped,
         writing
<1>3. SchedulerInv' /\ PublishInv' /\ DrainInv' /\ LandInv' /\ SuccessInv'
  BY DEF Inv, RecvAck, scheduler, room, worker, SchedulerInv, PublishInv,
         DrainInv, LandInv, SuccessInv, Active, Published, Busy, Done
<1>4. AbortInv'
  BY DEF Inv, TypeOK, AbortInv, RecvAck, scheduler, room, worker
<1> QED  BY <1>1, <1>2, <1>3, <1>4 DEF Inv

LEMMA CommitTransferInv ==
    ASSUME Inv, CommitTransfer
    PROVE  Inv'
<1>1. TypeOK'
  BY DEF Inv, CommitTransfer, network, scheduler, room, worker, TypeOK, Status
<1>2. PublishInv'
  BY DEF Inv, CommitTransfer, network, scheduler, room, worker, PublishInv,
         Published
<1>3. DrainInv'
  BY DEF Inv, CommitTransfer, network, scheduler, room, worker, DrainInv,
         Active, Published
<1>4. SuccessInv'
  BY DEF Inv, CommitTransfer, network, scheduler, room, worker, SuccessInv,
         Done, Busy
<1>5. AckInv'
  BY DEF Inv, CommitTransfer, network, scheduler, room, worker, AckInv,
         Published, Answered, stopped, writing
<1>6. SchedulerInv' /\ LandInv'
  BY DEF Inv, CommitTransfer, network, scheduler, room, worker, SchedulerInv,
         LandInv, Active, Busy
<1>7. AbortInv'
  BY DEF Inv, TypeOK, AbortInv, CommitTransfer, network, scheduler, room,
         worker
<1> QED  BY <1>1, <1>2, <1>3, <1>4, <1>5, <1>6, <1>7 DEF Inv

LEMMA FailTransferInv ==
    ASSUME Inv, FailTransfer
    PROVE  Inv'
<1>1. TypeOK'
  <2>1. dq' \in {"deferred", "released"} /\ dstatus' = "none" /\ tracker' = {}
    BY DEF FailTransfer
  <2> QED
    BY <2>1, NotifyTyped DEF Inv, FailTransfer, scheduler, room, worker, TypeOK,
                             Status
<1>2. PublishInv'
  BY DEF Inv, FailTransfer, ensure_abort_notified, send_abort_notification,
         register_deferred_abort_room, scheduler, room, worker, PublishInv,
         Published
<1>3. DrainInv'
  BY DEF Inv, FailTransfer, ensure_abort_notified, send_abort_notification,
         register_deferred_abort_room, scheduler, room, worker, DrainInv,
         Active, Published
<1>4. SuccessInv'
  BY DEF Inv, FailTransfer, ensure_abort_notified, send_abort_notification,
         register_deferred_abort_room, scheduler, room, worker, SuccessInv,
         Done, Busy
<1>5. AckInv'
  BY DEF Inv, FailTransfer, ensure_abort_notified, send_abort_notification,
         register_deferred_abort_room, scheduler, room, worker, AckInv,
         Published, Answered, stopped, writing, TypeOK, PublishInv, DrainInv, Active
<1>6. SchedulerInv' /\ LandInv'
  BY DEF Inv, FailTransfer, ensure_abort_notified, send_abort_notification,
         register_deferred_abort_room, scheduler, room, worker, SchedulerInv,
         LandInv, Active, Busy
<1>7. AbortInv'
  BY DEF Inv, TypeOK, AbortInv, FailTransfer, scheduler, room, worker,
         ensure_abort_notified, send_abort_notification,
         register_deferred_abort_room
<1> QED  BY <1>1, <1>2, <1>3, <1>4, <1>5, <1>6, <1>7 DEF Inv

(* Pages are released on the answers of all ranks. *)
LEMMA ReleaseNeedsEveryAck ==
    ASSUME TypeOK, DrainedRelease
    PROVE  acks = Rank
<1> DEFINE answered == IF armed # 0 THEN acks ELSE {}
<1>1. answered \in SUBSET Rank /\ Cardinality(answered) >= Cardinality(Rank)
  BY DEF TypeOK, DrainedRelease, ResolveDeferred, is_abort_release_safe
<1>2. answered = Rank
  BY <1>1, EveryRank
<1> QED  BY <1>2, RankAssumption

LEMMA DrainedReleaseInv ==
    ASSUME Inv, DrainedRelease
    PROVE  Inv'
<1>1. TypeOK'
  BY DEF Inv, DrainedRelease, ResolveDeferred, is_abort_release_safe, network,
         scheduler, room, worker, TypeOK, Status
<1>2. PublishInv'
  BY DEF Inv, DrainedRelease, ResolveDeferred, is_abort_release_safe, network,
         scheduler, room, worker, PublishInv, Published
<1>3. DrainInv'
  BY DEF Inv, DrainedRelease, ResolveDeferred, is_abort_release_safe, network,
         scheduler, room, worker, DrainInv, Active, Published
<1>4. SuccessInv'
  BY DEF Inv, DrainedRelease, ResolveDeferred, is_abort_release_safe, network,
         scheduler, room, worker, SuccessInv, Done, Busy
<1>5. AckInv'
  <2>1. acks = Rank
    BY ReleaseNeedsEveryAck DEF Inv
  <2>2. \A q \in Rank : Answered(q)'
    BY <2>1 DEF Inv, AckInv, Answered, stopped, writing, DrainedRelease, ResolveDeferred,
                network, scheduler, room, worker
  <2> QED
    BY <2>2 DEF Inv, AckInv, Published, DrainedRelease, ResolveDeferred, network
<1>6. SchedulerInv' /\ LandInv'
  BY DEF Inv, DrainedRelease, ResolveDeferred, is_abort_release_safe, network,
         scheduler, room, worker, SchedulerInv, LandInv, Active, Busy
<1>7. AbortInv'
  <2>1. acks = Rank
    BY ReleaseNeedsEveryAck DEF Inv
  <2> QED
    BY <2>1, RankAssumption DEF Inv, AbortInv, DrainedRelease, ResolveDeferred,
           network, room
<1> QED  BY <1>1, <1>2, <1>3, <1>4, <1>5, <1>6, <1>7 DEF Inv

LEMMA ReleaseTimeoutInv ==
    ASSUME Inv, ReleaseTimeout
    PROVE  Inv'
<1>1. TypeOK'
  BY DEF Inv, ReleaseTimeout, ResolveDeferred, network, scheduler, room,
         worker, TypeOK, Status
<1>2. PublishInv'
  BY DEF Inv, ReleaseTimeout, ResolveDeferred, network, scheduler, room,
         worker, PublishInv, Published
<1>3. DrainInv'
  BY DEF Inv, ReleaseTimeout, ResolveDeferred, network, scheduler, room,
         worker, DrainInv, Active, Published
<1>4. SuccessInv'
  BY DEF Inv, ReleaseTimeout, ResolveDeferred, network, scheduler, room,
         worker, SuccessInv, Done, Busy
<1>5. AckInv'
  BY DEF Inv, ReleaseTimeout, ResolveDeferred, network, scheduler, room,
         worker, AckInv, Published, Answered, stopped, writing
<1>6. SchedulerInv' /\ LandInv'
  BY DEF Inv, ReleaseTimeout, ResolveDeferred, network, scheduler, room,
         worker, SchedulerInv, LandInv, Active, Busy
<1>7. AbortInv'
  BY DEF Inv, TypeOK, AbortInv, ReleaseTimeout, ResolveDeferred, network,
         scheduler, room, worker
<1> QED  BY <1>1, <1>2, <1>3, <1>4, <1>5, <1>6, <1>7 DEF Inv

LEMMA RecvMetaInv ==
    ASSUME NEW r \in Rank, Inv, RecvMeta(r)
    PROVE  Inv'
<1>0. /\ ~crashed /\ under_way(r) /\ ~under_way(r)'
      /\ metas' \in [Rank -> {"none", "sent", "closed", "overtaken", "late"}]
      /\ \A q \in Rank : /\ q # r => metas'[q] = metas[q]
                         /\ q \in overtaken' <=> q \in overtaken
  BY DEF Inv, TypeOK, RecvMeta, taken
<1>1. TypeOK'
  <2>1. pstatus' \in [Rank -> Status]
    BY UpdateStatus DEF Inv, TypeOK, RecvMeta, open_room, Status
  <2>2. /\ target' \in [Rank -> Nat] /\ outstanding' \in [Rank -> Nat]
        /\ poisoned' \in [Rank -> BOOLEAN] /\ transfer_infos' \in [Rank -> BOOLEAN]
    BY DEF Inv, TypeOK, RecvMeta, open_room
  <2> QED
    BY <1>0, <2>1, <2>2 DEF Inv, TypeOK, RecvMeta, decode, scheduler, worker
<1>2. SchedulerInv'
  BY UpdateStatus DEF Inv, RecvMeta, open_room, decode, scheduler, worker,
         SchedulerInv, Active, TypeOK, PublishInv, DrainInv, Published
<1>3. PublishInv'
  BY <1>0, UpdateStatus DEF Inv, RecvMeta, open_room, decode, scheduler, worker,
         PublishInv, Published, TypeOK
<1>4. DrainInv'
  BY <1>0, UpdateStatus DEF Inv, RecvMeta, open_room, decode, scheduler, worker,
         DrainInv, Active, Published, TypeOK, SchedulerInv, PublishInv
<1>5. LandInv'
  BY UpdateStatus DEF Inv, RecvMeta, open_room, decode, scheduler, worker,
         LandInv, Active, Busy, TypeOK, SchedulerInv, PublishInv, DrainInv,
         Published
<1>6. SuccessInv'
  BY UpdateStatus DEF Inv, RecvMeta, open_room, decode, scheduler, worker,
         SuccessInv, Done, Busy, TypeOK
<1>7. AckInv'
  <2>1. ASSUME NEW q \in Rank, q # r, stopped(q)
        PROVE  stopped(q)'
    BY <1>0, <2>1 DEF Inv, TypeOK, RecvMeta, open_room, scheduler, worker,
                      stopped, writing
  <2>2. ASSUME stopped(r)
        PROVE  stopped(r)'
    <3>1. enq[r] = 0 /\ deq[r] = 0 /\ wpc[r] = "idle"
      BY <1>0 DEF Inv, TypeOK, PublishInv, SchedulerInv, DrainInv
    <3>2. pstatus[r] = "Failed" => pstatus'[r] = "Failed"
      BY UpdateStatus DEF Inv, TypeOK, RecvMeta, open_room
    <3> QED
      BY <1>0, <2>2, <3>1, <3>2 DEF RecvMeta, scheduler, worker, stopped, writing
  <2>3. \A q \in Rank : Answered(q) => Answered(q)'
    BY <1>0, <2>1, <2>2 DEF Answered
  <2> QED
    BY <2>3 DEF Inv, AckInv, RecvMeta, decode, Published
<1>8. AbortInv'
  BY DEF Inv, TypeOK, AbortInv, RecvMeta, open_room, decode, scheduler, worker
<1> QED  BY <1>1, <1>2, <1>3, <1>4, <1>5, <1>6, <1>7, <1>8 DEF Inv

LEMMA RecvAbortInv ==
    ASSUME NEW r \in Rank, NEW g \in Nat, Inv, RecvAbort(r, g)
    PROVE  Inv'
<1>0. /\ ~crashed /\ g \in aborts[r]
      /\ metas' \in [Rank -> {"none", "sent", "closed", "overtaken", "late"}]
      /\ \A q \in Rank : /\ under_way(q)' <=> under_way(q)
                         /\ q # r => metas'[q] = metas[q]
                         /\ metas[q] = "none" => metas'[q] = "none"
                         /\ q \in overtaken => q \in overtaken'
      /\ under_way(r) /\ pstatus[r] = "none" => r \in overtaken'
  BY DEF Inv, TypeOK, RecvAbort, overtake
<1>1. TypeOK'
  <2>1. pstatus' \in [Rank -> Status]
    BY UpdateStatus DEF Inv, TypeOK, RecvAbort, Status
  <2>2. /\ target' \in [Rank -> Nat] /\ aborts' \in [Rank -> SUBSET Nat]
        /\ ackmsgs' \in SUBSET (Rank \X Nat)
    BY DEF Inv, TypeOK, RecvAbort, maybe_ack_drained_abort
  <2> QED
    BY <1>0, <2>1, <2>2 DEF Inv, TypeOK, RecvAbort, decode, scheduler, worker
<1>2. SchedulerInv'
  BY UpdateStatus DEF Inv, RecvAbort, maybe_ack_drained_abort, decode,
         scheduler, worker, SchedulerInv, Active, TypeOK
<1>3. PublishInv'
  BY <1>0, UpdateStatus DEF Inv, RecvAbort, maybe_ack_drained_abort, decode,
         scheduler, worker, PublishInv, Published, TypeOK
<1>4. DrainInv'
  BY <1>0, UpdateStatus DEF Inv, RecvAbort, maybe_ack_drained_abort, decode,
         scheduler, worker, DrainInv, Active, Published, TypeOK, PublishInv,
         SchedulerInv
<1>5. LandInv'
  BY UpdateStatus DEF Inv, RecvAbort, maybe_ack_drained_abort, decode,
         scheduler, worker, LandInv, Active, Busy, TypeOK
<1>6. SuccessInv'
  BY UpdateStatus DEF Inv, RecvAbort, maybe_ack_drained_abort, decode,
         scheduler, worker, SuccessInv, Done, Busy, TypeOK
<1>7. AckInv'
  <2>1. ASSUME NEW q \in Rank, Answered(q)
        PROVE  Answered(q)'
    <3>1. CASE q \in overtaken
      BY <1>0, <3>1 DEF Answered
    <3>2. CASE stopped(q)
      BY <1>0, <3>2, UpdateStatus DEF Inv, TypeOK, RecvAbort, scheduler, worker,
                                      Answered, stopped, writing
    <3> QED  BY <2>1, <3>1, <3>2 DEF Answered
  <2>2. ASSUME outstanding[r] = 0, ~poisoned[r]
        PROVE  Answered(r)'
    <3>1. wpc[r] = "idle" /\ r \notin writing /\ r \notin writing'
      BY <2>2 DEF Inv, DrainInv, RecvAbort, worker, writing
    <3>2. pstatus'[r] = IF pstatus[r] \in {"none", "Success"} THEN pstatus[r]
                        ELSE "Failed"
      BY <2>2, UpdateStatus DEF Inv, TypeOK, RecvAbort
    <3>3. CASE pstatus[r] = "Success"
      <4>0. enq[r] \in 0..NumChunks /\ nsent \in 0..NumChunks /\ deq[r] = NumChunks
        BY <3>3 DEF Inv, SuccessInv, Done, TypeOK
      <4>1. deq[r] = NumChunks /\ enq[r] <= NumChunks /\ nsent = NumChunks
        BY <4>0, ChunksAssumption DEF Inv, SchedulerInv
      <4>2. preq \notin {"none", "bootstrap", "running"}
        BY <4>1, ChunksAssumption DEF Inv, SchedulerInv
      <4> QED
        BY <3>1, <4>1, <4>2 DEF Inv, TypeOK, RecvAbort, scheduler, worker,
                                Answered, stopped
    <3>4. CASE pstatus[r] = "none" /\ ~under_way(r)
      <4>1. preq \in {"none", "bootstrap", "running"} => ~transfer_infos[r]
        BY <3>4 DEF Inv, SchedulerInv
      <4> QED
        BY <1>0, <3>1, <3>2, <3>4, <4>1 DEF RecvAbort, scheduler, worker,
                                            Answered, stopped
    <3>5. CASE pstatus[r] = "none" /\ under_way(r)
      BY <1>0, <3>5 DEF Answered
    <3>6. CASE pstatus[r] \notin {"none", "Success"}
      BY <3>1, <3>2, <3>6 DEF Answered, stopped
    <3> QED  BY <3>3, <3>4, <3>5, <3>6
  <2>3. g # 0 => Published
    BY <1>0 DEF Inv, PublishInv
  <2>4. ASSUME NEW q \in Rank, NEW h \in Nat,
               <<q, h>> \in ackmsgs', <<q, h>> \notin ackmsgs
        PROVE  q = r /\ outstanding[r] = 0 /\ ~poisoned[r] /\ g # 0
    BY <2>4 DEF RecvAbort, maybe_ack_drained_abort
  <2>5. Published' = Published /\ acks' = acks /\ dq' = dq
    BY DEF RecvAbort, decode, Published
  <2> QED
    BY <2>1, <2>2, <2>3, <2>4, <2>5 DEF Inv, AckInv
<1>8. AbortInv'
  BY DEF Inv, TypeOK, AbortInv, RecvAbort, maybe_ack_drained_abort, decode,
         scheduler, worker
<1> QED  BY <1>1, <1>2, <1>3, <1>4, <1>5, <1>6, <1>7, <1>8 DEF Inv

LEMMA DequeueInv ==
    ASSUME NEW r \in Rank, Inv, Dequeue(r)
    PROVE  Inv'
<1>1. TypeOK'
  BY ChunksAssumption, FaultsAssumption DEF Inv, Dequeue, decode, network,
         scheduler, TypeOK, Status
<1>2. SchedulerInv'
  BY DEF Inv, Dequeue, decode, network, scheduler, SchedulerInv, Active, TypeOK
<1>3. DrainInv'
  BY DEF Inv, Dequeue, decode, network, scheduler, DrainInv, Active, Published,
         TypeOK
<1>4. LandInv'
  BY DEF Inv, Dequeue, decode, network, scheduler, LandInv, Active, Busy,
         TypeOK
<1>5. SuccessInv'
  BY DEF Inv, Dequeue, decode, network, scheduler, SuccessInv, Done, Busy,
         TypeOK
<1>6. AckInv'
  BY DEF Inv, Dequeue, decode, network, scheduler, AckInv, Published, Answered, stopped,
         writing
<1>7. PublishInv'
  BY DEF Inv, Dequeue, decode, network, scheduler, PublishInv, Published
<1>8. AbortInv'
  BY DEF Inv, TypeOK, AbortInv, Dequeue, decode, network, scheduler
<1> QED  BY <1>1, <1>2, <1>3, <1>4, <1>5, <1>6, <1>7, <1>8 DEF Inv

LEMMA SkipChunkInv ==
    ASSUME NEW r \in Rank, Inv, SkipChunk(r)
    PROVE  Inv'
<1>1. TypeOK'
  BY DEF Inv, SkipChunk, maybe_ack_drained_abort, decode, scheduler, TypeOK,
         Status
<1>2. DrainInv'
  BY DEF Inv, SkipChunk, maybe_ack_drained_abort, decode, scheduler, DrainInv,
         Active, Published, TypeOK
<1>3. LandInv'
  BY DEF Inv, SkipChunk, maybe_ack_drained_abort, decode, scheduler, LandInv,
         Active, Busy, TypeOK
<1>4. SuccessInv'
  BY DEF Inv, SkipChunk, maybe_ack_drained_abort, decode, scheduler,
         SuccessInv, Done, Busy
<1>5. AckInv'
  BY DEF Inv, SkipChunk, maybe_ack_drained_abort, decode, scheduler, AckInv,
         Published, Answered, stopped, writing, TypeOK, SchedulerInv, PublishInv,
         DrainInv, Active
<1>6. SchedulerInv' /\ PublishInv'
  BY DEF Inv, SkipChunk, maybe_ack_drained_abort, decode, scheduler,
         SchedulerInv, PublishInv, Active, Published
<1>7. AbortInv'
  BY DEF Inv, TypeOK, AbortInv, SkipChunk, maybe_ack_drained_abort, decode,
         scheduler
<1> QED  BY <1>1, <1>2, <1>3, <1>4, <1>5, <1>6, <1>7 DEF Inv

LEMMA StartWriteInv ==
    ASSUME NEW r \in Rank, Inv, StartWrite(r)
    PROVE  Inv'
<1>1. TypeOK'
  BY DEF Inv, StartWrite, decode, network, scheduler, room, TypeOK, Status
<1>2. DrainInv'
  BY DEF Inv, StartWrite, decode, network, scheduler, room, DrainInv, Active,
         Published
<1>3. LandInv'
  BY DEF Inv, StartWrite, decode, network, scheduler, room, LandInv, Active,
         Busy
<1>4. SuccessInv'
  BY DEF Inv, StartWrite, decode, network, scheduler, room, SuccessInv, Done,
         Busy
<1>5. AckInv'
  BY DEF Inv, StartWrite, decode, network, scheduler, room, AckInv, Published,
         Answered, stopped, writing
<1>6. SchedulerInv' /\ PublishInv'
  BY DEF Inv, StartWrite, decode, network, scheduler, room, SchedulerInv,
         PublishInv, Active, Published
<1>7. AbortInv'
  BY DEF Inv, TypeOK, AbortInv, StartWrite, decode, network, scheduler, room
<1> QED  BY <1>1, <1>2, <1>3, <1>4, <1>5, <1>6, <1>7 DEF Inv

LEMMA RejectChunkInv ==
    ASSUME NEW r \in Rank, Inv, RejectChunk(r)
    PROVE  Inv'
<1>1. TypeOK'
  BY UpdateStatus, ChunksAssumption, FaultsAssumption DEF Inv, RejectChunk,
         Fault, decode, scheduler, TypeOK, Status
<1>2. SchedulerInv'
  BY UpdateStatus DEF Inv, RejectChunk, Fault, decode, scheduler, SchedulerInv,
         Active, TypeOK
<1>3. DrainInv'
  BY UpdateStatus DEF Inv, RejectChunk, Fault, decode, scheduler, DrainInv,
         Active, Published
<1>4. LandInv'
  BY UpdateStatus DEF Inv, RejectChunk, Fault, decode, scheduler, LandInv,
         Active, Busy, TypeOK
<1>5. SuccessInv'
  BY UpdateStatus DEF Inv, RejectChunk, Fault, decode, scheduler, SuccessInv,
         Done, Busy, TypeOK
<1>6. AckInv'
  BY UpdateStatus DEF Inv, RejectChunk, Fault, decode, scheduler, AckInv,
         Published, Answered, stopped, writing
<1>7. PublishInv'
  BY DEF Inv, RejectChunk, Fault, decode, scheduler, PublishInv, Published
<1>8. AbortInv'
  BY DEF Inv, TypeOK, AbortInv, RejectChunk, Fault, decode, scheduler
<1> QED  BY <1>1, <1>2, <1>3, <1>4, <1>5, <1>6, <1>7, <1>8 DEF Inv

LEMMA WriteDoneInv ==
    ASSUME NEW r \in Rank, Inv, WriteDone(r)
    PROVE  Inv'
<1>1. TypeOK'
  <2>1. landed' \in [Rank -> 0..NumChunks]
    BY ChunksAssumption DEF Inv, WriteDone, TypeOK, LandInv, Busy
  <2>2. pstatus' \in [Rank -> Status]
    BY UpdateStatus DEF Inv, TypeOK, WriteDone, conclude_transfer, Status
  <2>3. stats' \in SUBSET (Rank \X {"Success", "Failed"})
    BY DEF Inv, TypeOK, WriteDone, conclude_transfer, sync_failed
  <2> QED
    BY <2>1, <2>2, <2>3 DEF Inv, TypeOK, WriteDone, decode, scheduler
<1>2. SchedulerInv'
  BY UpdateStatus DEF Inv, WriteDone, conclude_transfer, sync_failed, last_chunk, decode,
         scheduler, SchedulerInv, Active, TypeOK
<1>3. DrainInv'
  BY UpdateStatus DEF Inv, WriteDone, conclude_transfer, sync_failed, last_chunk, decode,
         scheduler, DrainInv, Active, Published, TypeOK
<1>4. LandInv'
  BY UpdateStatus DEF Inv, WriteDone, conclude_transfer, sync_failed, last_chunk, decode,
         scheduler, LandInv, Active, Busy, TypeOK, SchedulerInv, PublishInv,
         DrainInv, Published
<1>5. SuccessInv'
  BY UpdateStatus, ChunksAssumption, FaultsAssumption DEF Inv, WriteDone,
         conclude_transfer, sync_failed, last_chunk, decode, scheduler, SuccessInv, Done,
         Busy, TypeOK, SchedulerInv, PublishInv, DrainInv, LandInv, Active,
         Published
<1>6. AckInv'
  BY UpdateStatus DEF Inv, WriteDone, conclude_transfer, sync_failed, last_chunk, decode,
         scheduler, AckInv, Published, Answered, stopped, writing, TypeOK
<1>7. PublishInv'
  BY DEF Inv, WriteDone, conclude_transfer, sync_failed, last_chunk, decode, scheduler,
         PublishInv, Published
<1>8. AbortInv'
  BY DEF Inv, TypeOK, AbortInv, WriteDone, conclude_transfer, sync_failed, last_chunk,
         decode, scheduler
<1> QED  BY <1>1, <1>2, <1>3, <1>4, <1>5, <1>6, <1>7, <1>8 DEF Inv

LEMMA WriteErrorInv ==
    ASSUME NEW r \in Rank, NEW b \in BOOLEAN, Inv, WriteError(r, b)
    PROVE  Inv'
<1>1. TypeOK'
  BY UpdateStatus, ChunksAssumption, FaultsAssumption DEF Inv, WriteError,
         Fault, sync_failed, decode, scheduler, TypeOK, Status
<1>2. SchedulerInv'
  BY UpdateStatus DEF Inv, WriteError, Fault, decode, scheduler, SchedulerInv,
         Active, TypeOK
<1>3. DrainInv'
  BY UpdateStatus DEF Inv, WriteError, Fault, decode, scheduler, DrainInv,
         Active, Published, TypeOK
<1>4. LandInv'
  BY UpdateStatus DEF Inv, WriteError, Fault, decode, scheduler, LandInv,
         Active, Busy, TypeOK
<1>5. SuccessInv'
  BY UpdateStatus DEF Inv, WriteError, Fault, sync_failed, decode, scheduler, SuccessInv,
         Done, Busy, TypeOK
<1>6. AckInv'
  BY UpdateStatus DEF Inv, WriteError, Fault, decode, scheduler, AckInv,
         Published, Answered, stopped, writing
<1>7. PublishInv'
  BY DEF Inv, WriteError, Fault, decode, scheduler, PublishInv, Published
<1>8. AbortInv'
  BY DEF Inv, TypeOK, AbortInv, WriteError, Fault, decode, scheduler
<1> QED  BY <1>1, <1>2, <1>3, <1>4, <1>5, <1>6, <1>7, <1>8 DEF Inv

LEMMA WriteExceptionInv ==
    ASSUME NEW r \in Rank, NEW b \in BOOLEAN, Inv, WriteException(r, b)
    PROVE  Inv'
<1>1. TypeOK'
  BY UpdateStatus, ChunksAssumption, FaultsAssumption DEF Inv, WriteException,
         Fault, decode, network, scheduler, TypeOK, Status
<1>2. SchedulerInv'
  BY UpdateStatus DEF Inv, WriteException, Fault, decode, network, scheduler,
         SchedulerInv, Active, TypeOK
<1>3. DrainInv'
  BY UpdateStatus DEF Inv, WriteException, Fault, decode, network, scheduler,
         DrainInv, Active, Published, TypeOK
<1>4. LandInv'
  BY UpdateStatus DEF Inv, WriteException, Fault, decode, network, scheduler,
         LandInv, Active, Busy, TypeOK
<1>5. SuccessInv'
  BY UpdateStatus DEF Inv, WriteException, Fault, decode, network, scheduler,
         SuccessInv, Done, Busy, TypeOK
<1>6. AckInv'
  BY UpdateStatus DEF Inv, WriteException, Fault, decode, network, scheduler,
         AckInv, Published, Answered, stopped, writing
<1>7. PublishInv'
  BY DEF Inv, WriteException, Fault, decode, network, scheduler, PublishInv,
         Published
<1>8. AbortInv'
  BY DEF Inv, TypeOK, AbortInv, WriteException, Fault, decode, network,
         scheduler
<1> QED  BY <1>1, <1>2, <1>3, <1>4, <1>5, <1>6, <1>7, <1>8 DEF Inv

LEMMA FinishChunkInv ==
    ASSUME NEW r \in Rank, Inv, FinishChunk(r)
    PROVE  Inv'
<1>1. TypeOK'
  BY ChunksAssumption, FaultsAssumption DEF Inv, FinishChunk,
         maybe_ack_drained_abort, decode, scheduler, TypeOK, Status,
         PublishInv, DrainInv, Published, Active
<1>2. SchedulerInv'
  BY DEF Inv, FinishChunk, maybe_ack_drained_abort, decode, scheduler,
         SchedulerInv, Active, TypeOK
<1>3. PublishInv'
  BY DEF Inv, FinishChunk, maybe_ack_drained_abort, decode, scheduler,
         PublishInv, Published, TypeOK
<1>4. DrainInv'
  BY DEF Inv, FinishChunk, maybe_ack_drained_abort, decode, scheduler,
         DrainInv, Active, Published, TypeOK
<1>5. LandInv'
  <2>0. enq[r] \in 0..NumChunks
    BY DEF Inv, TypeOK
  <2>1. pstatus[r] = "Success" => deq[r] = NumChunks /\ enq[r] <= NumChunks
    <3>1. pstatus[r] = "Success" => Done(r)
      BY DEF Inv, SuccessInv
    <3> QED  BY <2>0, <3>1, ChunksAssumption DEF Done
  <2>2. Active(r) /\ pstatus[r] # "Success" => transfer_infos'[r] = transfer_infos[r]
    BY DEF Inv, TypeOK, FinishChunk, Active
  <2>3. \A q \in Rank : q # r => /\ transfer_infos'[q] = transfer_infos[q]
                                /\ wpc'[q] = wpc[q]
    BY DEF Inv, TypeOK, FinishChunk
  <2>4. wpc[r] = "ending" /\ wpc'[r] = "idle"
    BY DEF Inv, TypeOK, FinishChunk
  <2>5. UNCHANGED <<pstatus, landed, deq, enq, crashed>>
    BY DEF FinishChunk
  <2> QED
    BY <2>1, <2>2, <2>3, <2>4, <2>5 DEF Inv, TypeOK, LandInv, Active, Busy
<1>6. SuccessInv'
  BY DEF Inv, FinishChunk, maybe_ack_drained_abort, decode, scheduler,
         SuccessInv, Done, Busy
<1>7. AckInv'
  BY DEF Inv, FinishChunk, maybe_ack_drained_abort, decode, scheduler, AckInv,
         Published, Answered, stopped, writing, TypeOK, PublishInv, DrainInv, Active
<1>8. AbortInv'
  BY DEF Inv, TypeOK, AbortInv, FinishChunk, maybe_ack_drained_abort, decode,
         scheduler
<1> QED  BY <1>1, <1>2, <1>3, <1>4, <1>5, <1>6, <1>7, <1>8 DEF Inv

LEMMA LingerEndsInv ==
    ASSUME NEW r \in Rank, Inv, LingerEnds(r)
    PROVE  Inv'
<1>1. TypeOK'
  BY DEF Inv, LingerEnds, decode, network, scheduler, room, TypeOK, Status
<1>2. DrainInv'
  BY DEF Inv, LingerEnds, decode, network, scheduler, room, DrainInv, Active,
         Published
<1>3. SuccessInv'
  BY DEF Inv, LingerEnds, decode, network, scheduler, room, SuccessInv, Done,
         Busy
<1>4. AckInv'
  BY DEF Inv, LingerEnds, decode, network, scheduler, room, AckInv, Published,
         Answered, stopped, writing
<1>5. SchedulerInv' /\ PublishInv' /\ LandInv'
  BY DEF Inv, LingerEnds, decode, network, scheduler, room, SchedulerInv,
         PublishInv, LandInv, Active, Published, Busy
<1>6. AbortInv'
  BY DEF Inv, TypeOK, AbortInv, LingerEnds, decode, network, scheduler, room
<1> QED  BY <1>1, <1>2, <1>3, <1>4, <1>5, <1>6 DEF Inv

LEMMA PrefillAddInv ==
    ASSUME Inv, PrefillAdd
    PROVE  Inv'
<1>1. TypeOK'
  BY UpdateStatus DEF Inv, PrefillAdd, open_room, decode, network, worker,
         TypeOK, Status
<1>2. SchedulerInv'
  BY UpdateStatus DEF Inv, PrefillAdd, open_room, decode, network, worker,
         SchedulerInv, Active, TypeOK
<1>3. DrainInv'
  BY UpdateStatus DEF Inv, PrefillAdd, open_room, decode, network, worker,
         DrainInv, Active, Published, TypeOK, SchedulerInv, PublishInv
<1>4. LandInv'
  BY UpdateStatus DEF Inv, PrefillAdd, open_room, decode, network, worker,
         LandInv, Active, Busy, TypeOK, SchedulerInv, PublishInv, DrainInv,
         Published
<1>5. SuccessInv'
  BY UpdateStatus DEF Inv, PrefillAdd, open_room, decode, network, worker,
         SuccessInv, Done, Busy, TypeOK
<1>6. AckInv'
  BY UpdateStatus DEF Inv, PrefillAdd, open_room, decode, network, worker,
         AckInv, Published, Answered, stopped, writing, TypeOK, SchedulerInv, PublishInv,
         DrainInv, Active
<1>7. PublishInv'
  BY DEF Inv, PrefillAdd, open_room, decode, network, worker, PublishInv,
         Published
<1>8. AbortInv'
  BY DEF Inv, TypeOK, AbortInv, PrefillAdd, open_room, decode, network, worker
<1> QED  BY <1>1, <1>2, <1>3, <1>4, <1>5, <1>6, <1>7, <1>8 DEF Inv

LEMMA PrefillPollInv ==
    ASSUME Inv, PrefillPoll
    PROVE  Inv'
<1>1. TypeOK'
  BY DEF Inv, PrefillPoll, polled, poll, decode, network, room, worker, TypeOK,
         Status
<1>2. SuccessInv'
  BY DEF Inv, PrefillPoll, polled, poll, decode, network, room, worker,
         SuccessInv, Done, Busy
<1>3. SchedulerInv' /\ PublishInv' /\ DrainInv' /\ LandInv' /\ AckInv'
  BY DEF Inv, PrefillPoll, polled, poll, decode, network, room, worker,
         SchedulerInv, PublishInv, DrainInv, LandInv, AckInv, Active,
         Published, Busy, Answered, stopped, writing
<1>4. AbortInv'
  BY DEF Inv, TypeOK, AbortInv, PrefillPoll, polled, poll, decode, network,
         room, worker
<1> QED  BY <1>1, <1>2, <1>3, <1>4 DEF Inv

LEMMA BootstrapTimeoutInv ==
    ASSUME NEW r \in Rank, Inv, BootstrapTimeout(r)
    PROVE  Inv'
<1>1. TypeOK'
  BY UpdateStatus DEF Inv, BootstrapTimeout, decode, network, scheduler,
         worker, TypeOK, Status
<1>2. SchedulerInv'
  BY UpdateStatus DEF Inv, BootstrapTimeout, decode, network, scheduler,
         worker, SchedulerInv, Active, TypeOK
<1>3. DrainInv'
  BY UpdateStatus DEF Inv, BootstrapTimeout, decode, network, scheduler,
         worker, DrainInv, Active, Published, TypeOK
<1>4. LandInv'
  BY UpdateStatus DEF Inv, BootstrapTimeout, decode, network, scheduler,
         worker, LandInv, Active, Busy, TypeOK
<1>5. SuccessInv'
  BY UpdateStatus DEF Inv, BootstrapTimeout, decode, network, scheduler,
         worker, SuccessInv, Done, Busy, TypeOK
<1>6. AckInv'
  BY UpdateStatus DEF Inv, BootstrapTimeout, decode, network, scheduler,
         worker, AckInv, Published, Answered, stopped, writing, TypeOK
<1>7. PublishInv'
  BY DEF Inv, BootstrapTimeout, decode, network, scheduler, worker, PublishInv,
         Published
<1>8. AbortInv'
  BY DEF Inv, TypeOK, AbortInv, BootstrapTimeout, decode, network, scheduler,
         worker
<1> QED  BY <1>1, <1>2, <1>3, <1>4, <1>5, <1>6, <1>7, <1>8 DEF Inv

LEMMA PopBootstrappedInv ==
    ASSUME Inv, PopBootstrapped
    PROVE  Inv'
<1>1. TypeOK'
  BY DEF Inv, PopBootstrapped, decode, network, room, worker, TypeOK, Status
<1>2. SchedulerInv'
  BY ChunksAssumption, FaultsAssumption DEF Inv, PopBootstrapped, decode,
         network, room, worker, SchedulerInv, Active, TypeOK, PublishInv,
         DrainInv, LandInv, SuccessInv, Published, Busy, Done
<1>3. AckInv'
  BY DEF Inv, PopBootstrapped, decode, network, room, worker, AckInv,
         Published, Answered, stopped, writing
<1>4. PublishInv' /\ DrainInv' /\ LandInv' /\ SuccessInv'
  BY DEF Inv, PopBootstrapped, decode, network, room, worker, PublishInv,
         DrainInv, LandInv, SuccessInv, Published, Active, Busy, Done
<1>5. AbortInv'
  BY DEF Inv, TypeOK, AbortInv, PopBootstrapped, decode, network, room, worker
<1> QED  BY <1>1, <1>2, <1>3, <1>4, <1>5 DEF Inv

LEMMA SendChunkInv ==
    ASSUME Inv, SendChunk
    PROVE  Inv'
<1>1. TypeOK'
  BY ChunksAssumption, FaultsAssumption DEF Inv, SendChunk, decode, network,
         room, TypeOK, Status, SchedulerInv, PublishInv, DrainInv, Active,
         Published
<1>2. SchedulerInv'
  BY ChunksAssumption, FaultsAssumption DEF Inv, SendChunk, decode, network,
         room, SchedulerInv, Active, TypeOK, PublishInv, DrainInv, LandInv,
         SuccessInv, Published, Busy, Done
<1>3. PublishInv'
  BY DEF Inv, SendChunk, decode, network, room, PublishInv, Published
<1>4. LandInv'
  BY DEF Inv, SendChunk, decode, network, room, LandInv, Active, Busy
<1>5. AckInv'
  BY DEF Inv, SendChunk, decode, network, room, AckInv, Published, Answered, stopped,
         writing
<1>6. DrainInv' /\ SuccessInv'
  BY DEF Inv, SendChunk, decode, network, room, DrainInv, SuccessInv, Active,
         Published, Done, Busy
<1>7. AbortInv'
  BY DEF Inv, TypeOK, AbortInv, SendChunk, decode, network, room
<1> QED  BY <1>1, <1>2, <1>3, <1>4, <1>5, <1>6, <1>7 DEF Inv

LEMMA PrefillAbortInv ==
    ASSUME Inv, PrefillAbort
    PROVE  Inv'
<1>1. TypeOK'
  BY UpdateStatus DEF Inv, PrefillAbort, abort_senders, decode, network,
         worker, TypeOK, Status
<1>2. SchedulerInv'
  BY UpdateStatus DEF Inv, PrefillAbort, abort_senders, decode, network,
         worker, SchedulerInv, Active, TypeOK
<1>3. DrainInv'
  BY UpdateStatus DEF Inv, PrefillAbort, abort_senders, decode, network,
         worker, DrainInv, Active, Published, TypeOK
<1>4. LandInv'
  BY UpdateStatus DEF Inv, PrefillAbort, abort_senders, decode, network,
         worker, LandInv, Active, Busy, TypeOK
<1>5. SuccessInv'
  BY UpdateStatus DEF Inv, PrefillAbort, abort_senders, decode, network,
         worker, SuccessInv, Done, Busy, TypeOK
<1>6. AckInv'
  BY UpdateStatus DEF Inv, PrefillAbort, abort_senders, decode, network,
         worker, AckInv, Published, Answered, stopped, writing, TypeOK
<1>7. PublishInv'
  BY DEF Inv, PrefillAbort, abort_senders, decode, network, worker, PublishInv,
         Published
<1>8. AbortInv'
  BY DEF Inv, TypeOK, AbortInv, PrefillAbort, abort_senders, decode, network,
         worker
<1> QED  BY <1>1, <1>2, <1>3, <1>4, <1>5, <1>6, <1>7, <1>8 DEF Inv

LEMMA RetireAbortedInv ==
    ASSUME Inv, RetireAborted
    PROVE  Inv'
<1>1. TypeOK'
  BY UpdateStatus DEF Inv, RetireAborted, abort_senders, decode, network,
         worker, TypeOK, Status
<1>2. SchedulerInv'
  BY UpdateStatus DEF Inv, RetireAborted, abort_senders, decode, network,
         worker, SchedulerInv, Active, TypeOK
<1>3. DrainInv'
  BY UpdateStatus DEF Inv, RetireAborted, abort_senders, decode, network,
         worker, DrainInv, Active, Published, TypeOK
<1>4. LandInv'
  BY UpdateStatus DEF Inv, RetireAborted, abort_senders, decode, network,
         worker, LandInv, Active, Busy, TypeOK
<1>5. SuccessInv'
  BY UpdateStatus DEF Inv, RetireAborted, abort_senders, decode, network,
         worker, SuccessInv, Done, Busy, TypeOK
<1>6. AckInv'
  BY UpdateStatus DEF Inv, RetireAborted, abort_senders, decode, network,
         worker, AckInv, Published, Answered, stopped, writing, TypeOK
<1>7. PublishInv'
  BY DEF Inv, RetireAborted, abort_senders, decode, network, worker,
         PublishInv, Published
<1>8. AbortInv'
  BY DEF Inv, TypeOK, AbortInv, RetireAborted, abort_senders, decode, network,
         worker
<1> QED  BY <1>1, <1>2, <1>3, <1>4, <1>5, <1>6, <1>7, <1>8 DEF Inv

LEMMA FinishTransferInv ==
    ASSUME Inv, FinishTransfer
    PROVE  Inv'
<1>1. TypeOK'
  BY DEF Inv, FinishTransfer, clear_senders, polled, poll, decode, worker,
         TypeOK, Status
<1>2. SchedulerInv'
  BY DEF Inv, FinishTransfer, clear_senders, polled, poll, decode, worker,
         SchedulerInv, Active
<1>3. PublishInv'
  BY DEF Inv, FinishTransfer, clear_senders, polled, poll, decode, worker,
         PublishInv, Published
<1>4. DrainInv'
  BY DEF Inv, FinishTransfer, clear_senders, polled, poll, decode, worker,
         DrainInv, Active, Published
<1>5. LandInv'
  BY DEF Inv, FinishTransfer, clear_senders, polled, poll, decode, worker,
         LandInv, Active, Busy
<1>6. SuccessInv'
  BY DEF Inv, FinishTransfer, clear_senders, polled, poll, decode, worker,
         SuccessInv, Done, Busy
<1>7. AckInv'
  BY DEF Inv, FinishTransfer, clear_senders, polled, poll, decode, worker,
         AckInv, Published, Answered, stopped, writing, TypeOK, PublishInv, DrainInv,
         Active
<1>8. AbortInv'
  BY DEF Inv, TypeOK, AbortInv, FinishTransfer, clear_senders, polled, poll,
         decode, worker
<1> QED  BY <1>1, <1>2, <1>3, <1>4, <1>5, <1>6, <1>7, <1>8 DEF Inv

LEMMA HandleFailureInv ==
    ASSUME Inv, HandleFailure
    PROVE  Inv'
<1>1. TypeOK'
  BY DEF Inv, HandleFailure, clear_senders, decode, worker, TypeOK, Status
<1>2. SchedulerInv'
  BY DEF Inv, HandleFailure, clear_senders, decode, worker, SchedulerInv,
         Active
<1>3. PublishInv'
  BY DEF Inv, HandleFailure, clear_senders, decode, worker, PublishInv,
         Published
<1>4. DrainInv'
  BY DEF Inv, HandleFailure, clear_senders, decode, worker, DrainInv, Active,
         Published
<1>5. LandInv'
  BY DEF Inv, HandleFailure, clear_senders, decode, worker, LandInv, Active,
         Busy
<1>6. SuccessInv'
  BY DEF Inv, HandleFailure, clear_senders, decode, worker, SuccessInv, Done,
         Busy
<1>7. AckInv'
  BY DEF Inv, HandleFailure, clear_senders, decode, worker, AckInv, Published,
         Answered, stopped, writing, TypeOK, PublishInv, DrainInv, Active
<1>8. AbortInv'
  BY DEF Inv, TypeOK, AbortInv, HandleFailure, clear_senders, decode, worker
<1> QED  BY <1>1, <1>2, <1>3, <1>4, <1>5, <1>6, <1>7, <1>8 DEF Inv

LEMMA RetryCleanupInv ==
    ASSUME NEW r \in Rank, Inv, RetryCleanup(r)
    PROVE  Inv'
<1>1. TypeOK'
  BY DEF Inv, RetryCleanup, decode, network, room, worker, TypeOK, Status
<1>2. SchedulerInv'
  BY DEF Inv, RetryCleanup, decode, network, room, worker, SchedulerInv, Active
<1>3. AckInv'
  BY DEF Inv, RetryCleanup, decode, network, room, worker, AckInv, Published,
         Answered, stopped, writing
<1>4. PublishInv' /\ DrainInv' /\ LandInv' /\ SuccessInv'
  BY DEF Inv, RetryCleanup, decode, network, room, worker, PublishInv,
         DrainInv, LandInv, SuccessInv, Published, Active, Busy, Done
<1>5. AbortInv'
  BY DEF Inv, TypeOK, AbortInv, RetryCleanup, decode, network, room, worker
<1> QED  BY <1>1, <1>2, <1>3, <1>4, <1>5 DEF Inv

LEMMA CrashInv ==
    ASSUME Inv, Crash
    PROVE  Inv'
<1>1. TypeOK'
  BY ChunksAssumption, FaultsAssumption DEF Inv, Crash, Fault, decode, network,
         scheduler, room, TypeOK, Status
<1>2. DrainInv'
  BY DEF Inv, Crash, Fault, decode, network, scheduler, room, DrainInv, Active,
         Published
<1>3. LandInv'
  BY DEF Inv, Crash, Fault, decode, network, scheduler, room, LandInv, Active,
         Busy, TypeOK
<1>4. SuccessInv'
  BY DEF Inv, Crash, Fault, decode, network, scheduler, room, SuccessInv, Done,
         Busy
<1>5. AckInv'
  BY DEF Inv, Crash, Fault, decode, network, scheduler, room, AckInv,
         Published, Answered, stopped, writing
<1>6. SchedulerInv' /\ PublishInv'
  BY DEF Inv, Crash, Fault, decode, network, scheduler, room, SchedulerInv,
         PublishInv, Active, Published
<1>7. AbortInv'
  BY DEF Inv, TypeOK, AbortInv, Crash, Fault, decode, network, scheduler, room
<1> QED  BY <1>1, <1>2, <1>3, <1>4, <1>5, <1>6, <1>7 DEF Inv

LEMMA LoseMessageInv ==
    ASSUME Inv, LoseMessage
    PROVE  Inv'
<1>0. /\ metas' \in [Rank -> {"none", "sent", "closed", "overtaken", "late"}]
      /\ aborts' \in [Rank -> SUBSET Nat]
      /\ stats' \subseteq stats /\ ackmsgs' \subseteq ackmsgs
      /\ \A r \in Rank : /\ under_way(r)' => under_way(r)
                         /\ metas[r] = "none" => metas'[r] = "none"
                         /\ r \in overtaken' <=> r \in overtaken
                         /\ aborts'[r] \subseteq aborts[r]
  BY DEF Inv, TypeOK, LoseMessage, taken
<1>1. TypeOK'
  BY <1>0, FaultsAssumption DEF Inv, LoseMessage, Fault, decode,
         scheduler, room, worker, TypeOK
<1>2. PublishInv'
  BY <1>0 DEF Inv, LoseMessage, decode, scheduler, room, worker, PublishInv,
         Published, TypeOK
<1>3. DrainInv'
  BY <1>0 DEF Inv, LoseMessage, decode, scheduler, room, worker, DrainInv,
         Active, Published
<1>4. SuccessInv'
  BY <1>0 DEF Inv, LoseMessage, decode, scheduler, room, worker, SuccessInv,
         Done, Busy
<1>5. AckInv'
  BY <1>0 DEF Inv, LoseMessage, decode, scheduler, room, worker, AckInv,
         Published, Answered, stopped, writing
<1>6. SchedulerInv' /\ LandInv'
  BY DEF Inv, LoseMessage, Fault, decode, scheduler, room, worker,
         SchedulerInv, LandInv, Active, Busy
<1>7. AbortInv'
  BY <1>0 DEF Inv, AbortInv, LoseMessage, decode, room
<1> QED  BY <1>1, <1>2, <1>3, <1>4, <1>5, <1>6, <1>7 DEF Inv

-----------------------------------------------------------------------------
(* The invariant *)

LEMMA InitInv == Init => Inv
<1> SUFFICES ASSUME Init PROVE Inv
  OBVIOUS
<1>1. TypeOK
  <2>1. /\ nsent \in 0..NumChunks /\ faults \in 0..MaxFaults
        /\ enq \in [Rank -> 0..NumChunks] /\ deq \in [Rank -> 0..NumChunks]
        /\ landed \in [Rank -> 0..NumChunks]
    BY ChunksAssumption, FaultsAssumption DEF Init
  <2>2. /\ bootstrap_infos \in BOOLEAN /\ init_time \in BOOLEAN
        /\ abort_notified \in BOOLEAN /\ crashed \in BOOLEAN
    BY DEF Init
  <2>3. /\ transfer_infos \in [Rank -> BOOLEAN] /\ src_held \in [Rank -> BOOLEAN]
        /\ poisoned \in [Rank -> BOOLEAN] /\ src_poisoned \in [Rank -> BOOLEAN]
        /\ lingering \in [Rank -> BOOLEAN]
    BY DEF Init
  <2> QED
    BY <2>1, <2>2, <2>3 DEF Init, TypeOK, Status
<1>2. SchedulerInv /\ PublishInv /\ DrainInv
  BY ChunksAssumption DEF Init, SchedulerInv, PublishInv, DrainInv, Active, Published
<1>3. LandInv /\ SuccessInv /\ AckInv
  BY ChunksAssumption DEF Init, LandInv, SuccessInv, AckInv, Active, Busy
<1>4. AbortInv
  BY DEF Init, AbortInv
<1> QED  BY <1>1, <1>2, <1>3, <1>4 DEF Inv

(* A message decode receives comes from a rank and says what a rank says. *)
LEMMA Messages ==
    ASSUME TypeOK
    PROVE  /\ \A m \in stats : m[1] \in Rank /\ m[2] \in {"Success", "Failed"}
           /\ \A m \in ackmsgs : m[1] \in Rank /\ m[2] \in Nat
           /\ \A r \in Rank : \A g \in aborts[r] : g \in Nat
  BY DEF TypeOK

LEMMA PrefillSideInv ==
    ASSUME Inv, PrefillSide
    PROVE  Inv'
<1>1. CASE PrefillAdd \/ PrefillAbort \/ RetireAborted \/ Crash \/ LoseMessage
  BY <1>1, PrefillAddInv, PrefillAbortInv, RetireAbortedInv, CrashInv,
     LoseMessageInv
<1>2. CASE PrefillScheduler
  BY <1>2, PrefillPollInv, PopBootstrappedInv, SendChunkInv, FinishTransferInv,
     HandleFailureInv, BootstrapTimeoutInv, RetryCleanupInv DEF PrefillScheduler
<1>3. ASSUME NEW r \in Rank, BootstrapThread(r)
      PROVE  Inv'
  BY <1>3, Messages, RecvMetaInv, RecvAbortInv DEF BootstrapThread, Inv
<1>4. ASSUME NEW r \in Rank, WorkerStep(r) \/ LingerEnds(r)
      PROVE  Inv'
  BY <1>4, DequeueInv, SkipChunkInv, StartWriteInv, WriteDoneInv, FinishChunkInv,
     LingerEndsInv DEF WorkerStep
<1>5. ASSUME NEW r \in Rank, WorkerFault(r)
      PROVE  Inv'
  BY <1>5, RejectChunkInv, WriteErrorInv, WriteExceptionInv DEF WorkerFault
<1> QED  BY <1>1, <1>2, <1>3, <1>4, <1>5 DEF PrefillSide

LEMMA DecodeSideInv ==
    ASSUME Inv, DecodeSide
    PROVE  Inv'
<1>1. CASE DecodeAdd \/ NodeFailure
  BY <1>1, DecodeAddInv, NodeFailureInv
<1>2. CASE DecodeScheduler
  BY <1>2, DecodeInitInv, PopPreallocatedInv, DropPreallocInv, WaitingTimeoutInv,
     CommitTransferInv DEF DecodeScheduler
<1>3. CASE DecodeThread
  <2>1. CASE \E m \in stats : RecvStatus(m[1], m[2])
    BY <2>1, Messages, RecvStatusInv DEF Inv
  <2>2. CASE \E m \in ackmsgs : RecvAck(m[1], m[2])
    BY <2>2, Messages, RecvAckInv DEF Inv
  <2> QED  BY <1>3, <2>1, <2>2 DEF DecodeThread
<1> QED  BY <1>1, <1>2, <1>3 DEF DecodeSide

LEMMA StutterInv ==
    ASSUME Inv, UNCHANGED vars
    PROVE  Inv'
<1>1. TypeOK'
  BY DEF Inv, TypeOK, vars, decode, network, scheduler, room, worker
<1>2. SchedulerInv' /\ PublishInv' /\ DrainInv'
  BY DEF Inv, SchedulerInv, PublishInv, DrainInv, Active, Published,
         vars, decode, network, scheduler, room, worker
<1>3. LandInv' /\ SuccessInv'
  BY DEF Inv, LandInv, SuccessInv, Active, Busy, Done,
         vars, decode, network, scheduler, room, worker
<1>4. AckInv'
  BY DEF Inv, AckInv, Published, Answered, stopped, writing,
         vars, decode, network, scheduler, room, worker
<1>5. AbortInv'
  BY DEF Inv, AbortInv, vars, decode, network, room
<1> QED  BY <1>1, <1>2, <1>3, <1>4, <1>5 DEF Inv

LEMMA NextInv == Inv /\ [Next]_vars => Inv'
<1> SUFFICES ASSUME Inv, [Next]_vars PROVE Inv'
  OBVIOUS
<1>1. CASE PrefillSide \/ DecodeSide
  BY <1>1, PrefillSideInv, DecodeSideInv
<1>2. CASE DecodeAbort \/ FailTransfer \/ DrainedRelease \/ ReleaseTimeout
  BY <1>2, DecodeAbortInv, FailTransferInv, DrainedReleaseInv, ReleaseTimeoutInv
<1>3. CASE UNCHANGED vars
  BY <1>3, StutterInv
<1> QED  BY <1>1, <1>2, <1>3 DEF Next

(* The invariant of the protocol: what the scheduler, the worker and its    *)
(* drain accounting, and the messages under way say about each other.       *)
THEOREM Invariance == Spec => []Inv
<1> QED  BY InitInv, NextInv, PTL DEF Spec

(* The managers' state stays in its types, whatever fails or is lost; the   *)
(* counters of the transfer worker never leave the chunks of the prompt.    *)
THEOREM TypeCorrect == Spec => []TypeOK
<1>1. Inv => TypeOK
  BY DEF Inv
<1> QED  BY <1>1, Invariance, PTL

-----------------------------------------------------------------------------
(* What the invariant says about the pages *)

LEMMA StoppedIsQuiet ==
    ASSUME Inv, NEW r \in Rank, stopped(r)
    PROVE  r \notin writing
<1>1. CASE crashed
  BY <1>1 DEF Inv, DrainInv, writing
<1>2. CASE ~crashed
  BY <1>2 DEF stopped
<1> QED  BY <1>1, <1>2

(* A rank whose indices are still under way has nothing to write. *)
LEMMA UnderWayIsQuiet ==
    ASSUME Inv, NEW r \in Rank, enq[r] = 0
    PROVE  r \notin writing
<1>1. deq[r] \in 0..NumChunks /\ deq[r] <= enq[r]
  BY DEF Inv, SchedulerInv, TypeOK
<1>2. ~(deq[r] > 0)
  BY <1>1, ChunksAssumption
<1> QED  BY <1>2 DEF Inv, DrainInv, writing

LEMMA QuietPages == Inv => ReleasedIsQuiet
<1> SUFFICES ASSUME Inv, NEW r \in Rank
             PROVE  /\ dq \in {"committed", "dropped"} => r \notin writing
                    /\ dq = "released" => r \notin writing \/ metas[r] = "late"
  BY DEF ReleasedIsQuiet, writing
<1>1. CASE dq = "committed"
  BY <1>1 DEF Inv, SuccessInv, Done, Busy, writing
<1>2. CASE dq = "released"
  <2>1. CASE stopped(r)
    BY <1>2, <2>1, StoppedIsQuiet
  <2>2. CASE metas[r] = "overtaken"
    BY <1>2, <2>2, UnderWayIsQuiet DEF Inv, PublishInv
  <2> QED  BY <1>2, <2>1, <2>2 DEF Inv, AckInv, Answered
<1>3. CASE dq = "dropped"
  BY <1>3, UnderWayIsQuiet DEF Inv, PublishInv, Published
<1> QED  BY <1>1, <1>2, <1>3

(* Pages decode has committed or never published have no RDMA writer, and   *)
(* pages released on acknowledgements have none but a rank whose page       *)
(* indices were overtaken by the ABORT it acknowledged.                     *)
THEOREM PagesAreQuiet == Spec => []ReleasedIsQuiet
<1> QED  BY Invariance, QuietPages, PTL

(* An ABORT_ACK is sent too early in one case only: the rank it comes from  *)
(* is finished with the pages and stays so, or its page indices were on a   *)
(* connection that had been closed and the ABORT came before them.          *)
THEOREM AckMeansStopped == Spec => []AckedIsStopped
<1>1. Inv => AckedIsStopped
  BY DEF Inv, TypeOK, AckInv, Answered, AckedIsStopped
<1> QED  BY <1>1, Invariance, PTL

(* The prefill side frees and reports a request as transferred only when    *)
(* every chunk of every rank has landed.                                    *)
THEOREM ReportMeansLanded == Spec => []ReportedIsLanded
<1>1. Inv => ReportedIsLanded
  BY DEF Inv, SuccessInv, Done, ReportedIsLanded
<1> QED  BY <1>1, Invariance, PTL

-----------------------------------------------------------------------------
(* PDTransfer implements KVHandoff *)

full == {r \in Rank : landed[r] = NumChunks}

LEMMA QuietStep ==
    ASSUME UNCHANGED page, UNCHANGED writing, UNCHANGED full
    PROVE  UNCHANGED Handoff!vars
  BY DEF Handoff!vars, full

LEMMA InitRefines == Init => Handoff!Init
<1> SUFFICES ASSUME Init PROVE Handoff!Init
  OBVIOUS
<1>1. page = "free" /\ writing = {}
  BY DEF Init, page, writing
<1>2. full = {}
  BY ChunksAssumption DEF Init, full
<1> QED  BY <1>1, <1>2 DEF Handoff!Init, full

(* What the pages are to their owner changes only with dq or with the ranks *)
(* that were overtaken.                                                     *)
LEMMA QuietPage ==
    ASSUME UNCHANGED dq, dq # "released" \/ UNCHANGED overtaken
    PROVE  UNCHANGED page
  BY DEF page

(* The prefill side between writes: the scheduler and the bootstrap thread  *)
(* touch neither the pages nor a write.                                     *)
LEMMA PrefillSchedulerQuiet ==
    ASSUME PrefillAdd \/ PrefillAbort \/ RetireAborted \/ PrefillScheduler
    PROVE  UNCHANGED Handoff!vars
<1>1. UNCHANGED <<dq, wpc, lingering, landed>>
  BY DEF PrefillAdd, PrefillAbort, RetireAborted, PrefillScheduler,
         PrefillPoll, PopBootstrapped, SendChunk, FinishTransfer, HandleFailure,
         BootstrapTimeout, RetryCleanup, decode, worker
<1>2. UNCHANGED metas
  BY DEF PrefillAdd, PrefillAbort, RetireAborted, PrefillScheduler,
         PrefillPoll, PopBootstrapped, SendChunk, FinishTransfer, HandleFailure,
         BootstrapTimeout, RetryCleanup, network
<1>3. UNCHANGED page
  BY <1>1, <1>2, QuietPage
<1> QED
  BY <1>1, <1>3, QuietStep DEF writing, full

(* So do the messages: indices are overtaken only by an ABORT, which is no  *)
(* longer under way when the pages are released.                            *)
LEMMA MessagesQuiet ==
    ASSUME Inv, LoseMessage \/ \E r \in Rank : BootstrapThread(r)
    PROVE  UNCHANGED Handoff!vars
<1>1. UNCHANGED <<dq, wpc, lingering, landed>>
  BY DEF LoseMessage, BootstrapThread, RecvMeta, RecvAbort, decode, worker
<1>2. dq # "released" \/ UNCHANGED overtaken
  <2>1. ASSUME NEW r \in Rank, under_way(r), metas' = taken(r)
        PROVE  UNCHANGED overtaken
    BY <2>1 DEF Inv, TypeOK, taken
  <2>2. CASE LoseMessage
    BY <2>1, <2>2 DEF LoseMessage
  <2>3. ASSUME NEW r \in Rank, RecvMeta(r)
        PROVE  UNCHANGED overtaken
    BY <2>1, <2>3 DEF RecvMeta
  <2>4. ASSUME NEW r \in Rank, NEW g \in aborts[r], RecvAbort(r, g)
        PROVE  dq # "released"
    BY <2>4 DEF Inv, AbortInv
  <2> QED  BY <2>2, <2>3, <2>4 DEF BootstrapThread
<1>3. UNCHANGED page
  BY <1>1, <1>2, QuietPage
<1> QED
  BY <1>1, <1>3, QuietStep DEF writing, full

(* The worker steps that neither begin nor end a write. *)
LEMMA WorkerQuiet ==
    ASSUME TypeOK, NEW r \in Rank,
           Dequeue(r) \/ SkipChunk(r) \/ RejectChunk(r) \/ FinishChunk(r)
    PROVE  UNCHANGED Handoff!vars
<1>1. UNCHANGED <<dq, metas, lingering, landed>>
  BY DEF Dequeue, SkipChunk, RejectChunk, FinishChunk, decode, network
<1>2. wpc[r] # "writing" /\ wpc'[r] # "writing"
      /\ \A q \in Rank : q # r => wpc'[q] = wpc[q]
  BY DEF TypeOK, Dequeue, SkipChunk, RejectChunk, FinishChunk
<1>3. UNCHANGED writing
  BY <1>1, <1>2 DEF writing
<1>4. UNCHANGED page
  BY <1>1, QuietPage
<1> QED
  BY <1>1, <1>3, <1>4, QuietStep DEF full

(* A write begins only into reserved pages, or into pages that the deadline *)
(* or an answer given before the page indices came took back.               *)
LEMMA StartRefines ==
    ASSUME Inv, NEW r \in Rank, StartWrite(r)
    PROVE  Handoff!Start(r) \/ UNCHANGED Handoff!vars
<1>1. UNCHANGED <<dq, metas, lingering, landed>> /\ wpc[r] = "counted" /\ ~crashed
      /\ Active(r) /\ \A q \in Rank : q # r => wpc'[q] = wpc[q]
  BY DEF Inv, TypeOK, StartWrite, decode, network, Active
<1>2. UNCHANGED page /\ UNCHANGED full
  BY <1>1, QuietPage DEF full
<1>3. CASE ~transfer_infos[r]
  <2>1. wpc'[r] = "ending"
    BY <1>3 DEF Inv, TypeOK, StartWrite
  <2>2. UNCHANGED writing
    BY <1>1, <2>1 DEF writing
  <2> QED  BY <1>2, <2>2, QuietStep
<1>4. CASE transfer_infos[r]
  <2>1. wpc'[r] = "writing"
    BY <1>4 DEF Inv, TypeOK, StartWrite
  <2>2. ~lingering[r]
    BY <1>1 DEF Inv, DrainInv
  <2>3. r \notin writing /\ writing' = writing \cup {r}
    BY <1>1, <2>1, <2>2 DEF writing
  <2>4. Published
    BY <1>4 DEF Inv, PublishInv
  <2>5. dq # "committed"
    BY <1>1 DEF Inv, SuccessInv, Done, Busy
  <2>6. dq = "released" => overtaken # {}
    BY <1>1 DEF Inv, AckInv, Answered, stopped, Active
  <2>7. page \in {"reserved", "expired"}
    BY <2>4, <2>5, <2>6 DEF Inv, TypeOK, Published, page
  <2> QED
    BY <1>2, <2>3, <2>7 DEF Handoff!Start, full
<1> QED  BY <1>3, <1>4

(* A write ends: it was done, it failed and really stopped, or it was given *)
(* up and stops at last.                                                    *)
LEMMA StopRefines ==
    ASSUME Inv, NEW r \in Rank, NEW b \in BOOLEAN,
           WriteDone(r) \/ WriteError(r, b) \/ WriteException(r, b) \/ LingerEnds(r)
    PROVE  Handoff!Stop(r) \/ UNCHANGED Handoff!vars
<1>0. UNCHANGED <<dq, metas>>
  BY DEF WriteDone, WriteError, WriteException, LingerEnds, decode, network
<1>1. UNCHANGED page
  BY <1>0, QuietPage
<1>2. \A q \in Rank : q # r => /\ wpc'[q] = wpc[q] /\ lingering'[q] = lingering[q]
                              /\ landed'[q] = landed[q]
  BY DEF Inv, TypeOK, WriteDone, WriteError, WriteException, LingerEnds
<1>3. r \in writing /\ wpc'[r] # "writing"
  BY DEF Inv, TypeOK, DrainInv, WriteDone, WriteError, WriteException, LingerEnds,
         writing
<1>4. full' \in {full, full \cup {r}} /\ (lingering'[r] => full' = full)
  <2>1. CASE WriteDone(r)
    <3>1. landed[r] # NumChunks
      BY <2>1, ChunksAssumption DEF Inv, TypeOK, LandInv, Busy, WriteDone
    <3>2. ~lingering'[r]
      BY <2>1 DEF Inv, DrainInv, WriteDone
    <3> QED  BY <1>2, <3>1, <3>2 DEF full
  <2>2. CASE ~WriteDone(r)
    BY <2>2 DEF WriteError, WriteException, LingerEnds, full
  <2> QED  BY <2>1, <2>2
<1>5. CASE lingering'[r]
  <2>1. writing' = writing
    BY <1>2, <1>3, <1>5 DEF writing
  <2> QED  BY <1>1, <1>4, <1>5, <2>1, QuietStep
<1>6. CASE ~lingering'[r]
  <2>1. writing' = writing \ {r}
    BY <1>2, <1>3, <1>6 DEF writing
  <2> QED  BY <1>1, <1>3, <1>4, <2>1 DEF Handoff!Stop, full
<1> QED  BY <1>5, <1>6

(* A crash ends every write at once. *)
LEMMA CrashRefines ==
    ASSUME Inv, Crash
    PROVE  Handoff!Die \/ UNCHANGED Handoff!vars
<1>0. UNCHANGED page
  BY QuietPage DEF Crash, decode, network
<1>1. UNCHANGED page /\ UNCHANGED full /\ writing' = {}
  BY <1>0 DEF Crash, full, writing
<1>2. CASE writing = {}
  BY <1>1, <1>2, QuietStep
<1>3. CASE writing # {}
  BY <1>1, <1>3 DEF Handoff!Die, full
<1> QED  BY <1>2, <1>3

(* Decode before and after the transfer. *)
LEMMA DecodeQuiet ==
    ASSUME Inv,
           DecodeAdd \/ DecodeInit \/ DropPrealloc \/ WaitingTimeout \/ NodeFailure
             \/ DecodeThread \/ DecodeAbort \/ FailTransfer
    PROVE  UNCHANGED Handoff!vars
<1>1. UNCHANGED <<wpc, lingering, landed>>
  BY DEF DecodeAdd, DecodeInit, DropPrealloc, WaitingTimeout, NodeFailure,
         DecodeThread, RecvStatus, RecvAck, DecodeAbort, FailTransfer, worker
<1>2. UNCHANGED page
  <2>1. CASE FailTransfer
    <3>1. bootstrap_infos
      BY <2>1 DEF Inv, PublishInv, FailTransfer
    <3>2. abort_notified'
      BY <2>1, <3>1 DEF Inv, TypeOK, FailTransfer, ensure_abort_notified,
                        send_abort_notification
    <3> QED  BY <2>1, <3>2 DEF FailTransfer, page
  <2>2. CASE DecodeAdd \/ DropPrealloc
    BY <2>2 DEF DecodeAdd, DropPrealloc, page
  <2>3. CASE DecodeInit \/ WaitingTimeout \/ DecodeThread \/ DecodeAbort
    <3>1. UNCHANGED <<dq, metas>>
      BY <2>3 DEF DecodeInit, WaitingTimeout, DecodeThread, RecvStatus, RecvAck,
                  DecodeAbort, network
    <3> QED  BY <3>1, QuietPage
  <2>4. CASE NodeFailure
    BY <2>4, QuietPage DEF NodeFailure
  <2> QED  BY <2>1, <2>2, <2>3, <2>4
<1> QED
  BY <1>1, <1>2, QuietStep DEF writing, full

(* The steps in which the pages change hands. *)
LEMMA PagesRefine ==
    ASSUME Inv, Inv',
           PopPreallocated \/ CommitTransfer \/ DrainedRelease \/ ReleaseTimeout
    PROVE  Handoff!Next
<1>1. UNCHANGED writing /\ UNCHANGED full
  BY DEF PopPreallocated, CommitTransfer, DrainedRelease, ReleaseTimeout,
         ResolveDeferred, worker, writing, full
<1>2. CASE PopPreallocated
  <2>1. page = "free" /\ page' = "reserved"
    BY <1>2 DEF PopPreallocated, page
  <2> QED  BY <1>1, <2>1 DEF Handoff!Next, Handoff!Reserve, full
<1>3. CASE CommitTransfer
  <2>1. page = "reserved" /\ page' = "committed"
    BY <1>3 DEF CommitTransfer, page
  <2>2. writing = {}
    BY <1>3 DEF CommitTransfer, Inv, SuccessInv, Done, Busy, writing
  <2>3. full = Rank
    BY <1>3 DEF CommitTransfer, Inv, SuccessInv, Done, full
  <2> QED  BY <1>1, <2>1, <2>2, <2>3 DEF Handoff!Next, Handoff!Commit, full
<1>4. CASE DrainedRelease
  <2>1. /\ page = "reserved" /\ dq' = "released" /\ UNCHANGED metas
        /\ page' = IF overtaken # {} THEN "expired" ELSE "released"
    BY <1>4 DEF DrainedRelease, ResolveDeferred, network, page
  <2>2. CASE overtaken # {}
    <3>1. page' = "expired"
      BY <2>1, <2>2
    <3> QED  BY <1>1, <2>1, <3>1 DEF Handoff!Next, Handoff!Expire, full
  <2>3. CASE overtaken = {}
    <3>1. page' = "released"
      BY <2>1, <2>3
    <3>2. \A r \in Rank : stopped(r)
      BY <1>4, <2>3, ReleaseNeedsEveryAck DEF Inv, AckInv, Answered
    <3>3. writing = {}
      BY <3>2, StoppedIsQuiet DEF writing
    <3> QED  BY <1>1, <2>1, <3>1, <3>3 DEF Handoff!Next, Handoff!Release, full
  <2> QED  BY <2>2, <2>3
<1>5. CASE ReleaseTimeout
  <2>1. page = "reserved" /\ page' = "expired"
    BY <1>5 DEF ReleaseTimeout, ResolveDeferred, page
  <2> QED  BY <1>1, <2>1 DEF Handoff!Next, Handoff!Expire, full
<1> QED  BY <1>2, <1>3, <1>4, <1>5

LEMMA NextRefines == Inv /\ Inv' /\ [Next]_vars => [Handoff!Next]_(Handoff!vars)
<1> SUFFICES ASSUME Inv, Inv', [Next]_vars
             PROVE  Handoff!Next \/ UNCHANGED Handoff!vars
  OBVIOUS
<1>1. TypeOK
  BY DEF Inv
<1>2. CASE PrefillSide
  <2>1. ASSUME NEW r \in Rank, WorkerStep(r) \/ WorkerFault(r) \/ LingerEnds(r)
        PROVE  Handoff!Next \/ UNCHANGED Handoff!vars
    <3>1. Handoff!Start(r) \/ Handoff!Stop(r) \/ UNCHANGED Handoff!vars
      BY <1>1, <2>1, WorkerQuiet, StartRefines, StopRefines
      DEF WorkerStep, WorkerFault
    <3> QED  BY <3>1 DEF Handoff!Next
  <2>2. CASE Crash
    BY <2>2, CrashRefines DEF Handoff!Next
  <2> QED
    BY <1>2, <2>1, <2>2, PrefillSchedulerQuiet, MessagesQuiet DEF PrefillSide
<1>3. CASE Next /\ ~PrefillSide
  BY <1>3, DecodeQuiet, PagesRefine DEF Next, DecodeSide, DecodeScheduler
<1>4. CASE UNCHANGED vars
  <2>1. UNCHANGED <<dq, metas, wpc, lingering, landed>>
    BY <1>4 DEF vars, decode, network, worker
  <2>2. UNCHANGED page
    BY <2>1, QuietPage
  <2> QED
    BY <2>1, <2>2, QuietStep DEF writing, full
<1> QED  BY <1>2, <1>3, <1>4

(* The transfer protocol implements its abstract specification: for any set *)
(* of ranks, pages are committed only with every rank's whole KV in them    *)
(* and no writer, and given back only with no writer and for good, but for  *)
(* the deadline and for answers given before the page indices came.         *)
THEOREM Refinement == Spec => ImplementsHandoff
<1> QED
  BY InitRefines, NextRefines, Invariance, PTL DEF Spec, ImplementsHandoff, Handoff!Spec
=============================================================================
