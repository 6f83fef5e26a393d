---------------------------- MODULE PDTransferHCU ----------------------------
(***************************************************************************)
(* The decode scheduler of PDTransfer on HCU devices with pipeline         *)
(* parallelism, where a failed request takes another road: the pipeline    *)
(* stages first agree on the ids that failed anywhere, and each stage then *)
(* drops them with DecodeTransferQueue.drop_by_rids.  This module is one   *)
(* stage; that another stage reports the request as failed is an input.    *)
(***************************************************************************)
EXTENDS PDTransfer

VARIABLES
    kv_receiver,  \* decode_req.kv_receiver is not None
    raised        \* the scheduler loop died of an uncaught exception

hcu_vars == <<vars, kv_receiver, raised>>

HCUInit == Init /\ kv_receiver = TRUE /\ raised = FALSE

(* DecodePreallocQueue.abort_matching: mark the room as failed. *)
AbortPrealloc == dq = "prealloc" /\ DecodeAbort

(* DecodeTransferQueue.abort_matching: receiver.abort(), and then the room  *)
(* is registered again, under a generation no rank is told.  Bound: the     *)
(* AbortReq comes once.                                                     *)
AbortTransfer ==
    LET first == ~abort_notified /\ bootstrap_infos
        sent  == IF first /\ init_time THEN generation + 1 ELSE 0
        again == IF first /\ init_time THEN generation + 2 ELSE generation + 1
    IN  /\ dq = "transfer" /\ ~(dstatus = "Failed" /\ abort_notified)
        /\ dstatus' = update_status(dstatus, "Failed")
        /\ abort_notified' = (abort_notified \/ bootstrap_infos)
        /\ aborts' = [r \in Rank |-> IF first THEN aborts[r] \cup {sent} ELSE aborts[r]]
        /\ IF abort_notified'
           THEN generation' = again /\ armed' = again /\ acks' = {}
           ELSE UNCHANGED <<generation, armed, acks>>
        /\ UNCHANGED <<dq, bootstrap_infos, init_time, tracker, metas, stats,
                       ackmsgs, scheduler, room, worker, crashed, faults>>

(* _drop_uncommitted for an id the stages agreed has failed.  A stage that  *)
(* polls Failed itself streams the error and holds the pages; a stage that  *)
(* does not, gives them back at once.  Either way it forgets the receiver.  *)
DropFailed ==
    /\ dq = "transfer" /\ dstatus # "none"
    /\ ensure_abort_notified(FALSE)
    /\ dstatus' = "none" /\ tracker' = {}
    /\ dq' = IF dstatus = "Failed" /\ abort_notified' THEN "deferred" ELSE "released"
    /\ kv_receiver' = FALSE
    /\ UNCHANGED <<bootstrap_infos, init_time, metas, stats, ackmsgs, scheduler,
                   room, worker, crashed, faults>>

(* resolve_deferred_releases reads kv_receiver.kv_mgr of every held request. *)
Resolve ==
    \/ kv_receiver /\ (DrainedRelease \/ ReleaseTimeout) /\ UNCHANGED raised
    \/ dq = "deferred" /\ ~kv_receiver /\ raised' = TRUE /\ UNCHANGED vars

HCUNext ==
    \/ PrefillSide /\ UNCHANGED <<kv_receiver, raised>>
    \/ /\ ~raised
       /\ \/ /\ DecodeSide \/ AbortPrealloc \/ AbortTransfer
             /\ UNCHANGED <<kv_receiver, raised>>
          \/ DropFailed /\ UNCHANGED raised
          \/ Resolve /\ UNCHANGED kv_receiver

HCUSpec == HCUInit /\ [][HCUNext]_hcu_vars
=============================================================================
