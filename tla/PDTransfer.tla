----------------------------- MODULE PDTransfer -----------------------------
(***************************************************************************)
(* Prefill/decode disaggregation: the life of one bootstrap room over the  *)
(* Mooncake backend.  A decode rank reserves KV pages and publishes them   *)
(* to the prefill ranks in Rank; each prefill rank computes the prompt in  *)
(* NumChunks chunks, and its transfer worker writes every chunk into the   *)
(* decode pages with one-sided RDMA; the last chunk is followed by a       *)
(* Success status.  When decode gives up (user abort, waiting timeout,     *)
(* failure reported by a rank, lost node) it must not reuse the pages      *)
(* while a rank may still write them: it sends ABORT with a generation,    *)
(* holds the pages (the deferred release), and frees them when every rank  *)
(* has acknowledged that its writes drained, or at a deadline.             *)
(*                                                                         *)
(* Actors: the decode scheduler and its receiver thread; the prefill       *)
(* scheduler, whose ranks act in lockstep on all-reduced polls; and on     *)
(* each prefill rank a bootstrap thread and a transfer worker.             *)
(*                                                                         *)
(* Not here: staging buffers, host destinations, PD hidden states, the     *)
(* "prefill_complete" allocation policy, optimistic prefill, dummy ranks,  *)
(* peers without a registration, the hiding of Success until the metadata  *)
(* has landed, and the reuse of a bootstrap_room by a later request.       *)
(***************************************************************************)
EXTENDS Naturals, FiniteSets

CONSTANTS
    Rank,        \* the prefill ranks decode expects KV from (bootstrap_infos)
    NumChunks,   \* chunks a prompt is prefilled and sent in
    MaxFaults    \* bound: injected faults (lost message, failed send, ...)

ASSUME RankAssumption == IsFiniteSet(Rank) /\ Rank # {}
ASSUME ChunksAssumption == NumChunks \in Nat \ {0}
ASSUME FaultsAssumption == MaxFaults \in Nat

VARIABLES
    (* decode side *)
    dq,              \* where the request is: prealloc queue, transfer queue, ...
    dstatus,         \* request_status[room] on decode
    bootstrap_infos, \* the receiver knows the prefill endpoints
    init_time,       \* every rank got the page indices (init_time is set)
    abort_notified,  \* the receiver has sent its ABORT notification
    tracker,         \* prefill_response_tracker: ranks that reported Success
    generation,      \* _deferred_abort_generation
    armed,           \* generation of the room's ack state, 0 for no state
    acks,            \* ranks that acknowledged the armed generation
    (* messages under way *)
    metas,           \* where the page indices sent to each rank are
    aborts,          \* ABORTs under way to a rank, by generation (0: none)
    stats,           \* status messages <<rank, status>> to decode
    ackmsgs,         \* ABORT_ACKs <<rank, generation>> to decode
    (* prefill side *)
    preq,            \* where the request is in the prefill scheduler
    nsent,           \* chunks the prefill scheduler has sent
    pstatus,         \* request_status[room] on each rank
    transfer_infos,  \* the rank knows decode's page indices
    conclude_state,  \* the sender's latched poll result
    src_held,        \* the rank holds its own KV pages of the prompt
    enq, deq,        \* chunks put in and taken from the transfer queue
    wpc,             \* what the transfer worker is doing with chunk deq
    outstanding,     \* _staging_outstanding[room]
    target,          \* _deferred_ack_targets[room]: a generation, 0 for none
    poisoned,        \* room in _deferred_ack_poisoned_rooms
    src_poisoned,    \* room poisoned in the SourceDrainTracker
    lingering,       \* a send reported as failed is still writing
    landed,          \* chunks fully written from pages the rank still held
    crashed,         \* the prefill instance is dead
    faults           \* faults injected so far

decode == <<dq, dstatus, bootstrap_infos, init_time, abort_notified, tracker,
            generation, armed, acks>>
network == <<metas, aborts, stats, ackmsgs>>
scheduler == <<preq, nsent, conclude_state, src_held>>
room == <<pstatus, transfer_infos, outstanding, target, poisoned>>
worker == <<enq, deq, wpc, src_poisoned, lingering, landed>>
vars == <<decode, network, scheduler, room, worker, crashed, faults>>

-----------------------------------------------------------------------------
(* Statuses *)

KVPoll == [Failed |-> 0, Bootstrapping |-> 1, WaitingForInput |-> 2,
           Transferring |-> 3, Success |-> 4]
Status == {"none", "Failed", "Bootstrapping", "WaitingForInput", "Success"}

(* Only an opening status creates a room; Failed is terminal; otherwise a  *)
(* status never goes down.                                                 *)
update_status(current, s) ==
    IF current = "none"
    THEN IF s \in {"Bootstrapping", "WaitingForInput"} THEN s ELSE "none"
    ELSE IF s = "Failed" \/ current = "Failed" THEN "Failed"
    ELSE IF KVPoll[current] >= KVPoll[s] THEN current ELSE s

Fault == faults < MaxFaults /\ faults' = faults + 1

(***************************************************************************)
(* The page indices on their way to a rank.  Decode keeps one PUSH socket  *)
(* per rank, so an ABORT stays behind indices that are "sent".  Once the   *)
(* socket was closed under them ("closed") the ABORT takes a new           *)
(* connection, and may reach a rank that does not know the room first:     *)
(* they are "overtaken", and "late" when they are no longer under way.     *)
(***************************************************************************)
under_way(r) == metas[r] \in {"sent", "closed", "overtaken"}
taken(r) == [metas EXCEPT ![r] = IF @ = "overtaken" THEN "late" ELSE "none"]

Init ==
    /\ dq = "none" /\ dstatus = "none"
    /\ bootstrap_infos = FALSE /\ init_time = FALSE /\ abort_notified = FALSE
    /\ tracker = {} /\ generation = 0 /\ armed = 0 /\ acks = {}
    /\ metas = [r \in Rank |-> "none"] /\ aborts = [r \in Rank |-> {}]
    /\ stats = {} /\ ackmsgs = {}
    /\ preq = "none" /\ nsent = 0
    /\ pstatus = [r \in Rank |-> "none"]
    /\ transfer_infos = [r \in Rank |-> FALSE]
    /\ conclude_state = [r \in Rank |-> "none"]
    /\ src_held = [r \in Rank |-> FALSE]
    /\ enq = [r \in Rank |-> 0] /\ deq = [r \in Rank |-> 0]
    /\ wpc = [r \in Rank |-> "idle"]
    /\ outstanding = [r \in Rank |-> 0] /\ target = [r \in Rank |-> 0]
    /\ poisoned = [r \in Rank |-> FALSE]
    /\ src_poisoned = [r \in Rank |-> FALSE]
    /\ lingering = [r \in Rank |-> FALSE]
    /\ landed = [r \in Rank |-> 0]
    /\ crashed = FALSE /\ faults = 0

-----------------------------------------------------------------------------
(* Decode: the receiver of the room *)

register_deferred_abort_room ==
    generation' = generation + 1 /\ armed' = generation' /\ acks' = {}

(* ABORT to every rank, with a generation when the ack state is armed. *)
send_abort_notification(force_arm) ==
    /\ IF force_arm \/ init_time
       THEN register_deferred_abort_room
       ELSE UNCHANGED <<generation, armed, acks>>
    /\ LET g == IF force_arm \/ init_time THEN generation' ELSE 0
       IN  aborts' = [r \in Rank |-> aborts[r] \cup {g}]
    /\ abort_notified' = TRUE

(* Once, and only when the endpoints are known. *)
ensure_abort_notified(force_arm) ==
    IF ~abort_notified /\ bootstrap_infos
    THEN send_abort_notification(force_arm)
    ELSE UNCHANGED <<generation, armed, acks, aborts, abort_notified>>

(* Mutant: one acknowledgement is enough. *)
is_abort_release_safeFirst == armed # 0 /\ acks # {}

(* len(acks) >= len(bootstrap_infos); no ack state counts as no acks. *)
is_abort_release_safe ==
    Cardinality(IF armed # 0 THEN acks ELSE {}) >= Cardinality(Rank)

DecodeAdd ==
    /\ dq = "none"
    /\ dq' = "prealloc"
    /\ dstatus' = update_status(dstatus, "Bootstrapping")
    /\ UNCHANGED <<bootstrap_infos, init_time, abort_notified, tracker,
                   generation, armed, acks, network, scheduler, room, worker,
                   crashed, faults>>

(* The endpoints are resolved, or the prefill server is found to be down. *)
DecodeInit ==
    /\ dq = "prealloc" /\ dstatus = "Bootstrapping" /\ ~bootstrap_infos
    /\ \/ /\ bootstrap_infos' = TRUE
          /\ dstatus' = update_status(dstatus, "WaitingForInput")
          /\ UNCHANGED faults
       \/ /\ Fault
          /\ dstatus' = update_status(dstatus, "Failed")
          /\ UNCHANGED bootstrap_infos
    /\ UNCHANGED <<dq, init_time, abort_notified, tracker, generation, armed,
                   acks, network, scheduler, room, worker, crashed>>

(* Reserve the pages and publish them rank by rank; an error on the way     *)
(* leaves some ranks with the indices and the room Failed.                  *)
PopPreallocated ==
    /\ dq = "prealloc" /\ dstatus = "WaitingForInput"
    /\ dq' = "transfer"
    /\ \E reached \in SUBSET Rank :
          /\ metas' = [r \in Rank |-> IF r \in reached THEN "sent" ELSE "none"]
          /\ IF reached = Rank
             THEN init_time' = TRUE /\ UNCHANGED <<dstatus, faults>>
             ELSE /\ dstatus' = update_status(dstatus, "Failed")
                  /\ Fault /\ UNCHANGED init_time
    /\ UNCHANGED <<bootstrap_infos, abort_notified, tracker, generation, armed,
                   acks, aborts, stats, ackmsgs, scheduler, room, worker, crashed>>

(* A room that failed before any page was reserved is dropped. *)
DropPrealloc ==
    /\ dq = "prealloc" /\ dstatus = "Failed"
    /\ dq' = "dropped" /\ dstatus' = "none" /\ tracker' = {}
    /\ UNCHANGED <<bootstrap_infos, init_time, abort_notified, generation, armed,
                   acks, network, scheduler, room, worker, crashed, faults>>

(* CommonKVReceiver.abort for an AbortReq of the user. *)
DecodeAbort ==
    /\ dq \in {"prealloc", "transfer"}
    /\ ~(dstatus = "Failed" /\ abort_notified)
    /\ dstatus' = update_status(dstatus, "Failed")
    /\ ensure_abort_notified(FALSE)
    /\ UNCHANGED <<dq, bootstrap_infos, init_time, tracker, metas, stats, ackmsgs,
                   scheduler, room, worker, crashed, faults>>

(* Mutant: the ranks are told and the room is left as it is. *)
WaitingTimeoutSilent ==
    /\ dq = "transfer" /\ dstatus = "WaitingForInput" /\ init_time
    /\ ensure_abort_notified(FALSE)
    /\ UNCHANGED <<dq, dstatus, bootstrap_infos, init_time, tracker, metas, stats,
                   ackmsgs, scheduler, room, worker, crashed, faults>>

(* _check_waiting_timeout, from the poll of the transfer queue. *)
WaitingTimeout ==
    /\ dq = "transfer" /\ dstatus = "WaitingForInput" /\ init_time
    /\ dstatus' = update_status(dstatus, "Failed")
    /\ ensure_abort_notified(FALSE)
    /\ UNCHANGED <<dq, bootstrap_infos, init_time, tracker, metas, stats, ackmsgs,
                   scheduler, room, worker, crashed, faults>>

(* disconnect_endpoint for every rank.  A socket that is closed drops what  *)
(* it has not sent (LINGER 0): for the ranks in cut the ABORT, for those in *)
(* lost the indices before it too.  Indices that had no ABORT behind them   *)
(* on the old connection have lost their place before it.                   *)
disconnect_endpoints ==
    \E cut \in SUBSET Rank : \E lost \in SUBSET cut :
        /\ aborts' = [r \in Rank |-> IF r \in cut THEN {} ELSE aborts[r]]
        /\ metas' = [r \in Rank |->
                       IF metas[r] = "sent" /\ r \in lost THEN "none"
                       ELSE IF metas[r] = "sent" /\ ~abort_notified THEN "closed"
                       ELSE metas[r]]

(* _handle_node_failure: the heartbeat thread gives the prefill node up,    *)
(* rightly or wrongly, closes the sockets to its ranks, and fails the room  *)
(* unless it has succeeded or is gone.                                      *)
NodeFailure ==
    /\ dq \in {"prealloc", "transfer", "deferred"}
    /\ Fault
    /\ disconnect_endpoints
    /\ dstatus' = IF dstatus \in {"none", "Success"} THEN dstatus
                  ELSE update_status(dstatus, "Failed")
    /\ UNCHANGED <<dq, bootstrap_infos, init_time, abort_notified, tracker,
                   generation, armed, acks, stats, ackmsgs, scheduler, room,
                   worker, crashed>>

(* Mutant: the first rank to report concludes the room. *)
RecvStatusFirst(r, s) ==
    /\ <<r, s>> \in stats
    /\ stats' = stats \ {<<r, s>>}
    /\ dstatus' = IF dstatus = "none" THEN "none" ELSE update_status(dstatus, s)
    /\ UNCHANGED <<dq, bootstrap_infos, init_time, abort_notified, tracker,
                   generation, armed, acks, metas, aborts, ackmsgs, scheduler,
                   room, worker, crashed, faults>>

(* apply_prefill_status: a Success counts once per rank, and the room is    *)
(* concluded when every expected rank has reported.                         *)
RecvStatus(r, s) ==
    /\ <<r, s>> \in stats
    /\ stats' = stats \ {<<r, s>>}
    /\ IF dstatus = "none"
       THEN UNCHANGED <<dstatus, tracker>>
       ELSE /\ tracker' = IF s = "Success" THEN tracker \cup {r} ELSE tracker
            /\ dstatus' =
                 IF s = "Failed" THEN update_status(dstatus, "Failed")
                 ELSE IF Cardinality(tracker') < Cardinality(Rank) THEN dstatus
                 ELSE update_status(dstatus, "Success")
    /\ UNCHANGED <<dq, bootstrap_infos, init_time, abort_notified, generation,
                   armed, acks, metas, aborts, ackmsgs, scheduler, room, worker,
                   crashed, faults>>

(* handle_abort_ack_message, note_abort_ack: only the armed generation. *)
RecvAck(r, g) ==
    /\ <<r, g>> \in ackmsgs
    /\ ackmsgs' = ackmsgs \ {<<r, g>>}
    /\ acks' = IF armed # 0 /\ g = armed THEN acks \cup {r} ELSE acks
    /\ UNCHANGED <<dq, dstatus, bootstrap_infos, init_time, abort_notified,
                   tracker, generation, armed, metas, aborts, stats, scheduler,
                   room, worker, crashed, faults>>

(* pop_transferred, poll Success: the pages become the request's KV. *)
CommitTransfer ==
    /\ dq = "transfer" /\ dstatus = "Success"
    /\ dq' = "committed" /\ dstatus' = "none" /\ tracker' = {}
    /\ UNCHANGED <<bootstrap_infos, init_time, abort_notified, generation, armed,
                   acks, network, scheduler, room, worker, crashed, faults>>

(* pop_transferred, poll Failed: clear the room, notify the ranks unless    *)
(* that is done, and hold the pages; pages nobody could be told about have  *)
(* no writer.                                                               *)
FailTransfer ==
    /\ dq = "transfer" /\ dstatus = "Failed"
    /\ dstatus' = "none" /\ tracker' = {}
    /\ ensure_abort_notified(TRUE)
    /\ dq' = IF abort_notified' THEN "deferred" ELSE "released"
    /\ UNCHANGED <<bootstrap_infos, init_time, metas, stats, ackmsgs, scheduler,
                   room, worker, crashed, faults>>

(* resolve_deferred_releases and _do_release. *)
ResolveDeferred(expired) ==
    /\ dq = "deferred"
    /\ is_abort_release_safe = ~expired
    /\ dq' = IF expired THEN "expired" ELSE "released"
    /\ armed' = 0 /\ acks' = {}
    /\ UNCHANGED <<dstatus, bootstrap_infos, init_time, abort_notified, tracker,
                   generation, network, scheduler, room, worker, crashed, faults>>
DrainedRelease == ResolveDeferred(FALSE)
ReleaseTimeout == ResolveDeferred(TRUE)

-----------------------------------------------------------------------------
(* Prefill: the bootstrap thread of rank r *)

(* A status that opens a room also drops what an earlier use left behind. *)
open_room(opened, s) ==
    /\ pstatus' = [r \in Rank |-> IF r \in opened
                                  THEN update_status(pstatus[r], s) ELSE pstatus[r]]
    /\ LET fresh == {r \in opened : pstatus[r] = "none"}
       IN  /\ target' = [r \in Rank |-> IF r \in fresh THEN 0 ELSE target[r]]
           /\ poisoned' = [r \in Rank |-> r \notin fresh /\ poisoned[r]]
           /\ outstanding' = [r \in Rank |-> IF r \in fresh THEN 0
                                             ELSE outstanding[r]]

RecvMeta(r) ==
    /\ ~crashed /\ under_way(r)
    /\ metas' = taken(r)
    /\ transfer_infos' = [transfer_infos EXCEPT ![r] = TRUE]
    /\ open_room({r}, "WaitingForInput")
    /\ UNCHANGED <<decode, aborts, stats, ackmsgs, scheduler, worker, crashed,
                   faults>>

(* _maybe_ack_drained_abort with out chunks outstanding and tgt registered. *)
maybe_ack_drained_abort(r, out, tgt) ==
    /\ target' = [target EXCEPT ![r] = IF out > 0 THEN tgt ELSE 0]
    /\ ackmsgs' = IF out = 0 /\ ~poisoned[r] /\ tgt # 0
                  THEN ackmsgs \cup {<<r, tgt>>} ELSE ackmsgs

(* An ABORT for a room the rank does not know passes indices on a closed    *)
(* connection.                                                              *)
overtake(r) ==
    IF metas[r] = "closed" /\ pstatus[r] = "none"
    THEN [metas EXCEPT ![r] = "overtaken"] ELSE metas

(* Mutant: the ABORT is answered now or never. *)
RecvAbortForgets(r, g) ==
    /\ ~crashed /\ g \in aborts[r] /\ metas[r] # "sent"
    /\ aborts' = [aborts EXCEPT ![r] = @ \ {g}]
    /\ metas' = overtake(r)
    /\ pstatus' =
         [pstatus EXCEPT ![r] =
             IF @ \notin {"none", "Success"} \/ outstanding[r] > 0
             THEN update_status(@, "Failed") ELSE @]
    /\ IF g = 0 \/ outstanding[r] > 0
       THEN UNCHANGED <<target, ackmsgs>>
       ELSE maybe_ack_drained_abort(r, 0, IF poisoned[r] THEN target[r] ELSE g)
    /\ UNCHANGED <<decode, stats, scheduler, transfer_infos, outstanding,
                   poisoned, worker, crashed, faults>>

(* _handle_deferred_abort_notification.  On one connection the ABORT comes  *)
(* after the page indices; a rank that does not know the room yet answers   *)
(* at once.                                                                 *)
RecvAbort(r, g) ==
    /\ ~crashed /\ g \in aborts[r] /\ metas[r] # "sent"
    /\ aborts' = [aborts EXCEPT ![r] = @ \ {g}]
    /\ metas' = overtake(r)
    /\ pstatus' =
         [pstatus EXCEPT ![r] =
             IF @ \notin {"none", "Success"} \/ outstanding[r] > 0
             THEN update_status(@, "Failed") ELSE @]
    /\ IF g = 0
       THEN UNCHANGED <<target, ackmsgs>>
       ELSE maybe_ack_drained_abort(r, outstanding[r],
                                    IF poisoned[r] THEN target[r] ELSE g)
    /\ UNCHANGED <<decode, stats, scheduler, transfer_infos, outstanding,
                   poisoned, worker, crashed, faults>>

-----------------------------------------------------------------------------
(* Prefill: the transfer worker of rank r *)

last_chunk(r) == deq[r] = NumChunks

(* Mutant: a chunk taken from the queue is not counted. *)
DequeueUncounted(r) ==
    /\ ~crashed /\ wpc[r] = "idle" /\ deq[r] < enq[r]
    /\ deq' = [deq EXCEPT ![r] = @ + 1]
    /\ wpc' = [wpc EXCEPT ![r] = "counted"]
    /\ UNCHANGED <<decode, network, scheduler, room, enq, src_poisoned, lingering,
                   landed, crashed, faults>>

(* The chunk is counted at dequeue, before its room's status is looked at. *)
Dequeue(r) ==
    /\ ~crashed /\ wpc[r] = "idle" /\ deq[r] < enq[r]
    /\ deq' = [deq EXCEPT ![r] = @ + 1]
    /\ outstanding' = [outstanding EXCEPT ![r] = @ + 1]
    /\ wpc' = [wpc EXCEPT ![r] = "counted"]
    /\ UNCHANGED <<decode, network, scheduler, pstatus, transfer_infos, target,
                   poisoned, enq, src_poisoned, lingering, landed, crashed, faults>>

(* A chunk of a failed or cleared room is skipped and the count dropped. *)
SkipChunk(r) ==
    /\ ~crashed /\ wpc[r] = "counted" /\ pstatus[r] \in {"none", "Failed"}
    /\ outstanding' = [outstanding EXCEPT ![r] = 0]
    /\ maybe_ack_drained_abort(r, 0, target[r])
    /\ wpc' = [wpc EXCEPT ![r] = "idle"]
    /\ UNCHANGED <<decode, metas, aborts, stats, scheduler, pstatus,
                   transfer_infos, poisoned, enq, deq, src_poisoned, lingering,
                   landed, crashed, faults>>

StartWrite(r) ==
    /\ ~crashed /\ wpc[r] = "counted" /\ pstatus[r] \notin {"none", "Failed"}
    /\ wpc' = [wpc EXCEPT ![r] = IF transfer_infos[r] THEN "writing" ELSE "ending"]
    /\ UNCHANGED <<decode, network, scheduler, room, enq, deq, src_poisoned,
                   lingering, landed, crashed, faults>>

(* The chunk is refused before anything is written: the peer's session has  *)
(* failed before, or the page counts of the two sides differ.               *)
RejectChunk(r) ==
    /\ ~crashed /\ wpc[r] = "counted" /\ pstatus[r] \notin {"none", "Failed"}
    /\ transfer_infos[r] /\ Fault
    /\ pstatus' = [pstatus EXCEPT ![r] = update_status(@, "Failed")]
    /\ stats' = stats \cup {<<r, "Failed">>}
    /\ wpc' = [wpc EXCEPT ![r] = "ending"]
    /\ UNCHANGED <<decode, metas, aborts, ackmsgs, scheduler, transfer_infos,
                   outstanding, target, poisoned, enq, deq, src_poisoned,
                   lingering, landed, crashed>>

(* Decode is told that the chunk failed, unless the chunk has state indices *)
(* and the room had failed when they were sent: then the worker drops out.  *)
sync_failed(r) ==
    \/ stats' = stats \cup {<<r, "Failed">>}
    \/ last_chunk(r) /\ pstatus[r] \in {"none", "Failed"} /\ UNCHANGED stats

(* conclude_transfer(Success): nothing for a cleared room, Failed for a     *)
(* room that has failed meanwhile.                                          *)
conclude_transfer(r) ==
    /\ pstatus' = [pstatus EXCEPT ![r] = update_status(@, "Success")]
    /\ \/ pstatus[r] = "none" /\ UNCHANGED stats
       \/ pstatus[r] = "Failed" /\ sync_failed(r)
       \/ /\ pstatus[r] \notin {"none", "Failed"}
          /\ stats' = stats \cup {<<r, "Success">>}

WriteDone(r) ==
    /\ ~crashed /\ wpc[r] = "writing"
    /\ landed' = [landed EXCEPT ![r] = IF src_held[r] THEN @ + 1 ELSE @]
    /\ IF last_chunk(r) THEN conclude_transfer(r) ELSE UNCHANGED <<pstatus, stats>>
    /\ wpc' = [wpc EXCEPT ![r] = "ending"]
    /\ UNCHANGED <<decode, metas, aborts, ackmsgs, scheduler, transfer_infos,
                   outstanding, target, poisoned, enq, deq, src_poisoned,
                   lingering, crashed, faults>>

(* Mutant: an error of the engine is taken for the end of the write. *)
WriteErrorTrusted(r, still_running) ==
    /\ ~crashed /\ wpc[r] = "writing" /\ Fault
    /\ lingering' = [lingering EXCEPT ![r] = still_running]
    /\ pstatus' = [pstatus EXCEPT ![r] = update_status(@, "Failed")]
    /\ stats' = stats \cup {<<r, "Failed">>}
    /\ wpc' = [wpc EXCEPT ![r] = "ending"]
    /\ UNCHANGED <<decode, metas, aborts, ackmsgs, scheduler, transfer_infos,
                   outstanding, target, poisoned, enq, deq, src_poisoned, landed,
                   crashed>>

(* The engine reports an error; after its own timeout the batch may still   *)
(* be running.  The room is poisoned, failed and decode is told.            *)
WriteError(r, still_running) ==
    /\ ~crashed /\ wpc[r] = "writing" /\ Fault
    /\ target' = [target EXCEPT ![r] = 0]
    /\ poisoned' = [poisoned EXCEPT ![r] = TRUE]
    /\ lingering' = [lingering EXCEPT ![r] = still_running]
    /\ pstatus' = [pstatus EXCEPT ![r] = update_status(@, "Failed")]
    /\ sync_failed(r)
    /\ wpc' = [wpc EXCEPT ![r] = "ending"]
    /\ UNCHANGED <<decode, metas, aborts, ackmsgs, scheduler, transfer_infos,
                   outstanding, enq, deq, src_poisoned, landed, crashed>>

(* The worker's exception handler: both drain proofs are poisoned, the      *)
(* count is left as it is, and decode is not told.                          *)
WriteException(r, still_running) ==
    /\ ~crashed /\ wpc[r] = "writing" /\ Fault
    /\ target' = [target EXCEPT ![r] = 0]
    /\ poisoned' = [poisoned EXCEPT ![r] = TRUE]
    /\ src_poisoned' = [src_poisoned EXCEPT ![r] = TRUE]
    /\ lingering' = [lingering EXCEPT ![r] = still_running]
    /\ pstatus' = [pstatus EXCEPT ![r] = update_status(@, "Failed")]
    /\ wpc' = [wpc EXCEPT ![r] = "idle"]
    /\ UNCHANGED <<decode, network, scheduler, transfer_infos, outstanding, enq,
                   deq, landed, crashed>>

(* The end of the loop body. *)
FinishChunk(r) ==
    /\ ~crashed /\ wpc[r] = "ending"
    /\ LET out == outstanding[r] - 1
       IN  /\ outstanding' = [outstanding EXCEPT ![r] = out]
           /\ maybe_ack_drained_abort(r, out, target[r])
           /\ transfer_infos' =
                [transfer_infos EXCEPT ![r] =
                    @ /\ ~(out = 0 /\ \/ pstatus[r] \in {"none", "Success"}
                                      \/ last_chunk(r) /\ pstatus[r] = "Failed")]
    /\ wpc' = [wpc EXCEPT ![r] = "idle"]
    /\ UNCHANGED <<decode, metas, aborts, stats, scheduler, pstatus, poisoned,
                   enq, deq, src_poisoned, lingering, landed, crashed, faults>>

(* A send that was given up stops writing at last. *)
LingerEnds(r) ==
    /\ lingering[r]
    /\ lingering' = [lingering EXCEPT ![r] = FALSE]
    /\ UNCHANGED <<decode, network, scheduler, room, enq, deq, wpc, src_poisoned,
                   landed, crashed, faults>>

-----------------------------------------------------------------------------
(* Prefill: the scheduler, in lockstep on the smallest poll of the ranks *)

(* MooncakeKVSender.poll: the latched result, else the status, with Success *)
(* held back while a chunk is outstanding.                                  *)
poll(r) ==
    IF conclude_state[r] # "none" THEN conclude_state[r]
    ELSE IF pstatus[r] = "Success" /\ outstanding[r] > 0 THEN "Transferring"
    ELSE pstatus[r]

polled == [r \in Rank |-> IF poll(r) \in {"Success", "Failed"} THEN poll(r)
                          ELSE conclude_state[r]]

(* Mutant: the ranks act only when they are all in the same state. *)
all_reducedUnanimous(s) == \A r \in Rank : poll(r) = s

(* poll_and_all_reduce: MIN over the ranks. *)
all_reduced(s) ==
    /\ \E r \in Rank : poll(r) = s
    /\ \A r \in Rank : KVPoll[poll(r)] >= KVPoll[s]

(* The source drain tracker: published chunks not yet completed. *)
drained(r) == ~src_poisoned[r] /\ deq[r] = enq[r] /\ wpc[r] = "idle"

(* CommonKVSender.clear on every rank. *)
clear_senders ==
    /\ pstatus' = [r \in Rank |-> "none"]
    /\ transfer_infos' = [r \in Rank |-> FALSE]
    /\ target' = [r \in Rank |-> IF outstanding[r] > 0 THEN target[r] ELSE 0]
    /\ ackmsgs' = ackmsgs \cup
         {<<r, target[r]>> : r \in {q \in Rank : /\ outstanding[q] = 0
                                                /\ ~poisoned[q] /\ target[q] # 0}}
    /\ UNCHANGED <<outstanding, poisoned>>

PrefillAdd ==
    /\ ~crashed /\ preq = "none"
    /\ preq' = "bootstrap"
    /\ open_room(Rank, "Bootstrapping")
    /\ UNCHANGED <<decode, network, nsent, conclude_state, src_held,
                   transfer_infos, worker, crashed, faults>>

(* A poll that decides nothing still latches the ranks that are finished. *)
PrefillPoll ==
    /\ ~crashed /\ preq \in {"bootstrap", "inflight"}
    /\ polled # conclude_state
    /\ conclude_state' = polled
    /\ UNCHANGED <<decode, network, preq, nsent, src_held, room, worker, crashed,
                   faults>>

(* _check_bootstrap_timeout, from the poll of a bootstrapping room. *)
BootstrapTimeout(r) ==
    /\ ~crashed /\ preq = "bootstrap" /\ poll(r) = "Bootstrapping"
    /\ pstatus' = [pstatus EXCEPT ![r] = update_status(@, "Failed")]
    /\ UNCHANGED <<decode, network, scheduler, transfer_infos, outstanding,
                   target, poisoned, worker, crashed, faults>>

PopBootstrapped ==
    /\ ~crashed /\ preq = "bootstrap" /\ all_reduced("WaitingForInput")
    /\ preq' = "running"
    /\ src_held' = [r \in Rank |-> TRUE]
    /\ UNCHANGED <<decode, network, nsent, conclude_state, room, worker, crashed,
                   faults>>

(* send_kv_chunk and add_transfer_request: a rank whose room failed or was  *)
(* cleared, or that has no destination, publishes nothing.                  *)
SendChunk ==
    /\ ~crashed /\ preq = "running" /\ nsent < NumChunks
    /\ nsent' = nsent + 1
    /\ preq' = IF nsent' = NumChunks THEN "inflight" ELSE "running"
    /\ enq' = [r \in Rank |->
                 IF pstatus[r] \notin {"none", "Failed"} /\ transfer_infos[r]
                 THEN enq[r] + 1 ELSE enq[r]]
    /\ UNCHANGED <<decode, network, conclude_state, src_held, room, deq, wpc,
                   src_poisoned, lingering, landed, crashed, faults>>

(* sender.abort() on every rank. *)
abort_senders ==
    /\ pstatus' = [r \in Rank |-> update_status(pstatus[r], "Failed")]
    /\ conclude_state' = [r \in Rank |-> "Failed"]

(* AbortReq for a request that is bootstrapping or in the inflight queue. *)
PrefillAbort ==
    /\ ~crashed /\ preq \in {"bootstrap", "inflight"}
    /\ \E r \in Rank : conclude_state[r] # "Failed"
    /\ abort_senders
    /\ UNCHANGED <<decode, network, preq, nsent, src_held, transfer_infos,
                   outstanding, target, poisoned, worker, crashed, faults>>

(* AbortReq for a request that waits or runs: its pages go back at once,    *)
(* chunks already published or not, and the room is never cleared.          *)
RetireAborted ==
    /\ ~crashed /\ preq = "running"
    /\ abort_senders
    /\ preq' = "done" /\ src_held' = [r \in Rank |-> FALSE]
    /\ UNCHANGED <<decode, network, nsent, transfer_infos, outstanding, target,
                   poisoned, worker, crashed, faults>>

(* Mutant: the first rank to succeed decides for all of them. *)
FinishTransferFirst ==
    /\ ~crashed /\ preq = "inflight" /\ \E r \in Rank : poll(r) = "Success"
    /\ preq' = "done" /\ src_held' = [r \in Rank |-> FALSE]
    /\ conclude_state' = [r \in Rank |-> "Success"]
    /\ clear_senders
    /\ UNCHANGED <<decode, metas, aborts, stats, nsent, worker, crashed, faults>>

(* Poll Success in the inflight queue: release the pages, clear the room. *)
FinishTransfer ==
    /\ ~crashed /\ preq = "inflight" /\ all_reduced("Success")
    /\ preq' = "done" /\ src_held' = [r \in Rank |-> FALSE]
    /\ conclude_state' = polled
    /\ clear_senders
    /\ UNCHANGED <<decode, metas, aborts, stats, nsent, worker, crashed, faults>>

(* Poll Failed in the bootstrap, waiting or inflight queue: clear the room; *)
(* each rank gives its pages back once its published chunks have drained.   *)
HandleFailure ==
    /\ ~crashed
    /\ preq \in {"bootstrap", "inflight"} \/ (preq = "running" /\ nsent = 0)
    /\ all_reduced("Failed")
    /\ conclude_state' = [r \in Rank |-> "Failed"]
    /\ clear_senders
    /\ src_held' = [r \in Rank |-> src_held[r] /\ ~drained(r)]
    /\ preq' = IF \E r \in Rank : src_held'[r] THEN "aborting" ELSE "done"
    /\ UNCHANGED <<decode, metas, aborts, stats, nsent, worker, crashed, faults>>

(* abort_external_kv_request, tried again until the source has drained. *)
RetryCleanup(r) ==
    /\ ~crashed /\ preq = "aborting" /\ src_held[r] /\ drained(r)
    /\ src_held' = [src_held EXCEPT ![r] = FALSE]
    /\ preq' = IF \E q \in Rank : src_held'[q] THEN "aborting" ELSE "done"
    /\ UNCHANGED <<decode, network, nsent, conclude_state, room, worker, crashed,
                   faults>>

-----------------------------------------------------------------------------
(* Faults of the environment *)

(* The prefill instance dies: no worker writes any more. *)
Crash ==
    /\ ~crashed /\ Fault
    /\ crashed' = TRUE
    /\ wpc' = [r \in Rank |-> "idle"]
    /\ lingering' = [r \in Rank |-> FALSE]
    /\ UNCHANGED <<decode, network, scheduler, room, enq, deq, src_poisoned,
                   landed>>

(* Every message is sent best effort. *)
LoseMessage ==
    /\ Fault
    /\ \/ /\ \E r \in Rank : under_way(r) /\ metas' = taken(r)
          /\ UNCHANGED <<aborts, stats, ackmsgs>>
       \/ /\ \E r \in Rank : \E g \in aborts[r] :
                aborts' = [aborts EXCEPT ![r] = @ \ {g}]
          /\ UNCHANGED <<metas, stats, ackmsgs>>
       \/ /\ \E m \in stats : stats' = stats \ {m}
          /\ UNCHANGED <<metas, aborts, ackmsgs>>
       \/ /\ \E m \in ackmsgs : ackmsgs' = ackmsgs \ {m}
          /\ UNCHANGED <<metas, aborts, stats>>
    /\ UNCHANGED <<decode, scheduler, room, worker, crashed>>

-----------------------------------------------------------------------------
BootstrapThread(r) ==
    RecvMeta(r) \/ \E g \in aborts[r] : RecvAbort(r, g)

WorkerStep(r) ==
    \/ Dequeue(r) \/ SkipChunk(r) \/ StartWrite(r) \/ WriteDone(r)
    \/ FinishChunk(r)

WorkerFault(r) ==
    \/ RejectChunk(r)
    \/ \E still_running \in BOOLEAN :
          WriteError(r, still_running) \/ WriteException(r, still_running)

DecodeThread ==
    \/ \E m \in stats : RecvStatus(m[1], m[2])
    \/ \E m \in ackmsgs : RecvAck(m[1], m[2])

DecodeScheduler ==
    \/ DecodeInit \/ PopPreallocated \/ DropPrealloc \/ WaitingTimeout
    \/ CommitTransfer

PrefillScheduler ==
    \/ PrefillPoll \/ PopBootstrapped \/ SendChunk \/ FinishTransfer
    \/ HandleFailure
    \/ \E r \in Rank : BootstrapTimeout(r) \/ RetryCleanup(r)

PrefillSide ==
    \/ PrefillAdd \/ PrefillScheduler \/ PrefillAbort \/ RetireAborted
    \/ \E r \in Rank : \/ BootstrapThread(r) \/ WorkerStep(r)
                        \/ WorkerFault(r) \/ LingerEnds(r)
    \/ Crash \/ LoseMessage

(* Everything on the decode side but what becomes of a failed request. *)
DecodeSide == DecodeAdd \/ DecodeThread \/ DecodeScheduler \/ NodeFailure

Next ==
    \/ PrefillSide \/ DecodeSide
    \/ DecodeAbort \/ FailTransfer \/ DrainedRelease \/ ReleaseTimeout

Spec == Init /\ [][Next]_vars

(***************************************************************************)
(* Fairness.  Every thread of a live process keeps running and messages    *)
(* that are not lost arrive; the clocks behind the waiting and bootstrap   *)
(* timeouts advance.  The deadline of the deferred release is left out, so *)
(* that liveness shows what the acknowledgements achieve without it.       *)
(***************************************************************************)
Fairness ==
    /\ WF_vars(DecodeThread) /\ WF_vars(DecodeScheduler)
    /\ WF_vars(FailTransfer) /\ WF_vars(DrainedRelease)
    /\ WF_vars(PrefillScheduler)
    /\ \A r \in Rank : WF_vars(BootstrapThread(r)) /\ WF_vars(WorkerStep(r))

FairSpec == Spec /\ Fairness

-----------------------------------------------------------------------------
(* The state, typed: the queues, statuses, generations and counters of the *)
(* two managers take only the values their code gives them.                *)
TypeOK ==
    /\ dq \in {"none", "prealloc", "transfer", "deferred", "committed",
               "released", "expired", "dropped"}
    /\ dstatus \in Status
    /\ bootstrap_infos \in BOOLEAN /\ init_time \in BOOLEAN
    /\ abort_notified \in BOOLEAN
    /\ tracker \in SUBSET Rank /\ acks \in SUBSET Rank
    /\ generation \in Nat /\ armed \in Nat
    /\ metas \in [Rank -> {"none", "sent", "closed", "overtaken", "late"}]
    /\ aborts \in [Rank -> SUBSET Nat]
    /\ stats \in SUBSET (Rank \X {"Success", "Failed"})
    /\ ackmsgs \in SUBSET (Rank \X Nat)
    /\ preq \in {"none", "bootstrap", "running", "inflight", "aborting", "done"}
    /\ nsent \in 0..NumChunks
    /\ pstatus \in [Rank -> Status]
    /\ transfer_infos \in [Rank -> BOOLEAN]
    /\ conclude_state \in [Rank -> {"none", "Success", "Failed"}]
    /\ src_held \in [Rank -> BOOLEAN]
    /\ enq \in [Rank -> 0..NumChunks] /\ deq \in [Rank -> 0..NumChunks]
    /\ wpc \in [Rank -> {"idle", "counted", "writing", "ending"}]
    /\ outstanding \in [Rank -> Nat] /\ target \in [Rank -> Nat]
    /\ poisoned \in [Rank -> BOOLEAN] /\ src_poisoned \in [Rank -> BOOLEAN]
    /\ lingering \in [Rank -> BOOLEAN]
    /\ landed \in [Rank -> 0..NumChunks]
    /\ crashed \in BOOLEAN /\ faults \in 0..MaxFaults

writing == {r \in Rank : wpc[r] = "writing" \/ lingering[r]}

(* The ranks whose ABORT came before their page indices. *)
overtaken == {r \in Rank : metas[r] \in {"overtaken", "late"}}

(* Pages released on an answer given before the indices came are released   *)
(* without proof, like those the deadline takes back.                       *)
page ==
    IF dq \in {"transfer", "deferred"} THEN "reserved"
    ELSE IF dq \in {"none", "prealloc", "dropped"} THEN "free"
    ELSE IF dq = "released" /\ overtaken # {} THEN "expired"
    ELSE dq

Handoff == INSTANCE KVHandoff WITH
              page <- page, writers <- writing,
              full <- {r \in Rank : landed[r] = NumChunks}

(* The protocol keeps the promise of KVHandoff: pages are committed only    *)
(* when every rank's KV has landed in them from pages that rank still held, *)
(* and pages that were committed, or released on acknowledgements none of   *)
(* which was given before the page indices came, are not being written and  *)
(* are never written again (the ABORT/ABORT_ACK drain of common/conn.py and *)
(* the transfer worker of mooncake/conn.py).                                *)
ImplementsHandoff == Handoff!Spec

(* Pages that left the transfer queue have no writer, unless the release    *)
(* deadline took them back; the one exception among the released ones are   *)
(* ranks that answered the ABORT before the page indices came, over a       *)
(* connection that _handle_node_failure had closed.                         *)
ReleasedIsQuiet ==
    /\ dq \in {"committed", "dropped"} => writing = {}
    /\ dq = "released" => \A r \in writing : metas[r] = "late"

(* What the acknowledgements are for, without the exception: released pages *)
(* are not being written.                                                   *)
ReleasedIsDrained == dq = "released" => writing = {}

(* A rank whose ACK of the armed generation was recorded or is under way    *)
(* is finished with the pages: it writes nothing now, and no chunk still in *)
(* its queue, nothing its scheduler may still publish and no page indices   *)
(* still to come can make it write.  Only the answer of a rank whose        *)
(* indices were overtaken does not mean that.                               *)
stopped(r) ==
    \/ crashed
    \/ /\ r \notin writing
       /\ wpc[r] = "counted" \/ deq[r] < enq[r] => pstatus[r] \in {"none", "Failed"}
       /\ preq \in {"none", "bootstrap", "running"} =>
             pstatus[r] = "Failed" \/ ~(transfer_infos[r] \/ under_way(r))
AckedIsStopped ==
    \A r \in Rank : armed # 0 /\ (r \in acks \/ <<r, armed>> \in ackmsgs) =>
                      stopped(r) \/ r \in overtaken

(* The prefill instance reports a request as transferred only when every    *)
(* rank's every chunk has landed.                                           *)
ReportedIsLanded ==
    preq = "done" /\ (\A r \in Rank : conclude_state[r] = "Success") =>
        \A r \in Rank : landed[r] = NumChunks

(* A held request is settled by the acknowledgements alone when no fault    *)
(* happened: every ABORT is answered once the rank's writes have drained,   *)
(* and decode counts the answer, so the deadline is not needed.             *)
DrainsWithoutFault ==
    [](faults = 0) => (dq = "deferred" ~> dq # "deferred")

(* Whatever is lost, fails or dies, the decode pages are committed or given *)
(* back, with the help of the release deadline.                             *)
PagesSettle ==
    WF_vars(ReleaseTimeout) =>
        (dq \in {"transfer", "deferred"} ~> dq \in {"committed", "released", "expired"})

(* The prefill request comes to an end on every rank, unless the instance   *)
(* died or a rank keeps its pages because a worker's exception left their   *)
(* use unknown.                                                             *)
PrefillSettles ==
    preq # "none" ~>
        \/ preq = "done" \/ crashed
        \/ \E r \in Rank : src_poisoned[r] /\ src_held[r]
=============================================================================
