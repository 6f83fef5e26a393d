# A TLA+ model of the SGLang runtime's scheduler, KV cache, KV transfer and control plane

This project models the parts of `src/python/sglang/srt` that decide which
request runs, which memory it uses and when shared state may be changed. They
are where an order of events nobody wrote a test for does damage: a page freed
twice or while another machine writes it, a token committed to the wrong
request, a caller that is never woken.
TLC checks the models on small instances; TLAPS proves most of the safety
properties for every instance.

`PROJECT.json` holds the component list, the runs, one mutant for each checked
property, the map from definitions to source lines, the hazards and the
findings. Run a model with `tlc -config KVOverlap.cfg MCKVScheduler`, a proof with
`tlapm KVMemoryProofs.tla`.

## 1. The system

A server is a few processes. The *tokenizer process* (an asyncio loop) takes
HTTP requests, tokenizes them and sends them to the *scheduler processes*, one
per tensor- or data-parallel rank; a *detokenizer* turns sampled ids into text.
Each scheduler runs one loop thread that builds batches and launches them on its
device. With *disaggregation* one server prefills prompts and another decodes:
the KV cache of a prompt is written from the first into pages of the second by
one-sided RDMA. In front of several servers stands a Rust *gateway*.

| Component | State it keeps | Operations | What makes it correct |
|---|---|---|---|
| Radix prefix cache (`mem_cache/radix_cache.py`) | tree of token segments with pages, lock counts, evictable and protected sizes, evictable leaves | match, insert, checkpoint, lock, unlock, evict, reset | a page has one owner; a locked path stays; counters equal the tree |
| Request KV life cycle (`mem_cache/common.py`, `managers/schedule_batch.py`) | row of pages, committed length, protected length, lock, chunk count | admit, extend, decode, checkpoint, release, retract, finish | no leak, no double free, KV content is that of the request's text |
| KV pool allocation (`mem_cache/allocation.py`, `allocator/*`, `mem_cache/prefill_budget.py`) | free list, budget of a pass | demand, evict for it, allocate, free | allocations that admission promised do not fail |
| Scheduler loop (`managers/scheduler.py`) | waiting queue, running batch, last batch, chunked request, result queue, `batch_is_full` | receive, abort, flush, schedule, launch, process | results meet the right state; every request ends |
| Admission policy (`managers/schedule_policy.py`) | chunk budget, token budget | `add_chunked_req`, `add_one_req` | a pass never promises more than there is |
| Result processing (`managers/scheduler_components/batch_result_processor.py`) | - | commit, skip, finish | each sampled token is committed once, in order |
| Reader-writer lock (`utils/aio_rwlock.py`) | readers, writer flag, waiting writers | acquire and release, cancellation | exclusion, no lost wake-up, writers are not overtaken |
| Fan-out communicator (`managers/communicator.py`) | result slot, queue of callers, fan-out | queueing call, watching call, `handle_recv`, `set_fan_out` | an answer goes to the call it answers |
| LoRA registry and updates (`lora/lora_registry.py`, `managers/tokenizer_control_mixin.py`, `managers/tokenizer_manager.py`) | registry, usage counters, pending unloads, reference cache | resolve, acquire, release, load, unload, evict | an adapter in use stays loaded; registry and ranks agree |
| Prefill/decode disaggregation (`disaggregation/prefill.py`, `decode.py`, `common/conn.py`, `mooncake/conn.py`) | per room: status on each side, page indices, chunks outstanding, abort generations and acknowledgements, held pages | bootstrap, publish pages, send and write chunks, report, abort, acknowledge, commit, release | KV is used only when complete; pages are not reused while a rank may write them; held pages come back |
| HiCache, SWA and hybrid caches, DP controller, sessions, pipeline parallelism, speculative decoding, gateway, kernels | | | not modelled yet, see section 7 |

How they interact. The loop thread calls the cache and the allocators directly;
there is no lock, so the hazards there are of order, not of data races: the
loop schedules batch *n+1* before it has seen the result of batch *n*, and what
it decided then (who finished, who was retracted, whose chunk was aborted) must
still fit when the result comes. The tokenizer process talks to the ranks by
messages; `FanOutCommunicator` is the primitive under LoRA updates, weight
updates and cache flushes, and the registry's lock is the `RWLock` modelled
here. On asyncio the hazards are suspension points: state read before an
`await` and used after it, and tasks cancelled while they wait.

Prefill and decode servers share nothing but messages and the pages decode has
published. Each side runs a scheduler loop, a message thread and, on prefill,
transfer workers; they meet in dictionaries keyed by the room. What is hard is
giving up: decode cannot recall a write that is under way, so it asks every rank
to stop, holds the pages, and reuses them when each has answered, while answers,
timeouts, node failures and late successes cross.

The behaviours that are hard to test, each at its line, are the `hazards` of
`PROJECT.json`.

## 2. The modules

| Module | Models | EXTENDS |
|---|---|---|
| `RadixTree` | `RadixCache` as operators on a tree value | |
| `KVScheduler` | the loop, batches, requests and pools | `RadixTree` |
| `MCKVScheduler` | instances for TLC | `KVScheduler` |
| `RadixTreeProofs` | what each tree operation keeps | `RadixTree`, `TLAPS` |
| `KVControlProofs` | types and the result queue; where requests are and which results they are due | `KVScheduler`, `RadixTreeProofs` |
| `KVMemoryProofs` | pages, locks and contents; most theorems about `KVScheduler` | `KVControlProofs` |
| `KVHeadroomProofs` | that there are always enough pages and rows | `KVMemoryProofs` |
| `RWLock`, `RWLockProofs` | the reader-writer lock, its proofs | |
| `FanOutCommunicator`, `FanOutProofs` | the control-plane call primitive, its proofs | |
| `LoRAAdapters`, `MCLoRAAdapters` | registry, ranks, requests and updates | |
| `LoRAProofs` | proofs for any requests, adapters, ranks and limits | `LoRAAdapters`, `TLAPS` |
| `KVHandoff` | what a KV transfer promises, without its protocol | |
| `PDTransfer` | one bootstrap room over Mooncake, both sides; an `INSTANCE` of `KVHandoff` is its abstract form | |
| `PDTransferProofs` | proofs for any ranks, chunks and faults | `PDTransfer`, `TLAPS` |
| `PDTransferHCU` | the decode scheduler's other road on HCU with pipeline stages | `PDTransfer` |

A definition whose comment begins with "Mutant:" is not part of a model: it is a
wrong form of the definition that follows it, kept to show that the property
named with it in `PROJECT.json` notices the mistake.

### RadixTree

A node is named by the whole path from the root to the end of its segment.
`_split_node` keeps the existing object for the longer path and makes a new
parent, so a name means the same node for as long as it exists, which is what
lets a request hold a node across splits. `value` gives the page of each cached
page-aligned path, `node` the node it belongs to; `lock_ref`, `evictable_size`,
`protected_size` and `evictable_leaves` are the fields the code maintains by
increments, kept the same way here so that drift would show. `EvictableSets`
gives every set of nodes that `evict(n)` can delete under some eviction policy:
priorities, access times and hashes only rank the heap.

### KVScheduler

`pc` names the part of the iteration the loop is in:

| `pc` | Code | Actions |
|---|---|---|
| `recv` | `recv_requests`, `process_input_requests`, then the start of `get_next_batch_to_run` | `Arrive`, `AbortWaiting`, `AbortInflight`, `FlushCache`; `Schedule`, `StashChunk`, `AbortChunk` |
| `admit` | `get_new_batch_prefill`, `PrefillAdder` | `AddChunkedReq`, `Admit`, `Reject`, `ClosePass` |
| `extend` | `prepare_for_extend`, `alloc_for_extend`, forward | `Extend` |
| `decode`, `retract` | `update_running_batch`, `retract_decode` | `UpdateRunningBatch`, `Retract` |
| `alloc_decode` | `prepare_for_decode`, `alloc_for_decode`, forward | `Decode` |
| `process` | `process_batch_result`, end of the iteration | `ProcessPrefill`, `ProcessDecode`, `EndIteration` |
| `crashed` | the `RuntimeError` of a failed allocation | none |

`todo` holds the requests of the current part that are still to be handled, one
per step, in any order. `Overlap` chooses between `event_loop_overlap` and
`event_loop_normal`. A request record has what `Req` and `ReqKvInfo` keep
(`row`, `protected`, `prefix`, `extend_end`, `committed`, `lock`, `middle` for
`inflight_middle_chunks`, `retracted`, `to_finish`) and one ghost field, `dev`:
the text the device has generated, of which the loop has seen only `out`.
`content` is a ghost too: the text whose KV each page holds.

What is abstracted:

- The device executes launched batches in stream order, so a batch's KV writes
  are made at its launch. KV in a page given back counts as lost at once.
- Which free page is handed out makes no difference; a fixed one is taken. The
  free list is a count per page, so that a page freed twice is seen.
- The order of the waiting queue, the retraction order and the eviction victim
  are nondeterministic: every policy of the code is one of the choices.
- `new_token_ratio` is a heuristic between 0 and 1; the reserve of a pass is any
  value between nothing and the whole estimate.
- Prompts are those `validate_input_length` lets pass; its margin of 5 tokens is
  the constant `InputMargin`, scaled down with the pool. `max_new_tokens` is
  clipped as in `init_req_max_new_tokens`. A stop token or string may match at
  any token. `Sampled` restricts what the model samples.
- A batch evicts for its whole demand before its first request takes pages.
- Left out: speculative decoding, beam search, mixed chunks, priority
  preemption, sliding windows, mamba state, HiCache, disaggregation, sessions,
  DP attention, engine pause, free groups (invisible within an iteration),
  `max_prefill_tokens` and `prefill_max_requests` (further caps of the same
  kind as the chunk budget), `disable_overlap_for_batch`.

`InFlight` are the batches launched or being launched whose results are not all
processed, in launch order, and `Due(r)` the positions in it whose result request
`r` is still to be given. `OutputFollowsDevice` says that the text the device has
generated for `r` is its output followed by the tokens due, the n-th of them n
beyond the output; `MiddleChunksExact`, that the others due are middle chunks,
as many as `inflight_middle_chunks` says.

`AbortLast`, the branch of `retract_decode` that aborts the only request left,
is in the model and is never taken: this is what `LastRequestFits` says.

### RWLock

A task is one use of the lock. A step runs from one suspension to the next; a
task woken by `notify_all` is `notified` until the event loop resumes it. The
order of resumption is free (asyncio's is first-in first-out). Cancellation may
come at any suspension. `PassOnNotify` tells whether `asyncio.Condition.wait()`
wakes another waiter when a wait is cancelled, which it does from Python 3.13 on
and the repository supports 3.11.

### FanOutCommunicator

A caller makes one call; `mode` is fixed when the communicator is made. Responses
carry no identifier, as in the code; in the model they carry the caller as a
ghost, so that `OwnReplies` can ask whose they are. Ranks answer the requests
they get in order, and several ranks in any order among themselves. A waiting
call may be cancelled: it leaves the queue of the lock and its slot stays open.
`RepliesRouted` says when answers nevertheless reach the request they answer:
in watching mode always, in queueing mode until somebody is cancelled. Reuse of
a slot by `obj is None` is left out.

### LoRAAdapters

`op` is the update that holds `lora_update_lock`: a load waiting for the ranks,
an unload waiting for the adapter's counter, or for the ranks. Requests and the
administrator start updates. A rank is the set of adapters it has loaded; any
rank may fail an operation. The registry's reader-writer lock is never held
across a suspension on these paths, so the code between two real suspensions is
one action. `ListForm` are the requests whose `lora_path` is a list: only they
look their adapters up in one step and count themselves in in a later one. The
entries of a list are touched in the order of the list, up to the first that is
missing when one is; entries that are `None` and loading from tensors (the same
control) are left out. An id is reused once nothing remembers it
(`UnusedIds`), where the code draws a fresh uuid. Three assumptions are limits
the server enforces itself: a request fits the adapters that may be loaded,
`validate_new_adapter` never lets every slot be pinned, and
`check_lora_server_args` bounds the preloaded ones.

### KVHandoff and PDTransfer

`KVHandoff` has three variables: what has become of the decode pages of a
request (`page`), which ranks are writing them (`writers`) and which have written
their whole part (`full`). Pages are committed when all parts are there and
nobody writes, released when nobody writes, and after either they are never
written again. The exception is `Expire`, a release without proof: the deadline
of the deferred release, where the code says itself that it releases "anyway",
and a release that counts the answer of a rank which had not yet received the
page indices (below).

`PDTransfer` is the protocol. Its actors and the code they stand for:

| Actor | Actions | Code |
|---|---|---|
| decode scheduler | `DecodeAdd`, `DecodeInit`, `PopPreallocated`, `DropPrealloc`, `DecodeAbort`, `WaitingTimeout`, `CommitTransfer`, `FailTransfer`, `DrainedRelease`, `ReleaseTimeout` | `DecodePreallocQueue`, `DecodeTransferQueue`, `CommonKVReceiver`, `MooncakeKVReceiver` |
| decode threads | `RecvStatus`, `RecvAck`, `NodeFailure` | `apply_prefill_status`, `handle_abort_ack_message`, the heartbeat |
| prefill scheduler | `PrefillAdd`, `PrefillPoll`, `BootstrapTimeout`, `PopBootstrapped`, `SendChunk`, `PrefillAbort`, `RetireAborted`, `FinishTransfer`, `HandleFailure`, `RetryCleanup` | `PrefillBootstrapQueue`, the inflight queue, `CommonKVSender`, `MooncakeKVSender` |
| bootstrap thread of a rank | `RecvMeta`, `RecvAbort` | `start_prefill_thread`, `_handle_deferred_abort_notification` |
| transfer worker of a rank | `Dequeue`, `SkipChunk`, `StartWrite`, `RejectChunk`, `WriteDone`, `WriteError`, `WriteException`, `FinishChunk`, `LingerEnds` | `transfer_worker` |
| environment | `Crash`, `LoseMessage` | |

A step runs from one point where another thread can matter to the next; the
worker's loop body is cut at the dequeue, before the write, after it and at the
end, which is where its locks are taken. `dstatus` and `pstatus` are
`request_status` on the two sides and change through `update_status`, the rule
for which status may follow which. `outstanding`, `target` and `poisoned` are the
drain accounting of a rank, `src_poisoned` and `enq`/`deq` what the source drain
tracker sees. The ghosts are `lingering` (a send the engine gave up may still be
writing) and `landed` (chunks written from pages the rank still held; a write
from pages given back is not counted as KV).

What is abstracted:

- One room. A later request with the same `bootstrap_room` is not modelled, so
  what `open_room` drops of an earlier use is there and always empty.
- The prefill ranks act in lockstep, on the smallest poll, as the all-reduce
  makes them; their threads and workers do not.
- Decode sends to a rank on one socket, so an ABORT comes after the page indices,
  as long as the socket is not closed. `NodeFailure` closes it
  (`disconnect_endpoints`; with `LINGER` 0 unsent messages are dropped), and the
  ABORT that `FailTransfer` sends afterwards takes a new connection. `metas` says
  where the indices of a rank are: "sent" on the socket in use, "closed" on one
  that was closed before the ABORT was sent, "overtaken" when the ABORT reached
  the rank first and the rank did not know the room, "late" once overtaken
  indices have arrived or were lost. Statuses and acknowledgements may overtake
  each other in any case. A reconnection inside ZeroMQ after a TCP reset would
  lose the order in the same way and is not modelled of its own.
- A last chunk with state indices whose room has failed is dropped by the worker
  without a word to decode; whether a chunk has state indices is left open
  (`sync_failed`).
- Which chunk and which pages a message names is left out; a chunk is a number.
- A fault is a lost message, a failed or timed-out send, a worker's exception, a
  node given up (rightly or wrongly), a crash, or indices that reached only some
  ranks.
  `MaxFaults` bounds them for TLC; the proofs hold for any bound.
- Left out: staging buffers, host destinations, PD hidden states, the
  `prefill_complete` allocation policy, optimistic prefill, dummy ranks, peers
  without a registration, and the hiding of Success until the metadata landed.

`PDTransferHCU` replaces what a decode stage does with a failed request. On HCU
with pipeline parallelism the stages agree on the ids that failed anywhere and
drop them with `drop_by_rids`; `DropFailed` is one stage doing so, whether or not
it has seen the failure itself.

## 3. The runs

| Run | Distinct states | What it asks |
|---|---|---|
| `KVOverlap` | 289 816 | three requests, two rows, one-token pages, two-token chunks, overlap: ownership, locks, counters, content, token order, chunk counts, batch membership, allocation |
| `KVNormal` | 322 758 | two-token pages in `event_loop_normal`: partly filled pages, long outputs, retraction, the last request |
| `KVLiveness` | 178 655 | every request ends under a fair loop; locked paths stay; allocation by pages |
| `RWLockFair` | 6 192 | exclusion, counters, lost wake-ups, overtaking; every waiter is served or cancelled |
| `FanOutCalls` | 46 610 | both modes with cancellations and a changing fan-out: own answers, slots; calls return |
| `LoRASingle` | 48 018 | adapters in use, registry against ranks, counters; reloads end |
| `PDTransfer` | 132 837 | two ranks, one fault: what an acknowledgement, a release and a report mean; the refinement of `KVHandoff`; held pages come back, both sides end |
| `RWLockStranded`, `FanOutLateReply`, `LoRAList`, `PDReconnect`, `PDReleaseHCU` | | expected violations, section 6 |

The bounds, and why they are enough to be of interest:

- `KVOverlap`: seven one-token pages; prompts `<<a>>`, `<<b>>` and
  `<<a, b, a, b>>` with up to five new tokens. The requests want more pages than
  there are, so eviction, rejection and retraction all happen; the long prompt
  takes two chunks and extends a shorter one, so nodes that are locked get split
  and two requests prefill the same prefix at once. There is a row less than
  there are requests, so rows are a limit too. Under overlap two results are in
  flight while a third decision is made, which is all the loop allows.
- `KVNormal`: five two-token pages and outputs of up to seven tokens, so that one
  request alone can fill the pool and pages are partly filled at every step.
  A finished request's slot in the model is used again, so histories are long.
- `KVLiveness`: without symmetry, three requests that do not fit together, paged
  and with overlap. The action property is checked here, where no invariant of
  the same mistake stands before it.
- `RWLock`: three readers and three writers, so that two of each kind can wait
  behind one. `FanOut`: three callers, two of them cancellable, one or two ranks,
  the number changing. `LoRA`: two slots for three adapters, two ranks, three
  requests, two of them for the same adapter. The list form is there with a
  pinned adapter only, which no unload can race (`LoRAList` has the other case).
- `PDTransfer`: two ranks are what it takes for one to fail, acknowledge or
  succeed while the other writes. One fault of any kind at any point is added to
  any number of aborts and timeouts. The prompt is one chunk, because the
  temporal properties are checked in the same run; an abort between two chunks of
  a prompt is covered by the theorems, which hold for every `NumChunks` and say
  everything the run says but the three liveness properties. (With two chunks and
  without them the run passes on 546 880 states.)
- `PDReconnect`: the same instance without the exception for overtaken indices.

Symmetry is over requests, which `KVScheduler` never tells apart, and only in
runs without a liveness property. Deadlock is checked except in the runs of
`PDTransfer` and `PDTransferHCU`, which follow one room to its end; in the others
a state without a step, a crashed scheduler among them, is an error.

## 4. Fairness

- `KVScheduler!FairSpec`: infinitely many steps of the loop. The loop is a
  `while True` that does not wait for anybody; clients owe nothing.
- `RWLock!FairSpec`: a woken task is resumed and a holder leaves. Nobody has to
  come, nobody has to be cancelled.
- `FanOutCommunicator!FairSpec`: a call that has the lock starts, a call whose
  event is set returns, responses under way arrive.
- `LoRAAdapters!FairSpec`: weak fairness for the ranks' replies, the drained
  counter, the gathered increments and finishing requests; strong fairness for a
  request's reload, because `lora_update_lock` is an `asyncio.Lock`, which
  serves its waiters in order, and here is only seen as free or taken.

- `PDTransfer!FairSpec`: the threads of a live process keep running, messages
  that are not lost arrive, and the clocks behind the waiting and the bootstrap
  timeout advance. Nothing is owed by users (the prefill request may never come),
  faults or crashes, nor by a send that was given up. The deadline of the deferred release is not fair, so that
  `DrainsWithoutFault` shows what the acknowledgements achieve without it;
  `PagesSettle` assumes it explicitly, since with a lost acknowledgement nothing
  else is left.

## 5. What is proved

TLAPS checks the proofs for every value of the constants that satisfies the
named assumptions.

`RWLockProofs`, from `TaskAssumption` (finite, disjoint sets of tasks):

- `LockInvariant`: the inductive invariant
  `LockInv == TypeOK /\ CountersExact /\ MutualExclusion`. None of the three is
  inductive alone: exclusion rests on the fields saying who holds, and that a
  decrement stays in `Nat` rests on a member being there to count. The work is
  cardinality: each action adds or removes one member of the set a field counts
  (`AddMember`, `RemoveMember`).
- `TypeCorrect`, `Exclusion`, `Counters` follow. `NotOvertaken` is the action
  property, from the same invariant: while a writer waits, `waiting_writers > 0`
  and no step of `acquire_reader` gets through.
- `NobodyStranded`, under `PassOnNotify`: no wake-up is lost. It needs the
  strengthening `WritersAwake` (a writer sleeps only while the lock is held):
  a reader may go back to sleep because a writer is waiting, and this says that
  one is awake.

`RadixTreeProofs`, from `PageSizeAssumption` and `PageAssumption`, are lemmas:
`match_prefix`, `_split_node`, `insert`, `inc_lock_ref`, `dec_lock_ref` and
`evict` keep a tree `Sound` for any set of lock holders. `WellFormed` says the
cached paths are closed under page-aligned prefixes and that `node` names the
first node at or below a path, so that a segment never branches; `Anchored` that
a lock ends at a node, without which a split would have to guess how many of its
child's locks reach the new parent; `Counted` and `Accounts` that `lock_ref` and
the incremental counters are exact.

The first part of `KVControlProofs`, from the assumptions of `RadixTree` and
`KVScheduler`, for every pool, page size, chunk size and set of requests:

- `LoopInvariant`: the inductive invariant `LoopInv == TypeOK /\ QueueShape`.
  `QueueShape` says what the depth of the result queue is in each part of the
  loop, from the kind of `last_batch` and of the batch being built.
- `LoopTypeCorrect`: each action keeps the loop's variables in range; every
  batch names requests, also in the pass that clears `chunked_req`.
- `QueueDepthBounded`: the assertion of `_reqs_finishing_inflight` never fails.

The rest of `KVControlProofs` and `KVMemoryProofs`, from the same assumptions and
for both loops. `KVInvariance` is `Spec => [](Control /\ Memory)`, with two lemmas for each
action; the parts and what they are needed for:

- `Control`. `Placed` says which phases, batches and lists a request can be in at
  each point of the iteration, and that the queue is `last_batch` and the batch
  just launched. `ResultsFollowed` says what the device has generated for a
  request that holds KV: its output, then the token of `last_batch` if it is due,
  then that of the new batch; likewise for middle chunks. A retracted request's
  old result is dropped because only the next extend clears `retracted`, in an
  iteration after the one that processes that result; a chunked request never has a token and a middle chunk due in the
  wrong order because its chunks are in consecutive batches.
- `Sizes`: protected, prefix, extended, committed and generated lengths are in
  order, and which of them are equal where. Without it a checkpoint could publish
  more than was written.
- `Budget`: a chunk that was cut leaves less than a page of the chunk budget, or
  no budget, so that no second request of the pass is cut and `chunked_req` is
  never overwritten.
- `NoneLost`: a request that holds KV is in the running batch, the chunked
  request, in a batch that will be merged, or waits for the one result that
  finishes it. It is what makes `FlushCache` and the end of an iteration safe:
  otherwise pages could be held by a request the loop has forgotten.
- `PoolsOK`: the tree is `Sound` for the locks of the requests; a row's first
  pages are the tree's under the request's lock and the others its own
  (`RowsOK`); own pages are apart from each other and the tree's (`Apart`); the
  free list is the rest, each page once (`FreeIs`); a cached page holds its
  path (`Keyed`). The parts lean on each other: a checkpoint frees the
  duplicates of what was cached meanwhile, which are the request's own pages
  only because contents tell apart the pages of one row (`OwnOnce`); an eviction
  leaves rows alone because they are under locks that are counted.

From it follow `PagesHaveOneOwner` (`SlotOwnership`), `ReuseReadsItsOwnText`
(`ContentRight`), `LocksAreCounted` (`LockRefExact`), `TreeBooksAgree`
(`AccountingExact`), `LockedPrefixStays` (`ProtectedPrefixResident`),
`TokensReachTheirOutput` (`OutputFollowsDevice`), `MiddleChunksAreCounted`
(`MiddleChunksExact`), `RunningRequestsHoldKV` (`BatchMembership`), and, with one
step of `Next`, the action property `LockedPathsStay` (`LockedPathStable`). A
failed allocation is a step like the others here: that the books are right does
not depend on admission being right.

`KVHeadroomProofs`, from the same assumptions, for both loops and every fraction
`new_token_ratio` may be. Its subject is a quantity: `Busy` are the pages of the
requests' rows and of the prefixes they have locked, `RoomOf` counts the others,
which are free or behind an eviction. Three facts carry the argument:

- `EvictRoom`: an eviction leaves what is in use alone, and frees what it was
  asked for or everything that is reclaimable. The second half is about the heap
  of `evict`: it refills with every parent whose last child has gone, so an
  eviction that ends short has left locked nodes only (`ShortEviction`).
- A checkpoint, a release and a result never shrink the room: a checkpoint
  exchanges the duplicates in the row for as many pages of the tree
  (`RoomCheckpointKey`). Only an admission and an allocation take from it.
- Admission reckons in tokens, allocation in pages: `total_offset` covers the
  pages of the requests added so far (`PassCharged`), because each is charged a
  page beyond its rounded length, and `ExtendDemand` covers the same pages
  (`DemandCovers`).

The inductive invariant is `Headroom`. Its center is `PromiseKept`: while an
extend batch is put together or launched or was the last one, or a prompt is in
chunks, the room is at least the pages the batch is still to be given
(`PagesToGive`), those of the part of the chunked prompt that no pass has added
yet (`ChunkRest`), and one page. The second term is why a chunk may be continued
when the budget is used up: its pages were charged when the request was admitted
with its whole prompt. `BatchServed` says that once the first request of a batch
has its pages the free list has those of the rest; `RowsFit`, that locked
requests have rows; `Clipped`, that prompt and output limit together are less
than the pool; `DecodingStays`, that a request of a decode batch that holds KV is
still in the running batch; `Squeezed`, what `retract_decode` finds when it runs.

- `HeadroomInvariant`: `Spec => []Headroom`, with one lemma per action on top of
  `Control /\ Memory`.
- `AllocationsSucceed` (`AllocationNeverFails`): alloc_for_extend and
  alloc_for_decode never raise, for every choice of the constants.
- `LastRequestAlwaysFits` (`LastRequestFits`): if the only running request did
  not get a page, nothing would be reclaimable. Then the last batch was no extend
  batch, since the one page of `PromiseKept` would be left; so nobody else
  holds KV (`OnlyRunningHold`), the request's row is the whole pool, and its text
  is as long as the pool, which `Clipped` and `Squeezed` exclude
  (`AloneIsShort`). Hence `AbortLast` is dead code in these configurations.

`FanOutProofs`, from `FanOutAssumption`, for any callers, modes and ranks:

- `Invariance`: `Inv` says what a call in each state has (`CallInv`); while
  answers can be trusted, that each rank's response to an open slot is under way
  or collected, exactly once (`SlotInv`); and while nobody was cancelled, that
  the head of the lock's queue is the call that waits (`LockInv`).
- `AnswersAreRouted` (`RepliesRouted`) and `SlotsAreWaitedFor` (`SlotWaitedFor`)
  follow.

`LoRAProofs`, from `LoRAAssumption`, `RequestsFit`, `PinsFit` and `PreloadedFits`:

- `Invariance`: `Good(Here, backend)`. The code between two suspensions composes
  functions on the tokenizer's state, so the invariant is one of such a state and
  every function has a lemma. `Registered`, `Owned` and `PendingApart` tie the
  registry, the pending unloads and the ranks together; `Updating` says what the
  update that holds `lora_update_lock` may rely on when it resumes; that there is
  always a victim for `MaxLoaded` rests on `PinsFit`.
- `RegistryMatchesRanks` (`RegisteredIsLoaded`), `RanksAreAccountedFor`
  (`NothingOrphaned`), `SingleIsFound` (`SingleNeverMissing`) follow without
  further conditions.
- `UsedAdaptersStay` (`UsedStaysLoaded`) and `CountersCountUsers`
  (`CountersExact`) hold if every list request names only pinned adapters that
  no administrator unloads (`Steady`); `LoRAList` shows that without it they do
  not. The run `LoRASingle` satisfies it.
- `Touch` of a list is a recursive function on its length, and what it keeps is
  proved by taking the least length at which it would fail (`WFMin`).

`PDTransferProofs`, from `RankAssumption` (a finite, nonempty set of ranks),
`ChunksAssumption` and `FaultsAssumption`:

- `Invariance`: the inductive invariant `Inv`, a conjunction of named parts, with
  one lemma per action. `ReleasedIsQuiet` needs all of them. That nobody writes
  after a release rests on what an acknowledgement says (`AckInv`); an
  acknowledgement is right because `outstanding` covers every chunk from dequeue
  to the end of the loop body and a poisoned room never answers (`DrainInv`),
  because no chunk is published to a rank after its room failed
  (`SchedulerInv`), and because no destination is known before the pages are
  reserved (`PublishInv`). That nobody writes after a commit rests on a Success
  being sent only after the last chunk (`SuccessInv`), which needs that nothing
  before it was skipped (`LandInv`).
- What an acknowledgement says is `Answered`: the rank has stopped, or its page
  indices were overtaken. That is as much as holds, since `PDReconnect` shows a
  rank of the second kind writing into released pages. `AbortInv` (one ABORT per
  rank, under way only while the rank has not answered) gives that no rank joins
  the second kind once the pages are released.
- `TypeCorrect`, `PagesAreQuiet`, `AckMeansStopped`, `ReportMeansLanded` follow;
  the second and the third name the exception.
- `Refinement`: `Spec => ImplementsHandoff`. `page` is read off the queue the
  request is in, and is "expired" for released pages when a rank's indices were
  overtaken: `DrainedRelease` is then an `Expire`. `writers` are the workers in a write and the lingering sends,
  `full` the ranks with `landed = NumChunks`. Every action is a step of
  `KVHandoff` or leaves the three unchanged; `StartWrite`, the end of a write,
  `PopPreallocated`, `CommitTransfer`, the two releases and `Crash` are the ones
  that are steps.

Only model-checked, not proved:

- Liveness, and everything else under fairness or about `ENABLED`, which this
  prover does not do.
- The five violations, where TLC shows the counterexamples. Two properties of
  `LoRAAdapters` are proved under `Steady`, the condition `LoRAList` shows is
  needed.

Every invariant and every action property that a passing run checks is also the
statement of a theorem.

The library's induction theorems take an operator as a parameter, which the
installed backends cannot instantiate; where an induction is needed it is
written as the absence of a least counterexample.

No definition that a proof expands uses `CASE` with `OTHER`: tlapm 1.4.5 takes
two such expressions with the same first arm for equal before it calls a prover.

## 6. Findings

Five runs violate what the repository says of itself; `PROJECT.json` quotes the
lines.

- `RWLockStranded`: `notify_all` wakes a waiting writer. Before it is resumed a
  reader arrives, sees `_waiting_writers > 0` and goes to sleep; then the writer
  is cancelled. Before Python 3.13 nobody wakes the reader, and the lock is free.
  `NobodyStranded` proves that with the condition variable of Python 3.13, which
  hands a cancelled wake-up on, nobody is stranded.
- `FanOutLateReply`: a queueing call is cancelled while it waits. Its responses
  arrive after the next call has opened its slot and are returned as that call's
  answers.
- `LoRAList`: a request with a list of adapters looks the ids up; before its
  increments run, an unload finds the counter at zero and is sent to the ranks.
- `PDReconnect`: the heartbeat gives the prefill node up although it lives, and
  closes the sockets with page indices under way. The ABORT takes a new
  connection and reaches a rank that does not know the room, which acknowledges
  at once; all ranks having answered, decode releases the pages. Then the indices
  arrive and open the room, the prefill request comes, and the worker writes into
  pages that may be somebody else's.
- `PDReleaseHCU`: on HCU with pipeline parallelism, a decode stage that is told a
  request failed elsewhere, and has not failed itself, sends ABORT and gives its
  pages back in the same step, while a prefill rank writes them. The road without
  HCU holds them until every rank has answered.

Two more things `PDTransferHCU` reaches without a fault, which have no run of
their own: an abort of the user registers the room a second time after the ABORT
went out, so that the acknowledgements carry a generation that is no longer the
armed one and the pages wait for the deadline (`decode.py:3333`); and a stage
that holds a request has already forgotten its receiver, which
`resolve_deferred_releases` then reads (`decode.py:3271`; `raised`).

## 7. What is not modelled, and the plan

In this order, the most important behaviour first:

1. `PrefixCache`, an abstract specification of what the cache promises (a map
   from texts to KV with pins), with `KVScheduler` as its refinement.
2. The allocators of their own: free lists, free groups and the sorting of the
   paged allocator.
3. Priority preemption and mixed chunks in `KVScheduler`; the normal loop's
   disabled overlap for single batches.
4. HiCache: write-back, load-back and prefetch as asynchronous operations on a
   second tier, under the same ownership property.
5. Around `PDTransfer`: the reuse of a room and the re-bootstrap of a retracted
   request, staging buffers, the consensus store of pipeline ranks, role
   switching, and the other transfer backends against the same `KVHandoff`.
6. Sessions, the data-parallel controller, prefill delayers, the input blocker.
7. The gateway's circuit breaker, job queue and worker registry.
8. Cancellation of a request in `LoRAAdapters`, composed with
   `FanOutCommunicator`, whose slots its late answers would go through.
9. Proofs: `KVScheduler` as a refinement of `PrefixCache` once that is written.

Out of reach of the approach: device kernels and model numerics (the model sees
them as the writer of KV and the source of sampled tokens), tokenization and
text formatting, HTTP, metrics and logging. They are most of the repository:
`models`, `layers` and `kernels` alone are more than half of its 1.7 million
lines and keep no state that a property here could be about. What could
still be modelled is in the plan above; the largest parts are the cache tiers of
`mem_cache` and the gateway.
