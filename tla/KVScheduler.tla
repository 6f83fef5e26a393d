---------------------------- MODULE KVScheduler ----------------------------
(***************************************************************************)
(* The scheduler loop of managers/scheduler.py (event_loop_normal and      *)
(* event_loop_overlap) and the life of a request's KV cache in it: prefix  *)
(* match and lock at admission, chunked prefill, page allocation with      *)
(* eviction, decode, retraction, abort, checkpoint into the radix tree and *)
(* release.                                                                *)
(*                                                                         *)
(* The loop is one thread.  pc names the part of the iteration that runs;  *)
(* within a part the requests of a batch are taken one per step, in any    *)
(* order.  The device runs the launched batches in launch order, so a      *)
(* batch's KV writes are modelled at its launch; what the loop learns only *)
(* later, when it processes the batch's result, is the sampled token.      *)
(***************************************************************************)
EXTENDS RadixTree, FiniteSetsExt

CONSTANTS
  Req,           \* request objects
  NoReq,         \* "no request" (None)
  Prompts,       \* the prompts clients send
  Sampled,       \* the tokens the model may sample
  MaxNewTokens,  \* sampling_params.max_new_tokens as the clients ask for it
  InputMargin,   \* tokens of the pool no prompt may fill (5 in tp_worker.py)
  ClipMaxNew,    \* CLIP_MAX_NEW_TOKENS, the cap of the admission estimate
  ChunkSize,     \* chunked_prefill_size
  MaxRunning,    \* pp_max_micro_batch_size, the cap of the running batch
  ReqRows,       \* rows of req_to_token_pool
  RetractSteps,  \* SGLANG_RETRACT_DECODE_STEPS
  Overlap,       \* TRUE: event_loop_overlap, FALSE: event_loop_normal
  Reuse          \* TRUE: a finished request object's id is used again

ASSUME ReqAssumption == IsFiniteSet(Req) /\ NoReq \notin Req
ASSUME PromptsAssumption ==
  /\ Sampled \subseteq Token
  /\ Prompts \subseteq Key \ {<< >>}
  /\ \A p \in Prompts : Len(p) < PageSize * Cardinality(Page) - 1 - InputMargin
ASSUME BoundsAssumption ==
  /\ MaxNewTokens \in Nat \ {0}
  /\ InputMargin \in Nat
  /\ ClipMaxNew \in Nat
  /\ ChunkSize \in Nat \ {0}
  /\ MaxRunning \in Nat \ {0}
  /\ ReqRows \in Nat \ {0}
  /\ RetractSteps \in Nat
ASSUME FlagsAssumption == Overlap \in BOOLEAN /\ Reuse \in BOOLEAN

VARIABLES
  tree,        \* tree_cache
  free,        \* how often each page is on the allocator's free list
  content,     \* page -> the token path whose KV the device last wrote there
  req,         \* per-request state, ReqKvInfo included
  pc,          \* part of the loop iteration
  todo,        \* requests of the current batch still to be handled
  running,     \* running_batch.reqs
  full,        \* running_batch.batch_is_full
  chunked,     \* chunked_req
  abort_chunk, \* _pending_chunked_abort_req is chunked_req
  rem_chunk,   \* PrefillAdder.rem_chunk_tokens of this pass
  offset,      \* PrefillBudget.total_offset of this pass
  batch,       \* the batch being built and launched
  last_batch,  \* last_batch
  queue        \* result_queue

treeVars  == <<tree, free, content>>
passVars  == <<rem_chunk, offset>>
batchVars == <<batch, last_batch, queue>>
loopVars  == <<running, full, chunked, abort_chunk>>
vars == <<tree, free, content, req, pc, todo, running, full, chunked,
          abort_chunk, rem_chunk, offset, batch, last_batch, queue>>

-----------------------------------------------------------------------------
(* Requests, batches, pages *)

Capacity == PageSize * Cardinality(Page)

PagedTokens(n) == CeilPages(n) * PageSize

\* Mutant: the client's number is taken as it is.
MaxNewUnclipped(p) == MaxNewTokens

\* init_req_max_new_tokens: the output is clipped to what an empty pool holds.
MaxNew(p) ==
  Max({0, Min({MaxNewTokens, (Capacity - 1) - Len(p) - 1,
               Capacity - PagedTokens(Len(p)) - PageSize - 1})})

NewReq(p) ==
  [phase |-> "waiting", prompt |-> p, max_new |-> MaxNew(p), out |-> << >>, dev |-> << >>,
   row |-> << >>, protected |-> 0, prefix |-> 0, extend_end |-> 0,
   committed |-> 0, lock |-> Root, middle |-> 0,
   retracted |-> FALSE, to_finish |-> FALSE]

IdleReq == [NewReq(<< >>) EXCEPT !.phase = "idle", !.max_new = 0]

\* full_untruncated_fill_ids
Fill(r) == req[r].prompt \o req[r].out

HoldsKV(r) == req[r].phase = "running"

NoTokens == [r \in {} |-> r]

NoBatch == [kind |-> "none", tok |-> NoTokens, chunked |-> NoReq]

ReqsOf(b) == DOMAIN b.tok

Finished(r) == req[r].phase = "finished"

Waiting == {r \in Req : req[r].phase = "waiting"}

\* Requests some batch of the loop still refers to.
Referenced ==
  running \cup ReqsOf(batch) \cup ReqsOf(last_batch) \cup todo
    \cup UNION {ReqsOf(queue[i]) : i \in 1 .. Len(queue)}

FreePages(f) == {p \in Page : f[p] > 0}

AvailableSize(f) == PageSize * Cardinality(FreePages(f))

\* Append the pages of S to the free list; the token allocator does not check
\* whether a page is on it already.
Release(f, S) == [p \in Page |-> IF p \in S THEN f[p] + 1 ELSE f[p]]

Take(f, S) == [p \in Page |-> IF p \in S THEN f[p] - 1 ELSE f[p]]

\* The KV in a page that was given back is lost to everyone.
Scrub(c, S) == [p \in Page |-> IF p \in S THEN << >> ELSE c[p]]

\* n different pages off the free list; it makes no difference which.
AllocPages(f, n) == CHOOSE s \in Injection(1 .. n, FreePages(f)) : TRUE

-----------------------------------------------------------------------------
(* Evicting, checkpointing and releasing *)

\* The outcomes of evict_to_free_tokens(num_tokens) from tree t and list f.
Evictions(t, f, num_tokens) ==
  {[tree |-> DeleteNodes(t, E), free |-> Release(f, PagesIn(t, E)),
    gone |-> PagesIn(t, E)] :
     E \in EvictableSets(t, num_tokens - AvailableSize(f))}

\* k[:n]
Truncated(k, n) == IF n <= Len(k) THEN Prefix(k, n) ELSE k

PrivatePages(row, protected) ==
  {row[i] : i \in (protected \div PageSize) + 1 .. Len(row)}

\* insert of key, and of the prompt inside it so that a node ends there, then
\* the second match.
Publish(t, q, key) ==
  LET prompt == PageAligned(q.prompt)
      t1     == Insert(t, key, q.row)
  IN MatchPrefix(IF Len(prompt) \in 1 .. Len(key) - 1 THEN Insert(t1, prompt, q.row)
                 ELSE t1, key)

\* Mutant: the duplicates are not freed.
AdoptLeaksDuplicates(t, q, key, matched) ==
  [tree |-> IncLockRef(DecLockRef(t, q.lock), key),
   dup |-> {},
   own |-> {},
   req |-> [q EXCEPT
              !.row = [i \in DOMAIN q.row |->
                         IF i \in (q.protected \div PageSize) + 1 .. Len(key) \div PageSize
                         THEN t.value[Prefix(key, i * PageSize)] ELSE q.row[i]],
              !.protected = Len(key),
              !.lock = key]]

\* Mutant: the row keeps the pages that were freed as duplicates.
AdoptKeepsRow(t, q, key, matched) ==
  [tree |-> IncLockRef(DecLockRef(t, q.lock), key),
   dup |-> {q.row[i] : i \in (q.protected \div PageSize) + 1 .. matched \div PageSize},
   own |-> {},
   req |-> [q EXCEPT !.protected = Len(key), !.lock = key]]

\* The pages of the key the request did not get from the tree: those that were
\* cached before are duplicates and are freed; the row adopts the tree's pages
\* (t, the tree after the insert); the lock moves to the end of the key.
Adopt(t, q, key, matched) ==
  [tree |-> IncLockRef(DecLockRef(t, q.lock), key),
   dup |-> {q.row[i] : i \in (q.protected \div PageSize) + 1 .. matched \div PageSize},
   own |-> {},
   req |-> [q EXCEPT
              !.row = [i \in DOMAIN q.row |->
                         IF i \in (q.protected \div PageSize) + 1 .. Len(key) \div PageSize
                         THEN t.value[Prefix(key, i * PageSize)] ELSE q.row[i]],
              !.protected = Len(key),
              !.lock = key]]

CheckpointKey(t, q, key) == Adopt(Publish(t, q, key), q, key, Len(LongestMatch(t, key)))

\* RadixCache.checkpoint of the first up_to tokens of request record q.
Checkpoint(t, q, up_to) == CheckpointKey(t, q, PageAligned(Truncated(q.prompt \o q.out, up_to)))

\* owned_kv_len: a stop cuts the KV the request may publish.
OwnedKvLen(q) ==
  IF q.to_finish \/ q.committed <= Len(q.prompt) + Len(q.out) THEN q.committed
  ELSE Len(q.prompt) + Len(q.out)

\* Mutant: the whole row is freed, the pages of the tree included.
FreeWholeRow(c) ==
  [tree |-> DecLockRef(c.tree, c.req.lock),
   dup |-> c.dup,
   own |-> PrivatePages(c.req.row, 0),
   req |-> [c.req EXCEPT !.row = << >>, !.lock = Root, !.protected = 0]]

\* Mutant: the lock is not dropped.
FreeRowKeepsLock(c) ==
  [tree |-> c.tree,
   dup |-> c.dup,
   own |-> PrivatePages(c.req.row, c.req.protected),
   req |-> [c.req EXCEPT !.row = << >>, !.lock = Root, !.protected = 0]]

\* free_kv_row and unlock: the request's own pages are freed, the lock is
\* dropped and the row is given back.
FreeRow(c) ==
  [tree |-> DecLockRef(c.tree, c.req.lock),
   dup |-> c.dup,
   own |-> PrivatePages(c.req.row, c.req.protected),
   req |-> [c.req EXCEPT !.row = << >>, !.lock = Root, !.protected = 0]]

\* release_kv_cache, publishing what the request owns or not.
ReleaseKV(t, q, checkpoint) ==
  FreeRow(IF checkpoint THEN Checkpoint(t, q, OwnedKvLen(q))
          ELSE [tree |-> t, dup |-> {}, own |-> {}, req |-> q])

\* reset_for_retract, with the phase the request goes to.
ResetForRetract(q, phase) ==
  [q EXCEPT !.phase = phase, !.protected = 0, !.prefix = 0, !.extend_end = 0,
            !.committed = 0, !.retracted = TRUE, !.middle = 0, !.dev = << >>]

\* Of a finished request, a result still in flight reads only these fields.
Finish(q) == [IdleReq EXCEPT !.phase = "finished", !.middle = q.middle,
                             !.retracted = q.retracted]

\* The effect of checkpoint or release c on the pools; q is what becomes of
\* request r.
Effect(r, c, q) ==
  /\ tree' = c.tree
  /\ free' = Release(Release(free, c.dup), c.own)
  /\ content' = Scrub(content, c.dup \cup c.own)
  /\ req' = [req EXCEPT ![r] = q]

\* prefix_len = extend_end once a checkpoint is made.
Resume(q) == [q EXCEPT !.prefix = q.extend_end]

-----------------------------------------------------------------------------
(* Receiving: requests arrive, are aborted, or the cache is flushed *)

Init ==
  /\ tree = EmptyTree
  /\ free = [p \in Page |-> 1]
  /\ content = [p \in Page |-> << >>]
  /\ req = [r \in Req |-> IdleReq]
  /\ pc = "recv"
  /\ todo = {}
  /\ running = {}
  /\ full = FALSE
  /\ chunked = NoReq
  /\ abort_chunk = FALSE
  /\ rem_chunk = 0
  /\ offset = 0
  /\ batch = NoBatch
  /\ last_batch = NoBatch
  /\ queue = << >>

Arrive(r) ==
  /\ pc = "recv"
  /\ \/ req[r].phase = "idle"
     \/ Reuse /\ Finished(r) /\ r \notin Referenced
  /\ \E p \in Prompts : req' = [req EXCEPT ![r] = NewReq(p)]
  /\ UNCHANGED <<treeVars, pc, todo, loopVars, passVars, batchVars>>

\* abort_request of a queued request: it holds no KV and is dropped.
AbortWaiting(r) ==
  /\ pc = "recv"
  /\ r \in Waiting
  /\ req' = [req EXCEPT ![r] = Finish(@)]
  /\ UNCHANGED <<treeVars, pc, todo, loopVars, passVars, batchVars>>

\* abort_request of a request in flight: it is marked, and torn down when its
\* next result is processed, or, while it is chunked, when the next scheduling
\* pass begins.
AbortInflight(r) ==
  /\ pc = "recv"
  /\ \/ r = chunked
     \/ r \in running \cup ReqsOf(last_batch) /\ HoldsKV(r)
  /\ ~req[r].to_finish
  /\ req' = [req EXCEPT ![r].to_finish = TRUE]
  /\ abort_chunk' = (abort_chunk \/ r = chunked)
  /\ UNCHANGED <<treeVars, pc, todo, running, full, chunked, passVars, batchVars>>

FullyIdle ==
  /\ running = {}
  /\ chunked = NoReq
  /\ ReqsOf(last_batch) = {}
  /\ queue = << >>
  /\ Waiting = {}

\* flush_cache: both pools are rebuilt empty.
FlushCache ==
  /\ pc = "recv"
  /\ FullyIdle
  /\ tree # EmptyTree
  /\ tree' = EmptyTree
  /\ free' = [p \in Page |-> 1]
  /\ content' = [p \in Page |-> << >>]
  /\ last_batch' = NoBatch
  /\ UNCHANGED <<req, pc, todo, loopVars, passVars, batch, queue>>

-----------------------------------------------------------------------------
(* get_next_batch_to_run, first part *)

NextOutputFinishesByLength(r) == Len(req[r].out) + 1 >= req[r].max_new

\* Merge last_batch into the running batch: not the chunked request, not a
\* request whose pending result is known to be its last.
Merged(rq, ch) ==
  LET excluded == {ch, last_batch.chunked} \cup
        {r \in ReqsOf(last_batch) : /\ Overlap
                                    /\ rq[r].middle <= 0
                                    /\ NextOutputFinishesByLength(r)}
      joined == IF last_batch.kind = "extend"
                THEN running \cup (ReqsOf(last_batch) \ excluded)
                ELSE running
  IN {r \in joined : rq[r].phase # "finished"}

MaxNewEstimate(n) == IF n < ClipMaxNew THEN n ELSE ClipMaxNew

\* What the running requests may still decode; new_token_ratio, a heuristic
\* between 0 and 1, sets aside a fraction of it.
RunningReserve(rq, S) ==
  MapThenSumSet(LAMBDA r : MaxNewEstimate(rq[r].max_new - Len(rq[r].out)), S)

\* Mutant: a request that leaves does not clear batch_is_full.
BeginPassStaysFull(rq, ch) ==
  \E new \in {Merged(rq, ch)} :
    /\ running' = new
    /\ full' = full
    /\ pc' = "admit"
    /\ rem_chunk' = ChunkSize
    /\ offset' \in 0 .. RunningReserve(rq, new)
    /\ UNCHANGED <<todo, batchVars>>

\* The rest of the merge, and a new PrefillAdder.
BeginPass(rq, ch) ==
  \E new \in {Merged(rq, ch)} :
    /\ running' = new
    /\ full' = /\ full
               /\ running # {}
               /\ running \subseteq new
               /\ last_batch.kind = "extend" => ReqsOf(last_batch) \subseteq new
    /\ pc' = "admit"
    /\ rem_chunk' = ChunkSize
    /\ offset' \in 0 .. RunningReserve(rq, new)
    /\ UNCHANGED <<todo, batchVars>>

\* No chunked request.
Schedule ==
  /\ pc = "recv"
  /\ chunked = NoReq
  /\ BeginPass(req, NoReq)
  /\ UNCHANGED <<treeVars, req, chunked, abort_chunk>>

\* stash_chunked_request: publish the chunk that was launched last.
StashChunk ==
  /\ pc = "recv"
  /\ chunked # NoReq
  /\ ~abort_chunk
  /\ LET q == req[chunked]
         c == Checkpoint(tree, q, q.extend_end)
     IN IF q.extend_end > q.prefix
        THEN Effect(chunked, c, Resume(c.req))
        ELSE UNCHANGED <<treeVars, req>>
  /\ BeginPass(req', chunked)
  /\ UNCHANGED <<chunked, abort_chunk>>

\* Mutant: chunked_req still names the request that was torn down.
AbortChunkForgets ==
  /\ pc = "recv"
  /\ chunked # NoReq
  /\ abort_chunk
  /\ Effect(chunked, ReleaseKV(tree, req[chunked], FALSE), Finish(req[chunked]))
  /\ chunked' = chunked
  /\ abort_chunk' = FALSE
  /\ BeginPass(req', NoReq)

\* process_pending_chunked_abort: the chunk already launched is drained later.
AbortChunk ==
  /\ pc = "recv"
  /\ chunked # NoReq
  /\ abort_chunk
  /\ Effect(chunked, ReleaseKV(tree, req[chunked], FALSE), Finish(req[chunked]))
  /\ chunked' = NoReq
  /\ abort_chunk' = FALSE
  /\ BeginPass(req', NoReq)

-----------------------------------------------------------------------------
(* get_new_batch_prefill: the admission pass *)

\* rem_total_tokens with tree t and offset o.
RemTotal(t, o) == AvailableSize(free) + t.evictable_size - o

\* Mutant: what joins the batch is chunked_req after the call, None at the
\* last chunk.
AddChunkedReqAfter ==
  /\ pc = "admit"
  /\ chunked \notin todo \cup {NoReq}
  /\ LET q    == req[chunked]
         left == Len(Fill(chunked)) - q.prefix
         new  == Min({left, rem_chunk})
     IN /\ req' = [req EXCEPT ![chunked].extend_end = q.prefix + new]
        /\ rem_chunk' = rem_chunk - PagedTokens(new)
        /\ offset' = offset + PagedTokens(new) + PageSize
        /\ chunked' = IF left <= rem_chunk THEN NoReq ELSE chunked
        /\ todo' = todo \cup {chunked'}
        /\ batch' = [batch EXCEPT !.chunked = chunked']
  /\ UNCHANGED <<treeVars, pc, running, full, abort_chunk, last_batch, queue>>

\* The request that is being chunked continues first.  Its last chunk clears
\* chunked_req; a request short of memory still advances by a full chunk.
AddChunkedReq ==
  /\ pc = "admit"
  /\ chunked \notin todo \cup {NoReq}
  /\ LET q    == req[chunked]
         left == Len(Fill(chunked)) - q.prefix
         room == RemTotal(tree, offset)
         rem  == IF room <= 0 THEN rem_chunk ELSE Min({rem_chunk, room})
         new  == Min({left, rem})
     IN /\ req' = [req EXCEPT ![chunked].extend_end = q.prefix + new]
        /\ todo' = todo \cup {chunked}
        /\ rem_chunk' = rem_chunk - PagedTokens(new)
        /\ offset' = offset + PagedTokens(new) + PageSize
                       + (IF left <= rem THEN MaxNewEstimate(q.max_new) ELSE 0)
        /\ chunked' = IF left <= rem THEN NoReq ELSE chunked
        /\ batch' = [batch EXCEPT !.chunked = chunked']
  /\ UNCHANGED <<treeVars, pc, running, full, abort_chunk, last_batch, queue>>

\* Mutant: only the size of the running batch counts.
NumAllocatableReqsByBatch == MaxRunning - Cardinality(running)

\* A request that finished by length under overlap has left the running batch
\* but holds its row until its result is processed.
NumAllocatableReqs ==
  Min({MaxRunning - Cardinality(running),
       ReqRows - Cardinality({r \in Req \ todo : HoldsKV(r)})})

\* budget_state is OTHER: the chunk budget is spent, and not the memory.
ChunkSpent == rem_chunk <= 0 /\ RemTotal(tree, offset) > 0

\* A pass can take another waiting request.
PassOpen ==
  /\ pc = "admit"
  /\ chunked \in todo \cup {NoReq}
  /\ ~full
  /\ ~ChunkSpent
  /\ Cardinality(todo) < NumAllocatableReqs

\* init_next_round_input: match all but the last token.
MatchedPrefix(r) == LongestMatch(tree, PageAligned(Prefix(Fill(r), Len(Fill(r)) - 1)))

\* _check_prefill_budget under the temporary pin of the matched node.
FitsBudget(t, r, m) ==
  (Len(Fill(r)) - Len(m)) + MaxNewEstimate(req[r].max_new - Len(req[r].out)) + PageSize
    < RemTotal(t, offset)

\* The extend length _select_prefill_admission settles on; 0 rejects.
ExtendLen(r, m) ==
  LET all == Len(Fill(r)) - Len(m)
  IN IF PagedTokens(all) <= rem_chunk THEN all ELSE AlignDown(rem_chunk)

EndPass(added) ==
  /\ pc' = IF added = {} THEN "decode" ELSE "extend"
  /\ rem_chunk' = 0
  /\ offset' = 0

\* add_one_req and _commit_prefill_admission of a candidate whose prefix m is
\* pinned in t.  When the memory is used up the batch is full.
Admitted(r, m, t) ==
  LET n   == ExtendLen(r, m)
      cut == n < Len(Fill(r)) - Len(m)
  IN /\ FitsBudget(t, r, m)
     /\ n > 0
     /\ tree' = t
     /\ req' = [req EXCEPT ![r] =
                  [@ EXCEPT !.phase = "admitted", !.prefix = Len(m),
                            !.protected = Len(m), !.lock = m,
                            !.extend_end = Len(m) + n]]
     /\ rem_chunk' = rem_chunk - PagedTokens(n)
     /\ offset' = offset + PagedTokens(n) + PageSize
                    + (IF cut THEN 0 ELSE MaxNewEstimate(req[r].max_new))
     /\ full' = (RemTotal(t, offset') <= 0)
     /\ chunked' = IF cut THEN r ELSE chunked
     /\ batch' = [batch EXCEPT !.chunked = chunked']
     /\ todo' = todo \cup {r}
     /\ UNCHANGED <<free, content, pc, running, abort_chunk, last_batch, queue>>

Pinned(m) == IncLockRef(SplitNode(tree, m), m)

Admit(r) ==
  /\ PassOpen
  /\ r \in Waiting
  /\ \E m \in {MatchedPrefix(r)} : Admitted(r, m, Pinned(m))

\* The candidate does not fit: its match has still split the tree, and the
\* pass ends.
Reject(r) ==
  /\ PassOpen
  /\ r \in Waiting
  /\ \E m \in {MatchedPrefix(r)} :
       LET noToken == ~FitsBudget(Pinned(m), r, m)
       IN /\ noToken \/ ExtendLen(r, m) <= 0
          /\ tree' = SplitNode(tree, m)
          /\ req' = [req EXCEPT ![r].prefix = Len(m), ![r].protected = Len(m)]
          /\ full' = (noToken /\ (todo # {} \/ running # {}))
  /\ EndPass(todo)
  /\ UNCHANGED <<free, content, todo, running, chunked, abort_chunk, batchVars>>

\* Nobody is left to try, or the pass is out of budget or rows.
ClosePass ==
  /\ pc = "admit"
  /\ chunked \in todo \cup {NoReq}
  /\ ~PassOpen \/ Waiting = {}
  /\ full' = \/ full
             \/ /\ Waiting # {}
                /\ ~ChunkSpent
                /\ Cardinality(todo) >= NumAllocatableReqs
  /\ EndPass(todo)
  /\ UNCHANGED <<treeVars, req, todo, running, chunked, abort_chunk, batchVars>>

-----------------------------------------------------------------------------
(* prepare_for_extend, prepare_for_decode and run_batch *)

\* Mutant: a result is only taken after a prefill.
PopsPrefill(q) == q # << >> /\ (~Overlap \/ last_batch.kind = "extend")

\* Whether this iteration processes a result: the previous batch's under
\* overlap, this batch's otherwise.
Pops(q) == q # << >> /\ (~Overlap \/ last_batch.kind # "none")

ToProcess(q) == IF Pops(q) THEN ReqsOf(Head(q)) ELSE {}

\* Add r with its token to the batch; the last request launches it.
AddToBatch(kind, r, tok) ==
  LET b == [batch EXCEPT !.kind = kind,
                         !.tok = [x \in ReqsOf(batch) \cup {r} |->
                                    IF x = r THEN tok ELSE batch.tok[x]]]
  IN /\ batch' = b
     /\ IF todo = {r}
        THEN /\ queue' = Append(queue, b)
             /\ todo' = ToProcess(queue')
             /\ pc' = "process"
        ELSE /\ todo' = todo \ {r}
             /\ UNCHANGED <<queue, pc>>

\* The device writes the KV of tokens from+1 .. to of path dev into row.
Write(c, row, dev, from, to) ==
  [p \in Page |->
     IF \E i \in (from \div PageSize) + 1 .. CeilPages(to) : row[i] = p
     THEN LET i == CHOOSE j \in (from \div PageSize) + 1 .. CeilPages(to) : row[j] = p
          IN Prefix(dev, IF i * PageSize <= to THEN i * PageSize ELSE to)
     ELSE c[p]]

\* The allocator has too few pages, or the request pool too few rows:
\* alloc_for_extend and alloc_for_decode raise and the scheduler dies.
Crash ==
  /\ pc' = "crashed"
  /\ UNCHANGED <<req, content, todo, loopVars, passVars, batchVars>>

\* The tokens the requests of S are extended by, each as a request and a position.
ExtendTokens(S) == UNION {{r} \X (req[r].prefix + 1 .. req[r].extend_end) : r \in S}

\* The demand the batch evicts for, before the pages of its first request are
\* taken: with pages, one more per request.
ExtendDemand ==
  IF ReqsOf(batch) # {} THEN 0
  ELSE Cardinality(ExtendTokens(todo))
         + (IF PageSize = 1 THEN 0 ELSE PageSize * Cardinality(todo))

DecodeDemand == IF ReqsOf(batch) # {} THEN 0 ELSE PageSize * Cardinality(todo)

\* alloc_for_extend and the forward of one request of an extend batch.
Extend(r) ==
  /\ pc = "extend"
  /\ r \in todo
  /\ LET q    == req[r]
         need == CeilPages(q.extend_end) - CeilPages(q.prefix)
         held == IF HoldsKV(r) THEN q.row
                 ELSE [i \in 1 .. q.prefix \div PageSize |->
                         tree.value[Prefix(Fill(r), i * PageSize)]]
     IN \E e \in Evictions(tree, free, ExtendDemand) :
          /\ tree' = e.tree
          /\ IF \/ need > Cardinality(FreePages(e.free))
                \/ Cardinality({x \in Req : HoldsKV(x)} \cup {r}) > ReqRows
             THEN free' = e.free /\ Crash
             ELSE \E new \in {AllocPages(e.free, need)}, tok \in Sampled :
                    LET row == held \o new
                        cut == r = chunked
                    IN /\ free' = Take(e.free, {new[i] : i \in 1 .. need})
                       /\ content' = Write(Scrub(content, e.gone), row, Fill(r),
                                           q.prefix, q.extend_end)
                       /\ req' = [req EXCEPT ![r] =
                            [@ EXCEPT !.phase = "running", !.row = row,
                                      !.committed = q.extend_end,
                                      !.retracted = FALSE,
                                      !.middle = IF cut THEN q.middle + 1 ELSE q.middle,
                                      !.dev = IF cut THEN Fill(r)
                                              ELSE Append(Fill(r), tok)]]
                       /\ AddToBatch("extend", r, tok)
                       /\ UNCHANGED <<loopVars, passVars, last_batch>>

\* Mutant: one token, not one page, for each request.
DecodeNeedTokens(S) == Cardinality({r \in S : req[r].committed % PageSize = 0})

\* new_tokens_required_next_decode
DecodeNeed(S) == PageSize * Cardinality({r \in S : req[r].committed % PageSize = 0})

\* _reqs_finishing_inflight: the queued result commits their last output.
FinishingInflight ==
  IF Overlap /\ queue # << >>
  THEN {r \in running : r \in ReqsOf(Head(queue)) /\ NextOutputFinishesByLength(r)}
  ELSE {}

NoBatchToRun ==
  /\ pc' = "process"
  /\ todo' = ToProcess(queue)

\* update_running_batch up to the memory check.
UpdateRunningBatch ==
  /\ pc = "decode"
  /\ LET run == running \ FinishingInflight
     IN /\ running' = run
        /\ IF run = {}
           THEN /\ NoBatchToRun
                /\ full' = (full /\ running = {})
                /\ UNCHANGED treeVars
           ELSE \E e \in Evictions(tree, free, DecodeNeed(run)) :
                  /\ tree' = e.tree
                  /\ free' = e.free
                  /\ content' = Scrub(content, e.gone)
                  /\ \/ /\ AvailableSize(e.free) >= DecodeNeed(run)
                        /\ pc' = "alloc_decode"
                        /\ todo' = run
                        /\ full' = (full /\ run = running)
                     \/ /\ AvailableSize(e.free) < DecodeNeed(run)
                        /\ FinishingInflight # {}
                        /\ NoBatchToRun
                        /\ full' = FALSE
                     \/ /\ AvailableSize(e.free) < DecodeNeed(run)
                        /\ FinishingInflight = {}
                        /\ pc' = "retract"
                        /\ todo' = {}
                        /\ full' = full
  /\ UNCHANGED <<req, chunked, abort_chunk, passVars, batchVars>>

\* One round of retract_decode: release a request without publishing its KV,
\* evict for the ones that stay, and check again.
RetractOne(r) ==
  /\ LET rest == running \ {r}
     IN \E rel \in {ReleaseKV(tree, req[r], FALSE)} :
        \E e1 \in Evictions(rel.tree, Release(free, rel.own),
                            Cardinality(rest) * RetractSteps) :
        \E e2 \in Evictions(e1.tree, e1.free, DecodeNeed(rest)) :
          /\ tree' = e2.tree
          /\ free' = e2.free
          /\ content' = Scrub(content, rel.own \cup e1.gone \cup e2.gone)
          /\ req' = [req EXCEPT ![r] = ResetForRetract(rel.req, "waiting")]
          /\ running' = rest
          /\ full' = FALSE
          /\ IF AvailableSize(e2.free) >= DecodeNeed(rest)
             THEN pc' = "alloc_decode" /\ todo' = rest
             ELSE UNCHANGED <<pc, todo>>
  /\ UNCHANGED <<chunked, abort_chunk, passVars, batchVars>>

\* Even the last request does not fit: it is aborted.
AbortLast(r) ==
  /\ Effect(r, ReleaseKV(tree, req[r], FALSE),
            Finish(ResetForRetract(req[r], "finished")))
  /\ running' = {}
  /\ full' = FALSE
  /\ NoBatchToRun
  /\ UNCHANGED <<chunked, abort_chunk, passVars, batchVars>>

Retract(r) ==
  /\ pc = "retract"
  /\ r \in running
  /\ IF running # {r} THEN RetractOne(r) ELSE AbortLast(r)

\* alloc_for_decode and the forward of one request of a decode batch.
Decode(r) ==
  /\ pc = "alloc_decode"
  /\ r \in todo
  /\ LET q    == req[r]
         need == IF q.committed % PageSize = 0 THEN 1 ELSE 0
     IN \E e \in Evictions(tree, free, DecodeDemand) :
          /\ tree' = e.tree
          /\ IF need > Cardinality(FreePages(e.free))
             THEN free' = e.free /\ Crash
             ELSE \E new \in {AllocPages(e.free, need)}, tok \in Sampled :
                    LET row == q.row \o new
                    IN /\ free' = Take(e.free, {new[i] : i \in 1 .. need})
                       /\ content' = Write(Scrub(content, e.gone), row, q.dev,
                                           q.committed, q.committed + 1)
                       /\ req' = [req EXCEPT ![r] =
                            [@ EXCEPT !.row = row,
                                      !.committed = q.committed + 1,
                                      !.dev = Append(q.dev, tok)]]
                       /\ AddToBatch("decode", r, tok)
                       /\ UNCHANGED <<loopVars, passVars, last_batch>>

-----------------------------------------------------------------------------
(* process_batch_result *)

\* update_finish_state after a token was appended: an abort, the length limit,
\* or a stop token or string, which may match at any token.
FinishedAfter(q, stop) == q.to_finish \/ stop \/ Len(q.out) >= q.max_new

\* A request whose prefill is complete, or that decodes, gets its token.
Commit(r, kind) ==
  \E stop \in BOOLEAN :
    LET q == [req[r] EXCEPT !.out = Append(@, Head(queue).tok[r])]
        c == Checkpoint(tree, q, q.extend_end)
    IN IF FinishedAfter(q, stop)
       THEN Effect(r, ReleaseKV(tree, q, TRUE), Finish(q))
       ELSE IF kind = "extend"
       THEN Effect(r, c, Resume(c.req))
       ELSE /\ req' = [req EXCEPT ![r] = q]
            /\ UNCHANGED treeVars

ProcessStep(r) ==
  /\ pc = "process"
  /\ r \in todo
  /\ todo' = todo \ {r}
  /\ UNCHANGED <<pc, loopVars, passVars, batchVars>>

\* Mutant: a middle chunk's token is committed like a last one's.
ProcessPrefillEveryToken(r) ==
  /\ ProcessStep(r)
  /\ Head(queue).kind = "extend"
  /\ \/ /\ Finished(r) \/ req[r].retracted
        /\ UNCHANGED <<treeVars, req>>
     \/ /\ ~Finished(r) /\ ~req[r].retracted
        /\ Commit(r, "extend")

\* Mutant: the count of middle chunks is not taken down.
ProcessPrefillNoCount(r) ==
  /\ ProcessStep(r)
  /\ Head(queue).kind = "extend"
  /\ \/ /\ (Finished(r) \/ req[r].middle > 0) \/ req[r].retracted
        /\ UNCHANGED <<treeVars, req>>
     \/ /\ ~Finished(r) /\ ~req[r].retracted
        /\ req[r].middle <= 0
        /\ Commit(r, "extend")

\* process_batch_result_prefill for one request.
ProcessPrefill(r) ==
  /\ ProcessStep(r)
  /\ Head(queue).kind = "extend"
  /\ \/ /\ (Finished(r) /\ req[r].middle <= 0) \/ req[r].retracted
        /\ UNCHANGED <<treeVars, req>>
     \/ /\ ~(Finished(r) /\ req[r].middle <= 0) /\ ~req[r].retracted
        /\ req[r].middle <= 0
        /\ Commit(r, "extend")
     \/ /\ ~req[r].retracted
        /\ req[r].middle > 0
        /\ req' = [req EXCEPT ![r].middle = @ - 1]
        /\ UNCHANGED treeVars

\* process_batch_result_decode for one request: a result that arrives after
\* the request finished or was retracted is dropped.
ProcessDecode(r) ==
  /\ ProcessStep(r)
  /\ Head(queue).kind = "decode"
  /\ \/ /\ Finished(r) \/ req[r].retracted
        /\ UNCHANGED <<treeVars, req>>
     \/ /\ ~Finished(r) /\ ~req[r].retracted
        /\ Commit(r, "decode")

\* Mutant: the newest result leaves the queue, not the one that was processed.
EndIterationPopsNewest ==
  /\ pc = "process"
  /\ todo = {}
  /\ queue' = IF Pops(queue) THEN SubSeq(queue, 1, Len(queue) - 1) ELSE queue
  /\ last_batch' = batch
  /\ batch' = NoBatch
  /\ pc' = "recv"
  /\ UNCHANGED <<treeVars, req, todo, loopVars, passVars>>

EndIteration ==
  /\ pc = "process"
  /\ todo = {}
  /\ queue' = IF Pops(queue) THEN Tail(queue) ELSE queue
  /\ last_batch' = batch
  /\ batch' = NoBatch
  /\ pc' = "recv"
  /\ UNCHANGED <<treeVars, req, todo, loopVars, passVars>>

-----------------------------------------------------------------------------

Client ==
  \/ \E r \in Req : Arrive(r) \/ AbortWaiting(r) \/ AbortInflight(r)
  \/ FlushCache

Loop ==
  \/ Schedule \/ StashChunk \/ AbortChunk
  \/ AddChunkedReq \/ ClosePass
  \/ UpdateRunningBatch \/ EndIteration
  \/ \E r \in Req : \/ Admit(r) \/ Reject(r) \/ Extend(r)
                    \/ Retract(r) \/ Decode(r)
                    \/ ProcessPrefill(r) \/ ProcessDecode(r)

Next == Client \/ Loop

Spec == Init /\ [][Next]_vars

\* The loop is a while-True: some step of it is possible in every state the
\* scheduler survives, and its thread keeps taking them.  Clients owe nothing.
FairSpec == Spec /\ []<><<Loop>>_vars

-----------------------------------------------------------------------------
(* Properties *)

Locked == {r \in Req : req[r].phase \in {"admitted", "running"}}

Holders == {r \in Req : HoldsKV(r)}

OwnPages(r) == PrivatePages(req[r].row, req[r].protected)

TreePages == {tree.value[k] : k \in Cached(tree)}

Batch ==
  [kind : {"none", "extend", "decode"},
   tok : UNION {[S -> Sampled] : S \in SUBSET Req},
   chunked : Req \cup {NoReq}]

\* The loop's variables stay in their ranges: in particular the batch that is
\* built, the running batch and the results in flight name requests only, also
\* when chunked_req is cleared by the pass that adds its last chunk.
TypeOK ==
  /\ DOMAIN tree = {"value", "node", "lock_ref", "evictable_size",
                    "protected_size", "evictable_leaves"}
  /\ DOMAIN free = Page
  /\ DOMAIN content = Page
  /\ DOMAIN req = Req
  /\ pc \in {"recv", "admit", "extend", "decode", "retract", "alloc_decode",
             "process", "crashed"}
  /\ todo \subseteq Req
  /\ running \subseteq Req
  /\ full \in BOOLEAN
  /\ chunked \in Req \cup {NoReq}
  /\ abort_chunk \in BOOLEAN
  /\ batch \in Batch
  /\ last_batch \in Batch
  /\ queue \in Seq(Batch)

\* Every page of the pool has exactly one owner: the free list, the tree, or
\* the private part of one request's row.  A page freed twice, leaked, or
\* freed while a request or the tree still points at it breaks this.
SlotOwnership ==
  /\ \A k, l \in Cached(tree) : tree.value[k] = tree.value[l] => k = l
  /\ \A r \in Holders : \A i, j \in DOMAIN req[r].row :
       req[r].row[i] = req[r].row[j] => i = j
  /\ \A r \in Holders : OwnPages(r) \cap TreePages = {}
  /\ \A r, s \in Holders : r # s => OwnPages(r) \cap OwnPages(s) = {}
  /\ \A p \in Page :
       free[p] = IF p \in TreePages \/ \E r \in Holders : p \in OwnPages(r)
                 THEN 0 ELSE 1

\* A lock count is the number of requests whose locked path passes the node:
\* splits, checkpoints that move a lock, and releases keep it exact.
LockRefExact ==
  \A n \in Nodes(tree) :
    tree.lock_ref[n] = Cardinality({r \in Locked : IsPrefixOf(n, req[r].lock)})

\* The part of a request's row that the tree owns is still in the tree, under
\* the request's lock, at the very pages the row names.
ProtectedPrefixResident ==
  \A r \in Locked :
    /\ req[r].lock = Prefix(Fill(r), req[r].protected)
    /\ req[r].lock \in Nodes(tree) \cup {Root}
    /\ HoldsKV(r) =>
         \A i \in 1 .. req[r].protected \div PageSize :
           req[r].row[i] = tree.value[Prefix(req[r].lock, i * PageSize)]

\* evictable_size_, protected_size_ and evictable_leaves, which admission and
\* eviction trust, agree with the tree.
AccountingExact ==
  /\ tree.evictable_size = NumTokens(tree, {n \in Nodes(tree) : tree.lock_ref[n] = 0})
  /\ tree.protected_size = NumTokens(tree, {n \in Nodes(tree) : tree.lock_ref[n] > 0})
  /\ tree.evictable_leaves =
       {n \in Nodes(tree) : tree.lock_ref[n] = 0 /\ IsLeaf(tree, n)}

\* The KV in a cached page is that of the path the page is cached under, and a
\* request's row holds the KV of its own tokens: reuse never reads the KV of
\* another text.
ContentRight ==
  /\ \A k \in Cached(tree) : content[tree.value[k]] = k
  /\ \A r \in Holders : \A i \in 1 .. CeilPages(req[r].committed) :
       content[req[r].row[i]] =
         Prefix(req[r].dev, IF i * PageSize <= req[r].committed
                            THEN i * PageSize ELSE req[r].committed)

\* The batches launched or being launched whose results are not all processed,
\* in launch order.
InFlight ==
  queue \o (IF pc \in {"extend", "alloc_decode", "crashed"} THEN <<batch>> ELSE << >>)

\* Of these, the ones whose result request r is still to be given.
Due(r) ==
  {i \in DOMAIN InFlight :
     /\ r \in ReqsOf(InFlight[i])
     /\ ~(i = 1 /\ pc = "process" /\ Pops(queue) /\ r \notin todo)}

MiddleChunksDue(r) == {i \in Due(r) : InFlight[i].chunked = r}

TokensDue(r) == Due(r) \ MiddleChunksDue(r)

\* Each sampled token reaches its request's output once and in order: what the
\* device has generated is the output plus the results still in flight, the
\* n-th of them n tokens beyond the output.  A result of before a retraction,
\* or of a middle chunk, is never committed.
OutputFollowsDevice ==
  \A r \in Holders :
    /\ Len(req[r].dev) = Len(Fill(r)) + Cardinality(TokensDue(r))
    /\ IsPrefixOf(Fill(r), req[r].dev)
    /\ \A i \in TokensDue(r) :
         LET n == Cardinality({j \in TokensDue(r) : j <= i})
         IN req[r].dev[Len(Fill(r)) + n] = InFlight[i].tok[r]

\* inflight_middle_chunks counts the launched chunks of the request that were
\* not its last and whose result is still due: only so is a middle chunk's
\* sampled token dropped and the last chunk's token kept.
MiddleChunksExact ==
  \A r \in Holders : req[r].middle = Cardinality(MiddleChunksDue(r))

\* A request waits, or is in the running batch with its KV, or is the chunked
\* request, never two of these, and an abort of a chunk names one.
BatchMembership ==
  /\ \A r \in running : HoldsKV(r) \/ Finished(r)
  /\ chunked # NoReq => req[chunked].phase \in {"admitted", "running"}
  /\ chunked \notin running
  /\ abort_chunk => chunked # NoReq

\* Admission and the decode memory check promise enough memory: the
\* allocations they lead to never fail (RuntimeError "out of memory").
AllocationNeverFails == pc # "crashed"

\* A request alone in the decode batch always fits, because its output was
\* clipped to the pool: retract_decode never has to abort the last request.
LastRequestFits == pc = "retract" => Cardinality(running) > 1

\* The overlap loop schedules with at most one unprocessed result, the normal
\* loop with none (the assertion of _reqs_finishing_inflight).
ResultQueueDepth ==
  pc \in {"recv", "admit", "decode"} => Len(queue) <= (IF Overlap THEN 1 ELSE 0)

\* A step that leaves a request's lock where it is leaves every page of the
\* locked path in the tree: nothing in use is evicted or replaced.
LockedPathStable ==
  [][\A r \in Locked :
       r \in Locked' /\ req'[r].lock = req[r].lock =>
         \A k \in Cached(tree) : IsPrefixOf(k, req[r].lock) =>
           k \in Cached(tree') /\ tree'.value[k] = tree.value[k]]_vars

\* Every request that is waiting or running is eventually finished, under
\* retraction, preempted chunks and a full batch flag included.
EventuallyFinished ==
  \A r \in Req : req[r].phase = "waiting" ~> Finished(r)
=============================================================================
