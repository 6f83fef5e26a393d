-------------------------- MODULE KVControlProofs --------------------------
(***************************************************************************)
(* Proofs about KVScheduler for every pool size, page size, set of         *)
(* requests and every setting of the scheduler's limits: the loop.         *)
(*                                                                         *)
(* How many results are in flight is decided by three things that change   *)
(* at different points of an iteration: result_queue, last_batch and the   *)
(* batch being built.  QueueShape ties them together at every point, and   *)
(* is the inductive invariant behind ResultQueueDepth.                     *)
(*                                                                         *)
(* The second part is the control half of the KV invariant: where a        *)
(* request can be at each point of an iteration, and which results are     *)
(* still due to it. With the overlap scheduler the result of a batch is    *)
(* processed while the next one runs, and meanwhile its requests may       *)
(* finish, be aborted or be retracted; Followed(r) says what the device    *)
(* has generated for r beyond its output in terms of the two batches that  *)
(* can be in flight. Every action has a lemma that it keeps the invariant, *)
(* and OutputFollowsDevice, MiddleChunksExact and BatchMembership follow   *)
(* from it. The one step that needs more, Admit while a request is being   *)
(* chunked, is excluded by the chunk budget in KVMemoryProofs.             *)
(***************************************************************************)
EXTENDS KVScheduler, RadixTreeProofs, SequenceTheorems

IsTree(t) == DOMAIN t = TreeFields

\* 1 for a batch that was launched, 0 for None.
Launched(b) == IF b.kind = "none" THEN 0 ELSE 1

\* Under overlap the result of the last batch waits for this iteration.
Carried == IF Overlap THEN Launched(last_batch) ELSE 0

QueueShape ==
  /\ pc \in {"recv", "admit", "decode", "retract"} => batch.kind = "none"
  /\ pc \in {"recv", "admit", "extend", "decode", "retract", "alloc_decode"}
       => Len(queue) = Carried
  /\ pc = "process" => Len(queue) = Carried + Launched(batch)

LoopInv == TypeOK /\ QueueShape

-----------------------------------------------------------------------------
(* The tree operators return trees                                         *)

\* Splitting a node (_split_node) gives a tree record again.
LEMMA SplitNodeIsTree ==
  ASSUME NEW t, NEW k, IsTree(t)
  PROVE  IsTree(SplitNode(t, k))
  BY DEF SplitNode, IsTree

\* Taking or dropping a lock (inc_lock_ref, dec_lock_ref) gives a tree record.
LEMMA LockingIsTree ==
  ASSUME NEW t, NEW n, IsTree(t)
  PROVE  IsTree(IncLockRef(t, n)) /\ IsTree(DecLockRef(t, n))
  BY DEF IncLockRef, DecLockRef, IsTree

\* Inserting a key gives a tree record.
LEMMA InsertIsTree ==
  ASSUME NEW t, NEW k, NEW row, IsTree(t)
  PROVE  IsTree(Insert(t, k, row))
  <1> DEFINE m == LongestMatch(t, k)
  <1>1. IsTree(SplitNode(t, m))
    BY SplitNodeIsTree
  <1>2. IsTree(AddLeaf(SplitNode(t, m), k, row, m, NewPaths(k, Len(m))))
    BY DEF AddLeaf, IsTree, TreeFields
  <1> QED  BY <1>1, <1>2 DEF Insert, InsertBeyond

\* So does the insert and second match of a checkpoint.
LEMMA PublishIsTree ==
  ASSUME NEW t, NEW q, NEW key, IsTree(t)
  PROVE  IsTree(Publish(t, q, key))
  <1> DEFINE t1 == Insert(t, key, q.row)
             t2 == Insert(t1, PageAligned(q.prompt), q.row)
  <1>1. IsTree(t1)
    BY InsertIsTree
  <1>2. IsTree(t2)
    BY <1>1, InsertIsTree
  <1>3. \A u : IsTree(u) => IsTree(MatchPrefix(u, key))
    BY SplitNodeIsTree DEF MatchPrefix
  <1> QED  BY <1>1, <1>2, <1>3 DEF Publish

\* So does a whole checkpoint, which also moves the lock.
LEMMA CheckpointIsTree ==
  ASSUME NEW t, NEW q, NEW up_to, IsTree(t)
  PROVE  IsTree(Checkpoint(t, q, up_to).tree)
  <1> DEFINE key == PageAligned(Truncated(q.prompt \o q.out, up_to))
             u == Publish(t, q, key)
  <1>1. IsTree(u)
    BY PublishIsTree
  <1>2. IsTree(IncLockRef(DecLockRef(u, q.lock), key))
    BY <1>1, LockingIsTree
  <1> QED  BY <1>2 DEF Checkpoint, CheckpointKey, Adopt

\* And release_kv_cache, whether it publishes or not.
LEMMA ReleaseKVIsTree ==
  ASSUME NEW t, NEW q, NEW publish \in BOOLEAN, IsTree(t)
  PROVE  IsTree(ReleaseKV(t, q, publish).tree)
  <1>1. IsTree(Checkpoint(t, q, OwnedKvLen(q)).tree)
    BY CheckpointIsTree
  <1>2. ASSUME NEW c, IsTree(c.tree) PROVE IsTree(FreeRow(c).tree)
    BY <1>2, LockingIsTree DEF FreeRow
  <1>3. CASE publish
    BY <1>1, <1>2, <1>3 DEF ReleaseKV
  <1>4. CASE ~publish
    <2> DEFINE c == [tree |-> t, dup |-> {}, own |-> {}, req |-> q]
    <2>1. ReleaseKV(t, q, publish) = FreeRow(c)
      BY <1>4 DEF ReleaseKV
    <2>2. IsTree(c.tree)
      OBVIOUS
    <2> HIDE DEF c
    <2> QED  BY <1>2, <2>1, <2>2
  <1> QED  BY <1>3, <1>4

\* Every outcome of an eviction has a tree record and a free list of the pool's pages.
LEMMA EvictionsIsTree ==
  ASSUME NEW t, NEW f, NEW n, NEW e \in Evictions(t, f, n)
  PROVE  IsTree(e.tree) /\ DOMAIN e.free = Page
  <1>1. PICK E : e = [tree |-> DeleteNodes(t, E), free |-> Release(f, PagesIn(t, E)),
                      gone |-> PagesIn(t, E)]
    BY DEF Evictions
  <1>2. IsTree(DeleteNodes(t, E))
    BY DEF DeleteNodes, IsTree, TreeFields
  <1>3. DOMAIN Release(f, PagesIn(t, E)) = Page
    BY DEF Release
  <1> QED  BY <1>1, <1>2, <1>3

\* The pools keep their shape through a checkpoint or a release.
LEMMA EffectKeepsPools ==
  ASSUME TypeOK, NEW r, NEW c, NEW q, IsTree(c.tree),
         Effect(r, c, q)
  PROVE  IsTree(tree') /\ DOMAIN free' = Page /\ DOMAIN content' = Page
         /\ DOMAIN req' = Req
  BY DEF TypeOK, Effect, Release, Scrub

-----------------------------------------------------------------------------
(* Batches and the queue                                                   *)

\* Steps that only build the batch: the queue and the last batch are left.
LEMMA BuildKeepsShape ==
  ASSUME LoopInv, UNCHANGED <<queue, last_batch>>,
         pc \in {"recv", "admit", "decode", "retract"},
         pc' \in {"recv", "admit", "extend", "decode", "retract", "alloc_decode", "process"},
         batch'.kind = "none"
  PROVE  QueueShape'
  BY DEF LoopInv, QueueShape, Carried, Launched

\* A request is added to the batch; the last one launches it.
LEMMA AddToBatchKeepsShape ==
  ASSUME LoopInv, NEW kind \in {"extend", "decode"}, NEW r \in Req, NEW tok \in Sampled,
         pc \in {"extend", "alloc_decode"}, AddToBatch(kind, r, tok), last_batch' = last_batch
  PROVE  /\ QueueShape'
         /\ batch' \in Batch /\ queue' \in Seq(Batch)
         /\ todo' \subseteq Req /\ pc' \in {pc, "process"}
  <1> USE DEF LoopInv, TypeOK
  <1> DEFINE toks == [x \in ReqsOf(batch) \cup {r} |-> IF x = r THEN tok ELSE batch.tok[x]]
             b == [batch EXCEPT !.kind = kind, !.tok = toks]
  <1>1. PICK S \in SUBSET Req : batch.tok \in [S -> Sampled]
    BY DEF Batch
  <1>2. toks \in [S \cup {r} -> Sampled] /\ S \cup {r} \in SUBSET Req
    BY <1>1 DEF ReqsOf
  <1>3. b \in Batch /\ b.kind = kind
    <2> HIDE DEF toks
    <2>1. toks \in UNION {[U -> Sampled] : U \in SUBSET Req}
      BY <1>2, SMTT(30)
    <2> QED  BY <2>1 DEF Batch
  <1>4. batch' = b
    BY DEF AddToBatch
  <1> HIDE DEF b
  <1>5. CASE todo = {r}
    <2>1. queue' = Append(queue, b) /\ todo' = ToProcess(queue') /\ pc' = "process"
      BY <1>5 DEF AddToBatch, b
    <2>2. queue' \in Seq(Batch) /\ Len(queue') = Len(queue) + 1 /\ queue' # << >>
      BY <1>3, <2>1
    <2>3. Head(queue') \in Batch
      BY <2>2
    <2>4. DOMAIN Head(queue').tok \subseteq Req
      BY <2>3 DEF Batch
    <2>5. todo' \subseteq Req
      BY <2>1, <2>4 DEF ToProcess, Pops, ReqsOf
    <2>6. Len(queue') = (Carried + Launched(batch))'
      <3>1. Len(queue) = Carried
        BY DEF QueueShape
      <3>2. Carried' = Carried /\ Carried \in Nat
        BY DEF Carried, Launched
      <3>3. Launched(batch)' = 1
        BY <1>3, <1>4 DEF Launched
      <3> QED  BY <2>2, <3>1, <3>2, <3>3
    <2> QED  BY <1>3, <1>4, <2>1, <2>2, <2>5, <2>6 DEF QueueShape
  <1>6. CASE todo # {r}
    <2>1. todo' = todo \ {r} /\ UNCHANGED <<queue, pc>>
      BY <1>6 DEF AddToBatch
    <2> QED  BY <1>3, <1>4, <2>1 DEF QueueShape, Carried, Launched
  <1> QED  BY <1>5, <1>6

\* What an iteration processes names requests only.
LEMMA ToProcessReqs ==
  ASSUME TypeOK
  PROVE  ToProcess(queue) \subseteq Req
  <1>1. CASE queue = << >>
    BY <1>1 DEF ToProcess, Pops
  <1>2. CASE queue # << >>
    <2>1. Head(queue) \in Batch
      BY <1>2 DEF TypeOK
    <2> QED  BY <2>1 DEF ToProcess, ReqsOf, Batch
  <1> QED  BY <1>1, <1>2

\* The empty batch is a batch, of no kind.
LEMMA NoBatchShape == NoBatch \in Batch /\ NoBatch.kind = "none"
  <1>1. NoTokens \in [{} -> Sampled]
    BY DEF NoTokens
  <1>2. NoTokens \in UNION {[S -> Sampled] : S \in SUBSET Req}
    BY <1>1
  <1> QED  BY <1>2 DEF NoBatch, Batch

\* A new scheduling pass.
LEMMA BeginPassKeeps ==
  ASSUME LoopInv, pc = "recv", NEW rq, NEW ch, BeginPass(rq, ch)
  PROVE  /\ QueueShape' /\ pc' = "admit" /\ todo' \subseteq Req
         /\ running' \subseteq Req /\ full' \in BOOLEAN
         /\ UNCHANGED <<batch, last_batch, queue>>
  <1> USE DEF LoopInv, TypeOK
  <1>1. /\ running' = Merged(rq, ch) /\ pc' = "admit" /\ UNCHANGED <<todo, batch, last_batch, queue>>
        /\ full' \in BOOLEAN
    BY DEF BeginPass, batchVars
  <1>2. ReqsOf(last_batch) \subseteq Req
    BY DEF ReqsOf, Batch
  <1>3. Merged(rq, ch) \subseteq Req
    BY <1>2 DEF Merged
  <1>4. QueueShape'
    BY <1>1, BuildKeepsShape DEF QueueShape
  <1> QED  BY <1>1, <1>3, <1>4

-----------------------------------------------------------------------------
(* One lemma per action                                                    *)

\* Arrivals, aborts and flush_cache leave the queue and last_batch in step.
LEMMA ClientKeeps ==
  ASSUME LoopInv, Client
  PROVE  LoopInv'
  <1> USE DEF LoopInv
  <1>1. ASSUME NEW r \in Req, Arrive(r) \/ AbortWaiting(r) PROVE LoopInv'
    <2>1. /\ UNCHANGED <<tree, free, content, pc, todo, running, full, chunked,
                         abort_chunk, batch, last_batch, queue>>
          /\ DOMAIN req' = DOMAIN req
      BY <1>1 DEF Arrive, AbortWaiting, treeVars, loopVars, batchVars
    <2> QED  BY <2>1 DEF TypeOK, QueueShape, Carried, Launched
  <1>2. ASSUME NEW r \in Req, AbortInflight(r) PROVE LoopInv'
    <2>1. /\ UNCHANGED <<tree, free, content, pc, todo, running, full, chunked,
                         batch, last_batch, queue>>
          /\ DOMAIN req' = DOMAIN req /\ abort_chunk' \in BOOLEAN
      BY <1>2 DEF AbortInflight, treeVars, batchVars
    <2> QED  BY <2>1 DEF TypeOK, QueueShape, Carried, Launched
  <1>3. CASE FlushCache
    <2>1. /\ UNCHANGED <<req, pc, todo, running, full, chunked, abort_chunk, batch, queue>>
          /\ last_batch' = NoBatch /\ pc = "recv" /\ queue = << >>
          /\ DOMAIN free' = Page /\ DOMAIN content' = Page
      BY <1>3 DEF FlushCache, FullyIdle, loopVars
    <2>2. IsTree(tree')
      BY <1>3 DEF FlushCache, EmptyTree, IsTree, TreeFields
    <2>3. NoBatch \in Batch /\ Launched(NoBatch) = 0
      BY NoBatchShape DEF Launched
    <2>4. TypeOK'
      BY <2>1, <2>2, <2>3 DEF TypeOK, IsTree, TreeFields
    <2>5. Carried' = 0 /\ Len(queue') = 0 /\ batch'.kind = "none"
      BY <2>1, <2>3 DEF Carried, QueueShape
    <2> QED  BY <2>1, <2>4, <2>5 DEF QueueShape
  <1> QED  BY <1>1, <1>2, <1>3 DEF Client

\* The start of a scheduling pass without a chunked request keeps the invariant.
LEMMA ScheduleKeeps ==
  ASSUME LoopInv, Schedule
  PROVE  LoopInv'
  <1>1. pc = "recv" /\ BeginPass(req, NoReq)
        /\ UNCHANGED <<tree, free, content, req, chunked, abort_chunk>>
    BY DEF Schedule, treeVars
  <1>2. /\ QueueShape' /\ pc' = "admit" /\ todo' \subseteq Req
        /\ running' \subseteq Req /\ full' \in BOOLEAN
        /\ UNCHANGED <<batch, last_batch, queue>>
    BY <1>1, BeginPassKeeps
  <1> QED  BY <1>1, <1>2 DEF LoopInv, TypeOK

\* So does stash_chunked_request, which publishes a chunk.
LEMMA StashChunkKeeps ==
  ASSUME LoopInv, StashChunk
  PROVE  LoopInv'
  <1> USE DEF LoopInv
  <1>1. pc = "recv" /\ BeginPass(req', chunked) /\ UNCHANGED <<chunked, abort_chunk>>
    BY DEF StashChunk
  <1>2. /\ QueueShape' /\ pc' = "admit" /\ todo' \subseteq Req
        /\ running' \subseteq Req /\ full' \in BOOLEAN
        /\ UNCHANGED <<batch, last_batch, queue>>
    BY <1>1, BeginPassKeeps
  <1>3. IsTree(tree') /\ DOMAIN free' = Page /\ DOMAIN content' = Page /\ DOMAIN req' = Req
    <2> DEFINE q == req[chunked]
    <2>1. CASE q.extend_end > q.prefix
      <3> DEFINE c == Checkpoint(tree, q, q.extend_end)
      <3>1. Effect(chunked, c, Resume(c.req))
        BY <2>1 DEF StashChunk
      <3>2. IsTree(c.tree)
        BY CheckpointIsTree DEF TypeOK, IsTree, TreeFields
      <3> HIDE DEF c
      <3> QED  BY <3>1, <3>2, EffectKeepsPools
    <2>2. CASE ~(q.extend_end > q.prefix)
      <3>1. UNCHANGED <<tree, free, content, req>>
        BY <2>2 DEF StashChunk, treeVars
      <3> QED  BY <3>1 DEF TypeOK, IsTree, TreeFields
    <2> QED  BY <2>1, <2>2
  <1> QED  BY <1>1, <1>2, <1>3 DEF TypeOK, IsTree, TreeFields

\* So does process_pending_chunked_abort.
LEMMA AbortChunkKeeps ==
  ASSUME LoopInv, AbortChunk
  PROVE  LoopInv'
  <1> USE DEF LoopInv
  <1> DEFINE c == ReleaseKV(tree, req[chunked], FALSE)
  <1>1. /\ pc = "recv" /\ BeginPass(req', NoReq) /\ chunked' = NoReq /\ abort_chunk' = FALSE
        /\ Effect(chunked, c, Finish(req[chunked]))
    BY DEF AbortChunk
  <1>2. IsTree(c.tree)
    BY ReleaseKVIsTree DEF TypeOK, IsTree, TreeFields
  <1> HIDE DEF c
  <1>3. /\ QueueShape' /\ pc' = "admit" /\ todo' \subseteq Req
        /\ running' \subseteq Req /\ full' \in BOOLEAN
        /\ UNCHANGED <<batch, last_batch, queue>>
    BY <1>1, BeginPassKeeps
  <1>4. IsTree(tree') /\ DOMAIN free' = Page /\ DOMAIN content' = Page /\ DOMAIN req' = Req
    BY <1>1, <1>2, EffectKeepsPools
  <1> QED  BY <1>1, <1>3, <1>4 DEF TypeOK, IsTree, TreeFields

\* The chunked field may be set on the batch that is being built.
LEMMA MarkedBatch ==
  ASSUME NEW b \in Batch, NEW c \in Req \cup {NoReq}
  PROVE  [b EXCEPT !.chunked = c] \in Batch /\ [b EXCEPT !.chunked = c].kind = b.kind
  BY DEF Batch

\* The chunked request joins the batch before chunked_req may be cleared, so the batch names a request.
LEMMA AddChunkedReqKeeps ==
  ASSUME LoopInv, AddChunkedReq
  PROVE  LoopInv'
  <1> USE DEF LoopInv
  <1>1. /\ pc = "admit" /\ chunked # NoReq
        /\ todo' = todo \cup {chunked}
        /\ chunked' \in {NoReq, chunked}
        /\ batch' = [batch EXCEPT !.chunked = chunked']
        /\ DOMAIN req' = DOMAIN req
        /\ UNCHANGED <<tree, free, content, pc, running, full, abort_chunk, last_batch, queue>>
    BY DEF AddChunkedReq, treeVars
  <1>2. chunked \in Req /\ chunked' \in Req \cup {NoReq} /\ batch \in Batch
    BY <1>1 DEF TypeOK
  <1>3. batch' \in Batch /\ batch'.kind = batch.kind
    BY <1>1, <1>2, MarkedBatch
  <1>4. TypeOK'
    BY <1>1, <1>2, <1>3 DEF TypeOK
  <1>5. QueueShape'
    BY <1>1, <1>3, BuildKeepsShape DEF QueueShape
  <1> QED  BY <1>4, <1>5

\* A waiting request admitted by add_one_req keeps the invariant.
LEMMA AdmitKeeps ==
  ASSUME LoopInv, NEW r \in Req, Admit(r)
  PROVE  LoopInv'
  <1> USE DEF LoopInv
  <1>1. PICK m : Admitted(r, m, Pinned(m))
    BY DEF Admit
  <1>2. IsTree(Pinned(m))
    <2>1. IsTree(SplitNode(tree, m))
      BY SplitNodeIsTree DEF TypeOK, IsTree, TreeFields
    <2> QED  BY <2>1, LockingIsTree DEF Pinned
  <1>3. pc = "admit"
    BY DEF Admit, PassOpen
  <1>4. /\ tree' = Pinned(m) /\ DOMAIN req' = DOMAIN req
        /\ full' \in BOOLEAN
        /\ chunked' \in {r, chunked}
        /\ batch' = [batch EXCEPT !.chunked = chunked']
        /\ todo' = todo \cup {r}
        /\ UNCHANGED <<free, content, pc, running, abort_chunk, last_batch, queue>>
    BY <1>1 DEF Admitted
  <1>5. chunked' \in Req \cup {NoReq} /\ batch \in Batch
    BY <1>4 DEF TypeOK
  <1>6. batch' \in Batch /\ batch'.kind = batch.kind
    BY <1>4, <1>5, MarkedBatch
  <1>7. TypeOK'
    BY <1>2, <1>4, <1>5, <1>6 DEF TypeOK, IsTree, TreeFields
  <1>8. QueueShape'
    BY <1>3, <1>4, <1>6, BuildKeepsShape DEF QueueShape
  <1> QED  BY <1>7, <1>8

\* So does one that does not fit.
LEMMA RejectKeeps ==
  ASSUME LoopInv, NEW r \in Req, Reject(r)
  PROVE  LoopInv'
  <1> USE DEF LoopInv
  <1>1. PICK m : /\ tree' = SplitNode(tree, m)
                 /\ req' = [req EXCEPT ![r].prefix = Len(m), ![r].protected = Len(m)]
                 /\ full' \in BOOLEAN
    BY DEF Reject
  <1>2. IsTree(tree') /\ DOMAIN req' = DOMAIN req
    BY <1>1, SplitNodeIsTree DEF TypeOK, IsTree, TreeFields
  <1>3. /\ pc = "admit" /\ pc' \in {"decode", "extend"}
        /\ UNCHANGED <<free, content, todo, running, chunked, abort_chunk, batch,
                       last_batch, queue>>
    BY DEF Reject, PassOpen, EndPass, batchVars
  <1>4. TypeOK'
    BY <1>1, <1>2, <1>3 DEF TypeOK, IsTree, TreeFields
  <1>5. QueueShape'
    BY <1>3, BuildKeepsShape DEF QueueShape
  <1> QED  BY <1>4, <1>5

\* So does the end of the admission pass.
LEMMA ClosePassKeeps ==
  ASSUME LoopInv, ClosePass
  PROVE  LoopInv'
  <1> USE DEF LoopInv
  <1>1. /\ pc = "admit" /\ pc' \in {"decode", "extend"} /\ full' \in BOOLEAN
        /\ UNCHANGED <<tree, free, content, req, todo, running, chunked, abort_chunk,
                       batch, last_batch, queue>>
    <2>1. full' \in BOOLEAN
      BY DEF ClosePass
    <2> QED  BY <2>1 DEF ClosePass, EndPass, treeVars, batchVars
  <1>2. TypeOK'
    BY <1>1 DEF TypeOK
  <1>3. QueueShape'
    BY <1>1, BuildKeepsShape DEF QueueShape
  <1> QED  BY <1>2, <1>3

\* update_running_batch launches nothing: the queue is unchanged on all its branches.
LEMMA UpdateRunningBatchKeeps ==
  ASSUME LoopInv, UpdateRunningBatch
  PROVE  LoopInv'
  <1> USE DEF LoopInv
  <1> DEFINE run == running \ FinishingInflight
  <1>1. /\ pc = "decode" /\ running' = run
        /\ UNCHANGED <<req, chunked, abort_chunk, batch, last_batch, queue>>
    BY DEF UpdateRunningBatch, batchVars
  <1>2. run \subseteq Req /\ ToProcess(queue) \subseteq Req
    BY ToProcessReqs DEF TypeOK
  <1>3. /\ IsTree(tree') /\ DOMAIN free' = Page /\ DOMAIN content' = Page
        /\ pc' \in {"process", "alloc_decode", "retract"}
        /\ todo' \in {ToProcess(queue), run, {}} /\ full' \in BOOLEAN
    <2>1. CASE run = {}
      <3>1. NoBatchToRun /\ full' \in BOOLEAN /\ UNCHANGED <<tree, free, content>>
        BY <2>1 DEF UpdateRunningBatch, treeVars
      <3> QED  BY <3>1 DEF NoBatchToRun, TypeOK, IsTree, TreeFields
    <2>2. CASE run # {}
      <3>1. PICK e \in Evictions(tree, free, DecodeNeed(run)) :
               /\ tree' = e.tree /\ free' = e.free /\ content' = Scrub(content, e.gone)
               /\ \/ pc' = "alloc_decode" /\ todo' = run /\ full' \in BOOLEAN
                  \/ NoBatchToRun /\ full' \in BOOLEAN
                  \/ pc' = "retract" /\ todo' = {} /\ full' \in BOOLEAN
        <4>1. full \in BOOLEAN
          BY DEF TypeOK
        <4> QED  BY <2>2, <4>1 DEF UpdateRunningBatch
      <3>2. IsTree(e.tree) /\ DOMAIN e.free = Page
        BY EvictionsIsTree
      <3>3. DOMAIN content' = Page
        BY <3>1 DEF Scrub
      <3> QED  BY <3>1, <3>2, <3>3 DEF NoBatchToRun
    <2> QED  BY <2>1, <2>2
  <1> HIDE DEF run
  <1>4. TypeOK'
    BY <1>1, <1>2, <1>3 DEF TypeOK, IsTree, TreeFields
  <1>5. QueueShape'
    BY <1>1, <1>3, BuildKeepsShape DEF QueueShape
  <1> QED  BY <1>4, <1>5
\* Retraction, or the abort of the last request, launches nothing.
LEMMA RetractKeeps ==
  ASSUME LoopInv, NEW r \in Req, Retract(r)
  PROVE  LoopInv'
  <1> USE DEF LoopInv
  <1> DEFINE c == ReleaseKV(tree, req[r], FALSE)
             rest == running \ {r}
  <1>1. IsTree(c.tree)
    BY ReleaseKVIsTree DEF TypeOK, IsTree, TreeFields
  <1> HIDE DEF c
  <1>2. rest \subseteq Req /\ ToProcess(queue) \subseteq Req /\ todo \subseteq Req
    BY ToProcessReqs DEF TypeOK
  <1>3. CASE running # {r}
    <2>1. RetractOne(r) /\ pc = "retract"
      BY <1>3 DEF Retract
    <2>2. PICK e1 \in Evictions(c.tree, Release(free, c.own), Cardinality(rest) * RetractSteps) :
          \E e2 \in Evictions(e1.tree, e1.free, DecodeNeed(rest)) :
            /\ tree' = e2.tree /\ free' = e2.free
            /\ content' = Scrub(content, c.own \cup e1.gone \cup e2.gone)
            /\ req' = [req EXCEPT ![r] = ResetForRetract(c.req, "waiting")]
            /\ running' = rest /\ full' = FALSE
            /\ IF AvailableSize(e2.free) >= DecodeNeed(rest)
               THEN pc' = "alloc_decode" /\ todo' = rest ELSE UNCHANGED <<pc, todo>>
      BY <2>1 DEF RetractOne, c
    <2>3. PICK e2 \in Evictions(e1.tree, e1.free, DecodeNeed(rest)) :
            /\ tree' = e2.tree /\ free' = e2.free
            /\ content' = Scrub(content, c.own \cup e1.gone \cup e2.gone)
            /\ req' = [req EXCEPT ![r] = ResetForRetract(c.req, "waiting")]
            /\ running' = rest /\ full' = FALSE
            /\ \/ pc' = "alloc_decode" /\ todo' = rest
               \/ UNCHANGED <<pc, todo>>
      BY <2>2
    <2>4. IsTree(e2.tree) /\ DOMAIN e2.free = Page
      BY EvictionsIsTree
    <2>5. DOMAIN content' = Page /\ DOMAIN req' = DOMAIN req
      BY <2>3 DEF Scrub
    <2>6. UNCHANGED <<chunked, abort_chunk, batch, last_batch, queue>>
      BY <2>1 DEF RetractOne, batchVars
    <2> HIDE DEF rest
    <2>7. TypeOK'
      BY <1>2, <2>3, <2>4, <2>5, <2>6 DEF TypeOK, IsTree, TreeFields
    <2>8. QueueShape'
      BY <2>1, <2>3, <2>6, BuildKeepsShape DEF QueueShape
    <2> QED  BY <2>7, <2>8
  <1>4. CASE running = {r}
    <2>1. AbortLast(r) /\ pc = "retract"
      BY <1>4 DEF Retract
    <2>2. Effect(r, c, Finish(ResetForRetract(req[r], "finished")))
      BY <2>1 DEF AbortLast, c
    <2>3. IsTree(tree') /\ DOMAIN free' = Page /\ DOMAIN content' = Page /\ DOMAIN req' = Req
      BY <1>1, <2>2, EffectKeepsPools
    <2>4. /\ running' = {} /\ full' = FALSE /\ pc' = "process" /\ todo' = ToProcess(queue)
          /\ UNCHANGED <<chunked, abort_chunk, batch, last_batch, queue>>
      BY <2>1 DEF AbortLast, NoBatchToRun, batchVars
    <2>5. TypeOK'
      BY <1>2, <2>3, <2>4 DEF TypeOK, IsTree, TreeFields
    <2>6. QueueShape'
      BY <2>1, <2>4, BuildKeepsShape DEF QueueShape
    <2> QED  BY <2>5, <2>6
  <1> QED  BY <1>3, <1>4

\* A failed allocation stops the loop where it is.
LEMMA CrashKeeps ==
  ASSUME LoopInv, Crash, IsTree(tree'), DOMAIN free' = Page
  PROVE  LoopInv'
  <1> USE DEF LoopInv
  <1>1. /\ pc' = "crashed"
        /\ UNCHANGED <<req, content, todo, running, full, chunked, abort_chunk, batch,
                       last_batch, queue>>
    BY DEF Crash, loopVars, batchVars
  <1> QED  BY <1>1 DEF TypeOK, QueueShape, IsTree, TreeFields

\* A request's pages are taken and it joins the batch.
LEMMA LaunchKeeps ==
  ASSUME LoopInv, NEW kind \in {"extend", "decode"}, NEW r \in Req, NEW tok \in Sampled,
         pc \in {"extend", "alloc_decode"}, AddToBatch(kind, r, tok),
         UNCHANGED <<running, full, chunked, abort_chunk, last_batch>>,
         IsTree(tree'), DOMAIN free' = Page, DOMAIN content' = Page, DOMAIN req' = Req
  PROVE  LoopInv'
  <1>1. /\ QueueShape'
        /\ batch' \in Batch /\ queue' \in Seq(Batch)
        /\ todo' \subseteq Req /\ pc' \in {pc, "process"}
    BY AddToBatchKeepsShape
  <1> QED  BY <1>1 DEF LoopInv, TypeOK, IsTree, TreeFields

\* An extend batch joins the queue with its last request, and only then.
LEMMA ExtendKeeps ==
  ASSUME LoopInv, NEW r \in Req, Extend(r)
  PROVE  LoopInv'
  <1> DEFINE A(e) == /\ free' = e.free /\ Crash
             B(e) == \E tok, S, row, q :
                       /\ tok \in Sampled
                       /\ free' = Take(e.free, S)
                       /\ content' = Write(Scrub(content, e.gone), row, Fill(r),
                                           req[r].prefix, req[r].extend_end)
                       /\ req' = [req EXCEPT ![r] = q]
                       /\ AddToBatch("extend", r, tok)
                       /\ UNCHANGED <<loopVars, passVars, last_batch>>
  <1>1. PICK e \in Evictions(tree, free, ExtendDemand) : tree' = e.tree /\ (A(e) \/ B(e))
    BY ZenonT(60) DEF Extend
  <1>2. IsTree(e.tree) /\ DOMAIN e.free = Page /\ pc = "extend"
    BY EvictionsIsTree DEF Extend
  <1>3. CASE A(e)
    BY <1>1, <1>2, <1>3, CrashKeeps
  <1>4. CASE B(e)
    <2>1. PICK tok, S, row, q :
                       /\ tok \in Sampled
                       /\ free' = Take(e.free, S)
                       /\ content' = Write(Scrub(content, e.gone), row, Fill(r),
                                           req[r].prefix, req[r].extend_end)
                       /\ req' = [req EXCEPT ![r] = q]
                       /\ AddToBatch("extend", r, tok)
                       /\ UNCHANGED <<loopVars, passVars, last_batch>>
      BY <1>4
    <2>2. DOMAIN free' = Page /\ DOMAIN content' = Page /\ DOMAIN req' = Req
      BY <2>1 DEF Take, Write, LoopInv, TypeOK
    <2>3. UNCHANGED <<running, full, chunked, abort_chunk, last_batch>>
      BY <2>1 DEF loopVars
    <2> QED  BY <1>1, <1>2, <2>1, <2>2, <2>3, LaunchKeeps
  <1> QED  BY <1>1, <1>3, <1>4

\* Likewise a decode batch.
LEMMA DecodeKeeps ==
  ASSUME LoopInv, NEW r \in Req, Decode(r)
  PROVE  LoopInv'
  <1> DEFINE A(e) == /\ free' = e.free /\ Crash
             B(e) == \E tok, S, row, q :
                       /\ tok \in Sampled
                       /\ free' = Take(e.free, S)
                       /\ content' = Write(Scrub(content, e.gone), row, req[r].dev,
                                           req[r].committed, req[r].committed + 1)
                       /\ req' = [req EXCEPT ![r] = q]
                       /\ AddToBatch("decode", r, tok)
                       /\ UNCHANGED <<loopVars, passVars, last_batch>>
  <1>1. PICK e \in Evictions(tree, free, DecodeDemand) : tree' = e.tree /\ (A(e) \/ B(e))
    BY DEF Decode
  <1>2. IsTree(e.tree) /\ DOMAIN e.free = Page /\ pc = "alloc_decode"
    BY EvictionsIsTree DEF Decode
  <1>3. CASE A(e)
    BY <1>1, <1>2, <1>3, CrashKeeps
  <1>4. CASE B(e)
    <2>1. PICK tok, S, row, q :
                       /\ tok \in Sampled
                       /\ free' = Take(e.free, S)
                       /\ content' = Write(Scrub(content, e.gone), row, req[r].dev,
                                           req[r].committed, req[r].committed + 1)
                       /\ req' = [req EXCEPT ![r] = q]
                       /\ AddToBatch("decode", r, tok)
                       /\ UNCHANGED <<loopVars, passVars, last_batch>>
      BY <1>4
    <2>2. DOMAIN free' = Page /\ DOMAIN content' = Page /\ DOMAIN req' = Req
      BY <2>1 DEF Take, Write, LoopInv, TypeOK
    <2>3. UNCHANGED <<running, full, chunked, abort_chunk, last_batch>>
      BY <2>1 DEF loopVars
    <2> QED  BY <1>1, <1>2, <2>1, <2>2, <2>3, LaunchKeeps
  <1> QED  BY <1>1, <1>3, <1>4

\* Committing a token keeps the pools' shape, whether the request finishes,
\* checkpoints its prompt or goes on.
LEMMA CommitKeeps ==
  ASSUME TypeOK, NEW r \in Req, NEW kind, Commit(r, kind)
  PROVE  IsTree(tree') /\ DOMAIN free' = Page /\ DOMAIN content' = Page
         /\ DOMAIN req' = Req
  <1>1. IsTree(tree)
    BY DEF TypeOK, IsTree, TreeFields
  <1> DEFINE q == [req[r] EXCEPT !.out = Append(@, Head(queue).tok[r])]
             c1 == ReleaseKV(tree, q, TRUE)
             c2 == Checkpoint(tree, q, q.extend_end)
  <1>2. \/ Effect(r, c1, Finish(q))
        \/ Effect(r, c2, Resume(c2.req))
        \/ req' = [req EXCEPT ![r] = q] /\ UNCHANGED <<tree, free, content>>
    BY DEF Commit, treeVars
  <1>3. IsTree(c1.tree) /\ IsTree(c2.tree)
    BY <1>1, ReleaseKVIsTree, CheckpointIsTree
  <1> HIDE DEF c1, c2, q
  <1>4. CASE Effect(r, c1, Finish(q))
    BY <1>3, <1>4, EffectKeepsPools
  <1>5. CASE Effect(r, c2, Resume(c2.req))
    BY <1>3, <1>5, EffectKeepsPools
  <1>6. CASE req' = [req EXCEPT ![r] = q] /\ UNCHANGED <<tree, free, content>>
    BY <1>1, <1>6 DEF TypeOK
  <1> QED  BY <1>2, <1>4, <1>5, <1>6

\* Processing one request's result touches neither queue nor batches.
LEMMA ProcessKeeps ==
  ASSUME LoopInv, NEW r \in Req, ProcessPrefill(r) \/ ProcessDecode(r)
  PROVE  LoopInv'
  <1> USE DEF LoopInv
  <1>1. /\ UNCHANGED <<pc, running, full, chunked, abort_chunk, batch, last_batch, queue>>
        /\ todo' = todo \ {r}
    BY DEF ProcessPrefill, ProcessDecode, ProcessStep, loopVars, batchVars
  <1>2. \/ Commit(r, "extend") \/ Commit(r, "decode")
        \/ /\ UNCHANGED <<tree, free, content>>
           /\ req' = req \/ req' = [req EXCEPT ![r].middle = @ - 1]
    BY DEF ProcessPrefill, ProcessDecode, treeVars
  <1>3. IsTree(tree') /\ DOMAIN free' = Page /\ DOMAIN content' = Page /\ DOMAIN req' = Req
    <2>1. CASE Commit(r, "extend") \/ Commit(r, "decode")
      BY <2>1, CommitKeeps
    <2>2. CASE /\ UNCHANGED <<tree, free, content>>
               /\ req' = req \/ req' = [req EXCEPT ![r].middle = @ - 1]
      BY <2>2 DEF TypeOK, IsTree, TreeFields
    <2> QED  BY <1>2, <2>1, <2>2
  <1>4. TypeOK'
    BY <1>1, <1>3 DEF TypeOK, IsTree, TreeFields
  <1>5. QueueShape'
    BY <1>1 DEF QueueShape, Carried, Launched
  <1> QED  BY <1>4, <1>5

\* The end of the iteration takes out the processed result just when last_batch changes.
LEMMA EndIterationKeeps ==
  ASSUME LoopInv, EndIteration
  PROVE  LoopInv'
  <1> USE DEF LoopInv
  <1>1. /\ pc = "process" /\ pc' = "recv" /\ last_batch' = batch /\ batch' = NoBatch
        /\ queue' = IF Pops(queue) THEN Tail(queue) ELSE queue
        /\ UNCHANGED <<tree, free, content, req, todo, running, full, chunked, abort_chunk>>
    BY DEF EndIteration, treeVars, loopVars
  <1>2. queue \in Seq(Batch) /\ Len(queue) = Carried + Launched(batch)
    BY <1>1 DEF TypeOK, QueueShape
  <1>3. queue' \in Seq(Batch) /\ Len(queue') = Carried'
    <2>1. Launched(batch) \in {0, 1} /\ Launched(last_batch) \in {0, 1}
      BY DEF Launched
    <2>2. CASE Overlap
      <3>1. Carried = Launched(last_batch) /\ Carried' = Launched(batch)
        BY <1>1, <2>2 DEF Carried, Launched
      <3>2. CASE last_batch.kind = "none"
        <4>1. queue' = queue /\ Launched(last_batch) = 0
          BY <1>1, <2>2, <3>2 DEF Pops, Launched
        <4> QED  BY <1>2, <2>1, <3>1, <4>1
      <3>3. CASE last_batch.kind # "none"
        <4>1. Launched(last_batch) = 1
          BY <3>3 DEF Launched
        <4>2. queue # << >>
          BY <1>2, <2>1, <3>1, <4>1
        <4>3. queue' = Tail(queue)
          BY <1>1, <3>3, <4>2 DEF Pops
        <4>4. Tail(queue) \in Seq(Batch) /\ Len(Tail(queue)) = Len(queue) - 1
          BY <1>2, <4>2
        <4> QED  BY <1>2, <2>1, <3>1, <4>1, <4>3, <4>4
      <3> QED  BY <3>2, <3>3
    <2>3. CASE ~Overlap
      <3>1. Carried = 0 /\ Carried' = 0
        BY <2>3 DEF Carried
      <3>2. CASE queue = << >>
        <4>1. queue' = queue
          BY <1>1, <3>2 DEF Pops
        <4> QED  BY <1>2, <3>1, <3>2, <4>1
      <3>3. CASE queue # << >>
        <4>1. queue' = Tail(queue)
          BY <1>1, <2>3, <3>3 DEF Pops
        <4>2. Tail(queue) \in Seq(Batch) /\ Len(Tail(queue)) = Len(queue) - 1
              /\ Len(queue) > 0
          BY <1>2, <3>3
        <4> QED  BY <1>2, <2>1, <3>1, <4>1, <4>2
      <3> QED  BY <3>2, <3>3
    <2> QED  BY <2>2, <2>3
  <1>4. TypeOK'
    BY <1>1, <1>3, NoBatchShape DEF TypeOK
  <1>5. QueueShape'
    BY <1>1, <1>3, NoBatchShape DEF QueueShape
  <1> QED  BY <1>4, <1>5

\* The initial state, before any request has come.
LEMMA InitKeeps ==
  ASSUME Init
  PROVE  LoopInv
  <1>1. DOMAIN tree = TreeFields
    BY DEF Init, EmptyTree, TreeFields
  <1>2. TypeOK
    <2>1. full \in BOOLEAN /\ abort_chunk \in BOOLEAN
      BY Zenon DEF Init
    <2>2. batch \in Batch /\ last_batch \in Batch /\ queue \in Seq(Batch)
      BY NoBatchShape DEF Init
    <2>3. /\ DOMAIN free = Page /\ DOMAIN content = Page /\ DOMAIN req = Req
          /\ pc = "recv" /\ todo \subseteq Req /\ running \subseteq Req
          /\ chunked \in Req \cup {NoReq}
      BY DEF Init
    <2> QED  BY <1>1, <2>1, <2>2, <2>3 DEF TypeOK, TreeFields
  <1>3. Carried = 0
    <2>1. Launched(last_batch) = 0
      BY NoBatchShape DEF Init, Launched
    <2> QED  BY <2>1 DEF Carried
  <1>4. pc = "recv" /\ batch.kind = "none" /\ Len(queue) = 0
    BY NoBatchShape DEF Init
  <1> QED  BY <1>2, <1>3, <1>4 DEF LoopInv, QueueShape

-----------------------------------------------------------------------------
(* Theorems                                                                *)

\* The inductive invariant: ranges, and how many results are in flight at each
\* point of the iteration, across every action of the loop and its clients.
THEOREM LoopInvariant == Spec => []LoopInv
  <1>1. Init => LoopInv
    BY InitKeeps
  <1>2. LoopInv /\ [Next]_vars => LoopInv'
    <2> SUFFICES ASSUME LoopInv, [Next]_vars PROVE LoopInv'
      OBVIOUS
    <2>1. CASE Client
      BY <2>1, ClientKeeps
    <2>2. CASE Schedule \/ StashChunk \/ AbortChunk
      BY <2>2, ScheduleKeeps, StashChunkKeeps, AbortChunkKeeps
    <2>3. CASE AddChunkedReq \/ ClosePass \/ UpdateRunningBatch \/ EndIteration
      BY <2>3, AddChunkedReqKeeps, ClosePassKeeps, UpdateRunningBatchKeeps, EndIterationKeeps
    <2>4. ASSUME NEW r \in Req, Admit(r) \/ Reject(r) PROVE LoopInv'
      BY <2>4, AdmitKeeps, RejectKeeps
    <2>5. ASSUME NEW r \in Req, Extend(r) \/ Retract(r) \/ Decode(r) PROVE LoopInv'
      BY <2>5, ExtendKeeps, RetractKeeps, DecodeKeeps
    <2>6. ASSUME NEW r \in Req, ProcessPrefill(r) \/ ProcessDecode(r) PROVE LoopInv'
      BY <2>6, ProcessKeeps
    <2>7. CASE UNCHANGED vars
      BY <2>7 DEF vars, LoopInv, TypeOK, QueueShape, Carried, Launched
    <2> QED  BY <2>1, <2>2, <2>3, <2>4, <2>5, <2>6, <2>7 DEF Next, Loop
  <1> QED  BY <1>1, <1>2, PTL DEF Spec

\* Whatever the pools' sizes and the requests, the loop's variables stay in
\* their ranges: every batch, running, launched or in flight, names requests.
THEOREM LoopTypeCorrect == Spec => []TypeOK
  <1>1. LoopInv => TypeOK
    BY DEF LoopInv
  <1> QED  BY <1>1, LoopInvariant, PTL

\* The overlap loop never schedules with two results unprocessed, nor the
\* normal loop with one: what _reqs_finishing_inflight asserts.
THEOREM QueueDepthBounded == Spec => []ResultQueueDepth
  <1>1. LoopInv => ResultQueueDepth
    <2> SUFFICES ASSUME LoopInv, pc \in {"recv", "admit", "decode"}
                 PROVE  Len(queue) <= (IF Overlap THEN 1 ELSE 0)
      BY DEF ResultQueueDepth
    <2>1. Len(queue) = Carried
      BY DEF LoopInv, QueueShape
    <2>2. CASE Overlap
      <3>1. Carried \in {0, 1}
        BY <2>2 DEF Carried, Launched
      <3> QED  BY <2>1, <2>2, <3>1
    <2>3. CASE ~Overlap
      <3>1. Carried = 0
        BY <2>3 DEF Carried
      <3> QED  BY <2>1, <2>3, <3>1
    <2> QED  BY <2>2, <2>3
  <1> QED  BY <1>1, LoopInvariant, PTL

-----------------------------------------------------------------------------
(* Requests: where they are and what they are due *)

ReqFields == {"phase", "prompt", "max_new", "out", "dev", "row", "protected", "prefix",
              "extend_end", "committed", "lock", "middle", "retracted", "to_finish"}

\* The fields of a request the control of the loop depends on.
ControlOK(q) ==
  /\ DOMAIN q = ReqFields
  /\ q.phase \in {"idle", "waiting", "admitted", "running", "finished"}
  /\ q.prompt \in Key /\ q.out \in Key /\ q.dev \in Key
  /\ q.middle \in Nat
  /\ q.phase \in {"waiting", "admitted"} => q.middle = 0
  /\ q.retracted \in BOOLEAN

SameControl(p, q) ==
  /\ DOMAIN p = ReqFields
  /\ p.phase = q.phase /\ p.prompt = q.prompt /\ p.out = q.out /\ p.dev = q.dev
  /\ p.middle = q.middle /\ p.retracted = q.retracted

\* The result of last_batch, or of the batch being built or launched, is still
\* to be given to r.
DueOld(r) == Overlap /\ r \in ReqsOf(last_batch) /\ (pc = "process" => r \in todo)

DueNew(r) == r \in ReqsOf(batch) /\ (pc = "process" /\ ~Overlap => r \in todo)

Bit(b) == IF b THEN 1 ELSE 0

OldToken(r) ==
  IF DueOld(r) /\ last_batch.chunked # r THEN <<last_batch.tok[r]>> ELSE << >>

NewToken(r) ==
  IF DueNew(r) /\ batch.chunked # r THEN <<batch.tok[r]>> ELSE << >>

-----------------------------------------------------------------------------
(* The invariant *)

\* The queue is last_batch, under overlap, and the batch that was launched.
QueueIs ==
  queue = (IF Overlap /\ last_batch.kind # "none" THEN <<last_batch>> ELSE << >>)
          \o (IF pc = "process" /\ batch.kind # "none" THEN <<batch>> ELSE << >>)

BatchOK(b) ==
  /\ b.kind = "none" <=> ReqsOf(b) = {}
  /\ b.kind = "decode" => b.chunked = NoReq

BatchesAre ==
  /\ BatchOK(batch) /\ BatchOK(last_batch)
  /\ pc = "extend" => batch.kind # "decode"
  /\ pc = "alloc_decode" => batch.kind # "extend"
  /\ pc \in {"recv", "admit", "decode", "retract"} => batch.kind = "none"

\* A request still to be handled by the part of the iteration that runs.
ToExtend(r) ==
  /\ r \notin running
  /\ r \notin ReqsOf(batch)
  /\ req[r].phase = "admitted" \/ HoldsKV(r)
  /\ r \in ReqsOf(last_batch) => last_batch.chunked = r /\ HoldsKV(r)

TodoIs ==
  /\ pc \in {"recv", "decode", "retract"} => todo = {}
  /\ pc \in {"admit", "extend"} => \A r \in todo : ToExtend(r)
  /\ pc = "alloc_decode" => todo \subseteq running /\ todo \cap ReqsOf(batch) = {}
  /\ pc = "process" => todo \subseteq ReqsOf(IF Overlap THEN last_batch ELSE batch)

RequestsOK == \A r \in Req : ControlOK(req[r])

\* Where a request can be, by its phase.
Members ==
  /\ \A r \in running : HoldsKV(r) \/ (Finished(r) /\ pc \in {"recv", "process"})
  /\ \A r \in Req : req[r].phase = "admitted"
                      => pc \in {"admit", "extend", "crashed"} /\ r \in todo
  /\ \A r \in Req : HoldsKV(r) => ~req[r].retracted
  /\ \A r \in ReqsOf(batch) : HoldsKV(r) \/ (Finished(r) /\ pc = "process")
  /\ \A r \in ReqsOf(last_batch) :
       \/ HoldsKV(r)
       \/ Finished(r)
       \/ /\ req[r].phase = "waiting" /\ req[r].retracted
          /\ pc \in {"retract", "alloc_decode", "process", "crashed"}

\* The chunked request and the batches that carry its chunks.
ChunkIs ==
  /\ chunked \notin running
  /\ chunked # NoReq => HoldsKV(chunked) \/ req[chunked].phase = "admitted"
  /\ abort_chunk => pc = "recv" /\ chunked # NoReq
  /\ pc \in {"decode", "retract", "alloc_decode"} => chunked = NoReq
  /\ chunked # NoReq /\ chunked \in ReqsOf(last_batch) => last_batch.chunked = chunked
  /\ (pc = "admit" => chunked \in todo \cup {NoReq}) /\ pc # "recv"
       => batch.chunked = chunked
  /\ pc = "recv" => batch.chunked = NoReq

\* What is due to a request that holds KV.
Followed(r) ==
  HoldsKV(r) =>
    /\ req[r].middle = Bit(DueOld(r) /\ last_batch.chunked = r)
                         + Bit(DueNew(r) /\ batch.chunked = r)
    /\ req[r].dev = (Fill(r) \o OldToken(r)) \o NewToken(r)

ResultsFollowed == \A r \in Req : Followed(r)

Placed == QueueIs /\ BatchesAre /\ TodoIs /\ Members /\ ChunkIs

Control == LoopInv /\ RequestsOK /\ Placed /\ ResultsFollowed

-----------------------------------------------------------------------------
(* Records *)

\* The record of a request that arrives.
LEMMA NewReqControl ==
  ASSUME NEW p \in Key
  PROVE  ControlOK(NewReq(p)) /\ NewReq(p).phase = "waiting"
BY DEF NewReq, ControlOK, ReqFields, Key

\* The record of a request that has not arrived.
LEMMA IdleReqControl ==
  /\ ControlOK(IdleReq) /\ IdleReq.phase = "idle" /\ ~IdleReq.retracted /\ IdleReq.middle = 0
  /\ DOMAIN IdleReq = ReqFields
BY DEF IdleReq, NewReq, ControlOK, ReqFields, Key

\* The record of a request that has finished.
LEMMA FinishControl ==
  ASSUME NEW q, q.middle \in Nat, q.retracted \in BOOLEAN
  PROVE  ControlOK(Finish(q)) /\ Finish(q).phase = "finished"
BY DEF Finish, IdleReq, NewReq, ControlOK, ReqFields, Key

\* ControlOK depends on the control fields only.
LEMMA SameControlKeeps ==
  ASSUME NEW p, NEW q, SameControl(p, q), ControlOK(q)
  PROVE  ControlOK(p)
BY DEF SameControl, ControlOK

\* A checkpoint changes only the row and what the tree protects of it.
LEMMA CheckpointControl ==
  ASSUME NEW t, NEW q, DOMAIN q = ReqFields, NEW n
  PROVE  SameControl(Checkpoint(t, q, n).req, q) /\ SameControl(Resume(Checkpoint(t, q, n).req), q)
<1> DEFINE key == PageAligned(Truncated(q.prompt \o q.out, n))
           c == Adopt(Publish(t, q, key), q, key, Len(LongestMatch(t, key)))
<1>1. Checkpoint(t, q, n) = c
  BY DEF Checkpoint, CheckpointKey
<1>2. SameControl(c.req, q)
  BY DEF Adopt, SameControl, ReqFields
<1> HIDE DEF c
<1>3. SameControl(Resume(c.req), q)
  BY <1>2 DEF Resume, SameControl, ReqFields
<1> QED BY <1>1, <1>2, <1>3

\* A release changes no control field.
LEMMA ReleaseControl ==
  ASSUME NEW t, NEW q, DOMAIN q = ReqFields
  PROVE  SameControl(ReleaseKV(t, q, FALSE).req, q)
BY DEF ReleaseKV, FreeRow, SameControl, ReqFields

\* reset_for_retract leaves a record that can wait or finish.
LEMMA ResetControl ==
  ASSUME NEW q, ControlOK(q)
  PROVE  /\ ControlOK(ResetForRetract(q, "waiting"))
         /\ ResetForRetract(q, "waiting").phase = "waiting"
         /\ ResetForRetract(q, "waiting").retracted
         /\ ControlOK(Finish(ResetForRetract(q, "finished")))
         /\ Finish(ResetForRetract(q, "finished")).phase = "finished"
<1>1. ASSUME NEW ph \in {"waiting", "finished"}
      PROVE  ControlOK(ResetForRetract(q, ph)) /\ ResetForRetract(q, ph).phase = ph
             /\ ResetForRetract(q, ph).retracted
  BY <1>1 DEF ResetForRetract, ControlOK, ReqFields, Key
<1>2. ControlOK(ResetForRetract(q, "finished"))
  BY <1>1
<1> QED BY <1>1, <1>2, FinishControl DEF ControlOK

-----------------------------------------------------------------------------
(* Requests a step leaves alone *)

\* What was due to a request stays due while its record, and its entries in
\* the batches, stay.
LEMMA FollowedKeeps ==
  ASSUME NEW r \in Req, Followed(r), SameControl(req'[r], req[r]),
         DueOld(r)' <=> DueOld(r), DueOld(r) => last_batch' = last_batch,
         DueNew(r)' <=> DueNew(r),
         DueNew(r) => batch'.chunked = batch.chunked /\ batch'.tok[r] = batch.tok[r]
  PROVE  Followed(r)'
<1>1. OldToken(r)' = OldToken(r) /\ NewToken(r)' = NewToken(r)
  BY DEF OldToken, NewToken
<1>2. (DueOld(r) /\ last_batch.chunked = r)' <=> (DueOld(r) /\ last_batch.chunked = r)
  OBVIOUS
<1>3. (DueNew(r) /\ batch.chunked = r)' <=> (DueNew(r) /\ batch.chunked = r)
  OBVIOUS
<1>4. Fill(r)' = Fill(r) /\ (HoldsKV(r)' <=> HoldsKV(r))
  BY DEF Fill, HoldsKV, SameControl
<1>5. req'[r].middle = req[r].middle /\ req'[r].dev = req[r].dev
  BY DEF SameControl
<1> QED BY <1>1, <1>2, <1>3, <1>4, <1>5 DEF Followed, Bit

\* Nothing is due to a request that holds no KV.
LEMMA FollowedTrivially ==
  ASSUME NEW r \in Req, ~HoldsKV(r)'
  PROVE  Followed(r)'
BY DEF Followed

\* Batches hold requests.
LEMMA BatchReqs ==
  ASSUME LoopInv
  PROVE  ReqsOf(batch) \subseteq Req /\ ReqsOf(last_batch) \subseteq Req
BY DEF LoopInv, TypeOK, Batch, ReqsOf

\* None is a batch without requests.
LEMMA NoBatchOK ==
  /\ NoBatch.kind = "none" /\ NoBatch.chunked = NoReq /\ ReqsOf(NoBatch) = {}
  /\ BatchOK(NoBatch)
BY DEF NoBatch, NoTokens, ReqsOf, BatchOK

\* Where the loop receives requests it is building nothing.
LEMMA AtRecv ==
  ASSUME Control, pc = "recv"
  PROVE  /\ todo = {} /\ ReqsOf(batch) = {} /\ batch.kind = "none"
         /\ \A r \in Req : req[r].phase # "admitted" /\ ~DueNew(r)
         /\ \A r \in ReqsOf(last_batch) : HoldsKV(r) \/ Finished(r)
         /\ \A r \in running : HoldsKV(r) \/ Finished(r)
         /\ chunked # NoReq => HoldsKV(chunked)
<1>1. todo = {} /\ ReqsOf(batch) = {} /\ batch.kind = "none"
  BY DEF Control, Placed, TodoIs, BatchesAre, BatchOK
<1>2. \A r \in Req : req[r].phase # "admitted" /\ ~DueNew(r)
  BY <1>1 DEF Control, Placed, Members, DueNew
<1>3. \A r \in ReqsOf(last_batch) : HoldsKV(r) \/ Finished(r)
  BY DEF Control, Placed, Members
<1>4. \A r \in running : HoldsKV(r) \/ Finished(r)
  BY DEF Control, Placed, Members
<1>5. chunked # NoReq => HoldsKV(chunked)
  BY <1>2 DEF Control, Placed, ChunkIs, LoopInv, TypeOK
<1> QED BY <1>1, <1>2, <1>3, <1>4, <1>5

-----------------------------------------------------------------------------
(* Clients *)

\* A request outside the batches arrives or is dropped.
LEMMA OutsideControl ==
  ASSUME Control, LoopInv', pc = "recv", NEW r \in Req, r \notin running,
         r \notin ReqsOf(last_batch), r # chunked,
         UNCHANGED <<pc, todo, running, full, chunked, abort_chunk, batch, last_batch, queue>>,
         NEW q, ControlOK(q), q.phase \in {"waiting", "finished"}, req' = [req EXCEPT ![r] = q]
  PROVE  Control'
<1> USE DEF Control
<1>1. DOMAIN req = Req
  BY DEF LoopInv, TypeOK
<1>2. req'[r] = q /\ \A x \in Req \ {r} : req'[x] = req[x]
  BY <1>1
<1>3. /\ todo = {} /\ ReqsOf(batch) = {} /\ batch.kind = "none"
      /\ \A x \in ReqsOf(last_batch) : HoldsKV(x) \/ Finished(x)
      /\ \A x \in running : HoldsKV(x) \/ Finished(x)
      /\ chunked # NoReq => HoldsKV(chunked)
  BY AtRecv
<1>4. RequestsOK'
  BY <1>2 DEF RequestsOK
<1>5. QueueIs' /\ BatchesAre'
  BY DEF Placed, QueueIs, BatchesAre, BatchOK, ReqsOf
<1>6. TodoIs'
  BY <1>3 DEF TodoIs
<1>7. Members'
  <2>1. \A x \in running' : HoldsKV(x)' \/ (Finished(x)' /\ pc' \in {"recv", "process"})
    BY <1>2, <1>3 DEF HoldsKV, Finished, LoopInv, TypeOK
  <2>2. \A x \in Req : req'[x].phase # "admitted"
    BY <1>2, AtRecv
  <2>3. \A x \in Req : HoldsKV(x)' => ~req'[x].retracted
    BY <1>2 DEF Placed, Members, HoldsKV
  <2>4. ReqsOf(batch)' = {}
    BY <1>3 DEF ReqsOf
  <2>5. \A x \in ReqsOf(last_batch)' : HoldsKV(x)' \/ Finished(x)'
    BY <1>2, <1>3, BatchReqs DEF HoldsKV, Finished, ReqsOf
  <2> QED BY <2>1, <2>2, <2>3, <2>4, <2>5 DEF Members
<1>8. ChunkIs'
  <2>1. chunked # NoReq => req'[chunked] = req[chunked]
    BY <1>2 DEF LoopInv, TypeOK
  <2> QED BY <2>1 DEF Placed, ChunkIs, HoldsKV, ReqsOf
<1>9. ResultsFollowed'
  <2> SUFFICES ASSUME NEW x \in Req PROVE Followed(x)'
    BY DEF ResultsFollowed
  <2>1. CASE x = r
    BY <2>1, <1>2, FollowedTrivially DEF HoldsKV
  <2>2. CASE x # r
    <3>1. SameControl(req'[x], req[x])
      BY <1>2, <2>2 DEF RequestsOK, ControlOK, SameControl
    <3>2. (DueOld(x)' <=> DueOld(x)) /\ (DueNew(x)' <=> DueNew(x))
      BY DEF DueOld, DueNew, ReqsOf
    <3> QED BY <3>1, <3>2, FollowedKeeps DEF ResultsFollowed
  <2> QED BY <2>1, <2>2
<1> QED BY <1>4, <1>5, <1>6, <1>7, <1>8, <1>9 DEF Placed

\* handle_generate_request keeps the invariant.
LEMMA ArriveControl ==
  ASSUME Control, NEW r \in Req, Arrive(r)
  PROVE  Control'
<1>1. LoopInv'
  BY ClientKeeps DEF Client, Control
<1>2. PICK p \in Prompts : req' = [req EXCEPT ![r] = NewReq(p)]
  BY DEF Arrive
<1>3. /\ pc = "recv"
      /\ UNCHANGED <<pc, todo, running, full, chunked, abort_chunk, batch, last_batch, queue>>
      /\ req[r].phase = "idle" \/ (Finished(r) /\ r \notin Referenced)
  BY DEF Arrive, loopVars, batchVars
<1>4. ControlOK(NewReq(p)) /\ NewReq(p).phase = "waiting"
  BY PromptsAssumption, NewReqControl
<1>5. r \notin running /\ r \notin ReqsOf(last_batch) /\ r # chunked
  BY <1>3, AtRecv, ReqAssumption DEF Referenced, HoldsKV, Finished
<1> QED BY <1>1, <1>2, <1>3, <1>4, <1>5, OutsideControl

\* abort_request of a waiting request keeps the invariant.
LEMMA AbortWaitingControl ==
  ASSUME Control, NEW r \in Req, AbortWaiting(r)
  PROVE  Control'
<1>1. LoopInv'
  BY ClientKeeps DEF Client, Control
<1>2. /\ pc = "recv" /\ req[r].phase = "waiting"
      /\ UNCHANGED <<pc, todo, running, full, chunked, abort_chunk, batch, last_batch, queue>>
      /\ req' = [req EXCEPT ![r] = Finish(req[r])]
  BY DEF AbortWaiting, Waiting, loopVars, batchVars
<1>3. ControlOK(Finish(req[r])) /\ Finish(req[r]).phase = "finished"
  BY FinishControl DEF Control, RequestsOK, ControlOK
<1>4. r \notin running /\ r \notin ReqsOf(last_batch) /\ r # chunked
  BY <1>2, AtRecv, ReqAssumption DEF HoldsKV, Finished
<1> QED BY <1>1, <1>2, <1>3, <1>4, OutsideControl

\* A step that leaves the control fields of every request.
KeepsRequests == \A r \in Req : SameControl(req'[r], req[r])

\* Such a step moves no request to another phase.
LEMMA KeepsRequestsFacts ==
  ASSUME Control, KeepsRequests
  PROVE  /\ RequestsOK'
         /\ \A r \in Req : (HoldsKV(r)' <=> HoldsKV(r)) /\ (Finished(r)' <=> Finished(r))
         /\ \A r \in Req : req'[r].phase = req[r].phase /\ req'[r].retracted = req[r].retracted
BY SameControlKeeps DEF Control, RequestsOK, KeepsRequests, SameControl, HoldsKV, Finished

\* abort_request of a request with KV only marks it.
LEMMA AbortInflightControl ==
  ASSUME Control, NEW r \in Req, AbortInflight(r)
  PROVE  Control'
<1> USE DEF Control
<1>1. LoopInv'
  BY ClientKeeps DEF Client
<1>2. /\ pc = "recv" /\ UNCHANGED <<pc, todo, running, chunked, batch, last_batch, queue>>
      /\ req' = [req EXCEPT ![r].to_finish = TRUE]
      /\ abort_chunk' = (abort_chunk \/ r = chunked)
  BY DEF AbortInflight, batchVars
<1>3. KeepsRequests
  BY <1>2 DEF KeepsRequests, LoopInv, TypeOK, RequestsOK, ControlOK, SameControl, ReqFields
<1>4. /\ RequestsOK'
      /\ \A x \in Req : (HoldsKV(x)' <=> HoldsKV(x)) /\ (Finished(x)' <=> Finished(x))
      /\ \A x \in Req : req'[x].phase = req[x].phase /\ req'[x].retracted = req[x].retracted
  BY <1>3, KeepsRequestsFacts
<1>5. QueueIs' /\ BatchesAre'
  BY <1>2 DEF Placed, QueueIs, BatchesAre, BatchOK, ReqsOf
<1>6. TodoIs'
  BY <1>2, AtRecv DEF TodoIs
<1>7. Members'
  BY <1>2, <1>4, BatchReqs DEF Placed, Members, LoopInv, TypeOK, ReqsOf
<1>8. ChunkIs'
  BY <1>2, <1>4, ReqAssumption DEF Placed, ChunkIs, LoopInv, TypeOK, ReqsOf
<1>9. ResultsFollowed'
  <2> SUFFICES ASSUME NEW x \in Req PROVE Followed(x)'
    BY DEF ResultsFollowed
  <2>1. (DueOld(x)' <=> DueOld(x)) /\ (DueNew(x)' <=> DueNew(x))
    BY <1>2 DEF DueOld, DueNew, ReqsOf
  <2> QED BY <2>1, <1>2, <1>3, FollowedKeeps DEF ResultsFollowed, KeepsRequests
<1> QED BY <1>1, <1>4, <1>5, <1>6, <1>7, <1>8, <1>9 DEF Placed

\* flush_cache keeps the invariant.
LEMMA FlushCacheControl ==
  ASSUME Control, FlushCache
  PROVE  Control'
<1> USE DEF Control
<1>1. LoopInv'
  BY ClientKeeps DEF Client
<1>2. /\ pc = "recv" /\ UNCHANGED <<req, pc, todo, running, chunked, abort_chunk, batch, queue>>
      /\ last_batch' = NoBatch /\ queue = << >> /\ running = {} /\ chunked = NoReq
      /\ ReqsOf(last_batch) = {}
  BY DEF FlushCache, FullyIdle, loopVars
<1>3. KeepsRequests
  BY <1>2 DEF KeepsRequests, RequestsOK, ControlOK, SameControl
<1>4. /\ RequestsOK'
      /\ \A x \in Req : (HoldsKV(x)' <=> HoldsKV(x)) /\ (Finished(x)' <=> Finished(x))
      /\ \A x \in Req : req'[x].phase = req[x].phase /\ req'[x].retracted = req[x].retracted
  BY <1>3, KeepsRequestsFacts
<1>5. ReqsOf(last_batch)' = {} /\ ReqsOf(batch)' = ReqsOf(batch) /\ ReqsOf(batch) = {}
      /\ todo = {} /\ batch.kind = "none" /\ last_batch'.kind = "none"
  BY <1>2, NoBatchOK, AtRecv DEF ReqsOf
<1>6. QueueIs' /\ BatchesAre'
  BY <1>2, <1>5, NoBatchOK DEF Placed, QueueIs, BatchesAre, BatchOK
<1>7. TodoIs'
  BY <1>2, <1>5 DEF TodoIs
<1>8. Members'
  BY <1>2, <1>4, <1>5 DEF Placed, Members
<1>9. ChunkIs'
  BY <1>2, <1>5 DEF Placed, ChunkIs
<1>10. ResultsFollowed'
  <2> SUFFICES ASSUME NEW x \in Req PROVE Followed(x)'
    BY DEF ResultsFollowed
  <2>1. ~DueOld(x)' /\ ~DueOld(x) /\ ~DueNew(x)' /\ ~DueNew(x)
    BY <1>2, <1>5 DEF DueOld, DueNew
  <2> QED BY <2>1, <1>2, <1>3, FollowedKeeps DEF ResultsFollowed, KeepsRequests
<1> QED BY <1>1, <1>4, <1>6, <1>7, <1>8, <1>9, <1>10 DEF Placed

-----------------------------------------------------------------------------
(* A scheduling pass *)

\* The pass begins with the requests as they were, or with the chunked request
\* torn down.
LEMMA BeginPassControl ==
  ASSUME Control, LoopInv', pc = "recv", BeginPass(req', chunked'),
         chunked' \in {chunked, NoReq}, abort_chunk' = FALSE,
         \A r \in Req : \/ SameControl(req'[r], req[r])
                        \/ /\ r = chunked /\ chunked' = NoReq
                           /\ ControlOK(req'[r]) /\ req'[r].phase = "finished"
  PROVE  Control'
<1> USE DEF Control
<1>1. /\ pc' = "admit" /\ UNCHANGED <<todo, batch, last_batch, queue>>
      /\ running' = Merged(req', chunked')
  BY DEF BeginPass, batchVars
<1>2. /\ todo = {} /\ ReqsOf(batch) = {} /\ batch.kind = "none" /\ batch.chunked = NoReq
      /\ \A x \in Req : req[x].phase # "admitted" /\ ~DueNew(x)
      /\ \A x \in ReqsOf(last_batch) : HoldsKV(x) \/ Finished(x)
      /\ \A x \in running : HoldsKV(x) \/ Finished(x)
      /\ chunked # NoReq => HoldsKV(chunked)
  BY AtRecv DEF Placed, ChunkIs
<1>3. ReqsOf(batch)' = {} /\ ReqsOf(last_batch)' = ReqsOf(last_batch)
  BY <1>1, <1>2 DEF ReqsOf
<1>4. RequestsOK'
  BY SameControlKeeps DEF RequestsOK
<1>5. \A x \in Req : /\ req'[x].phase = req[x].phase \/ req'[x].phase = "finished"
                     /\ HoldsKV(x)' => HoldsKV(x) /\ SameControl(req'[x], req[x])
                     /\ Finished(x) => Finished(x)'
                     /\ HoldsKV(x) => HoldsKV(x)' \/ Finished(x)'
  BY <1>2, ReqAssumption DEF SameControl, HoldsKV, Finished
<1>6. \A x \in running' : /\ x \in running \/ x \in ReqsOf(last_batch)
                          /\ x # chunked'
                          /\ ~Finished(x)'
  <2>1. chunked' \notin running
    BY ReqAssumption DEF Placed, ChunkIs, LoopInv, TypeOK
  <2> QED BY <1>1, <2>1 DEF Merged, Finished
<1>7. running' \subseteq Req /\ ReqsOf(last_batch) \subseteq Req
  BY BatchReqs DEF LoopInv, TypeOK
<1>8. QueueIs' /\ BatchesAre'
  BY <1>1, <1>3 DEF Placed, QueueIs, BatchesAre, BatchOK
<1>9. TodoIs'
  BY <1>1, <1>2 DEF TodoIs
<1>10. Members'
  <2>1. \A x \in running' : HoldsKV(x)'
    BY <1>2, <1>5, <1>6, <1>7
  <2>2. \A x \in Req : req'[x].phase # "admitted"
    BY <1>2, <1>5
  <2>3. \A x \in Req : HoldsKV(x)' => ~req'[x].retracted
    BY <1>5 DEF Placed, Members, SameControl
  <2>4. \A x \in ReqsOf(last_batch) : HoldsKV(x)' \/ Finished(x)'
    BY <1>2, <1>5, <1>7
  <2> QED BY <1>3, <2>1, <2>2, <2>3, <2>4 DEF Members
<1>11. ChunkIs'
  <2>1. chunked' \notin running'
    BY <1>6
  <2>2. chunked' # NoReq => HoldsKV(chunked)'
    BY <1>2, ReqAssumption DEF HoldsKV, SameControl, LoopInv, TypeOK
  <2>3. chunked' # NoReq /\ chunked' \in ReqsOf(last_batch) => last_batch.chunked = chunked'
    BY DEF Placed, ChunkIs
  <2> QED BY <1>1, <1>2, <1>3, <2>1, <2>2, <2>3 DEF ChunkIs
<1>12. ResultsFollowed'
  <2> SUFFICES ASSUME NEW x \in Req PROVE Followed(x)'
    BY DEF ResultsFollowed
  <2>1. CASE ~HoldsKV(x)'
    BY <2>1, FollowedTrivially
  <2>2. CASE HoldsKV(x)'
    <3>1. (DueOld(x)' <=> DueOld(x)) /\ (DueNew(x)' <=> DueNew(x))
      BY <1>1, <1>2, <1>3 DEF DueOld, DueNew
    <3> QED BY <1>1, <1>5, <2>2, <3>1, FollowedKeeps DEF ResultsFollowed
  <2> QED BY <2>1, <2>2
<1> QED BY <1>4, <1>8, <1>9, <1>10, <1>11, <1>12 DEF Placed

\* A pass without a chunked request keeps the invariant.
LEMMA ScheduleControl ==
  ASSUME Control, Schedule
  PROVE  Control'
<1>1. LoopInv'
  BY ScheduleKeeps DEF Control
<1>2. /\ pc = "recv" /\ chunked = NoReq /\ BeginPass(req, NoReq)
      /\ UNCHANGED <<req, chunked, abort_chunk>>
  BY DEF Schedule
<1>3. BeginPass(req', chunked')
  BY <1>2
<1>4. abort_chunk' = FALSE
  BY <1>2 DEF Control, LoopInv, TypeOK, Placed, ChunkIs
<1>5. \A r \in Req : SameControl(req'[r], req[r])
  BY <1>2 DEF Control, RequestsOK, ControlOK, SameControl
<1> QED BY <1>1, <1>2, <1>3, <1>4, <1>5, BeginPassControl

\* Stashing the chunked request before the pass keeps the invariant.
LEMMA StashChunkControl ==
  ASSUME Control, StashChunk
  PROVE  Control'
<1> DEFINE q == req[chunked]
           c == Checkpoint(tree, q, q.extend_end)
<1>1. LoopInv'
  BY StashChunkKeeps DEF Control
<1>2. /\ pc = "recv" /\ chunked # NoReq /\ BeginPass(req', chunked)
      /\ UNCHANGED <<chunked, abort_chunk>> /\ ~abort_chunk
      /\ req' = [req EXCEPT ![chunked] = Resume(c.req)] \/ req' = req
  BY DEF StashChunk, Effect
<1>3. chunked \in Req /\ DOMAIN req = Req
  BY <1>2 DEF Control, LoopInv, TypeOK
<1>4. \A r \in Req : DOMAIN req[r] = ReqFields
  BY DEF Control, RequestsOK, ControlOK
<1>5. SameControl(Resume(c.req), q)
  BY <1>3, <1>4, CheckpointControl
<1> HIDE DEF c
<1>6. \A r \in Req : SameControl(req'[r], req[r])
  <2> TAKE r \in Req
  <2>1. SameControl(req[r], req[r])
    BY <1>4 DEF SameControl
  <2> QED BY <1>2, <1>3, <1>5, <2>1
<1>7. BeginPass(req', chunked') /\ abort_chunk' = FALSE
  BY <1>2 DEF Control, LoopInv, TypeOK
<1> QED BY <1>1, <1>2, <1>6, <1>7, BeginPassControl

\* Tearing down an aborted chunked request keeps the invariant.
LEMMA AbortChunkControl ==
  ASSUME Control, AbortChunk
  PROVE  Control'
<1>1. LoopInv'
  BY AbortChunkKeeps DEF Control
<1>2. /\ pc = "recv" /\ chunked # NoReq /\ BeginPass(req', NoReq)
      /\ chunked' = NoReq /\ abort_chunk' = FALSE
      /\ req' = [req EXCEPT ![chunked] = Finish(req[chunked])]
  BY DEF AbortChunk, Effect
<1>3. chunked \in Req /\ DOMAIN req = Req
  BY <1>2 DEF Control, LoopInv, TypeOK
<1>4. ControlOK(Finish(req[chunked])) /\ Finish(req[chunked]).phase = "finished"
  BY <1>3, FinishControl DEF Control, RequestsOK, ControlOK
<1>5. \A r \in Req : r # chunked => SameControl(req'[r], req[r])
  BY <1>2, <1>3 DEF Control, RequestsOK, ControlOK, SameControl
<1>6. req'[chunked] = Finish(req[chunked])
  BY <1>2, <1>3
<1>7. BeginPass(req', chunked')
  BY <1>2
<1> QED BY <1>1, <1>2, <1>4, <1>5, <1>6, <1>7, BeginPassControl

\* While the pass admits requests no batch is under construction and only the
\* requests in todo are admitted.
LEMMA AtAdmit ==
  ASSUME Control, pc = "admit"
  PROVE  /\ ReqsOf(batch) = {} /\ batch.kind = "none"
         /\ ReqsOf(last_batch) \subseteq Req /\ running \subseteq Req /\ todo \subseteq Req
         /\ \A r \in Req : ~DueNew(r)
         /\ \A r \in Req : req[r].phase = "admitted" => r \in todo
         /\ \A r \in running : HoldsKV(r)
         /\ \A r \in ReqsOf(last_batch) : HoldsKV(r) \/ Finished(r)
         /\ \A r \in todo : ToExtend(r)
<1>1. ReqsOf(batch) = {} /\ batch.kind = "none"
  BY DEF Control, Placed, BatchesAre, BatchOK
<1>2. \A r \in Req : ~DueNew(r)
  BY <1>1 DEF DueNew
<1>3. ReqsOf(last_batch) \subseteq Req /\ running \subseteq Req /\ todo \subseteq Req
  BY BatchReqs DEF Control, LoopInv, TypeOK
<1> QED BY <1>1, <1>2, <1>3 DEF Control, Placed, Members, TodoIs

\* A step of the pass that adds one request, or none, to it.
LEMMA PassStepControl ==
  ASSUME Control, LoopInv', pc = "admit", pc' = "admit",
         UNCHANGED <<running, abort_chunk, last_batch, queue>>,
         NEW c, c = chunked', batch' = [batch EXCEPT !.chunked = c],
         c # NoReq => c \in todo',
         NEW r \in Req, todo' = todo \cup {r},
         r \notin running, HoldsKV(r)' \/ req'[r].phase = "admitted",
         ControlOK(req'[r]),
         \A x \in Req : HoldsKV(x)' \/ x # r => SameControl(req'[x], req[x]),
         r \in ReqsOf(last_batch) => last_batch.chunked = r /\ HoldsKV(r)',
         c \in {NoReq, chunked, r},
         req[r].phase # "admitted"
  PROVE  Control'
<1> USE DEF Control
<1>1. /\ ReqsOf(batch) = {} /\ batch.kind = "none"
      /\ ReqsOf(last_batch) \subseteq Req /\ running \subseteq Req /\ todo \subseteq Req
      /\ \A x \in Req : ~DueNew(x)
      /\ \A x \in Req : req[x].phase = "admitted" => x \in todo
      /\ \A x \in running : HoldsKV(x)
      /\ \A x \in ReqsOf(last_batch) : HoldsKV(x) \/ Finished(x)
      /\ \A x \in todo : ToExtend(x)
  BY AtAdmit
<1>2. batch \in Batch
  BY DEF LoopInv, TypeOK
<1>3. batch'.kind = "none" /\ batch'.chunked = c /\ ReqsOf(batch') = {}
  BY <1>1, <1>2 DEF Batch, ReqsOf
<1>4. \A x \in Req \ {r} : SameControl(req'[x], req[x])
  OBVIOUS
<1>5. \A x \in Req \ {r} : (HoldsKV(x)' <=> HoldsKV(x)) /\ (Finished(x)' <=> Finished(x))
                           /\ req'[x].phase = req[x].phase /\ req'[x].retracted = req[x].retracted
  BY <1>4 DEF HoldsKV, Finished, SameControl
<1>6. RequestsOK'
  BY <1>4, SameControlKeeps DEF RequestsOK
<1>7. QueueIs'
  BY <1>3 DEF QueueIs, Placed
<1>8. BatchesAre'
  BY <1>3, ReqAssumption DEF BatchesAre, Placed, BatchOK, ReqsOf
<1>9. TodoIs'
  <2>1. \A x \in todo' : ToExtend(x)'
    <3> TAKE x \in todo'
    <3>1. CASE x = r
      BY <3>1, <1>3 DEF ToExtend, ReqsOf
    <3>2. CASE x # r
      BY <3>2, <1>1, <1>3, <1>5 DEF ToExtend, ReqsOf
    <3> QED BY <3>1, <3>2
  <2> QED BY <2>1 DEF TodoIs
<1>10. Members'
  <2>1. \A x \in running' : HoldsKV(x)'
    BY <1>1, <1>5
  <2>2. \A x \in Req : req'[x].phase = "admitted" => x \in todo'
    BY <1>1, <1>5
  <2>3. \A x \in Req : HoldsKV(x)' => ~req'[x].retracted
    BY DEF Placed, Members, SameControl, HoldsKV
  <2>4. \A x \in ReqsOf(last_batch) : HoldsKV(x)' \/ Finished(x)'
    BY <1>1, <1>5
  <2> QED BY <1>3, <2>1, <2>2, <2>3, <2>4 DEF Members, ReqsOf
<1>11. ChunkIs'
  <2>1. c \notin running
    BY <1>1, ReqAssumption DEF Placed, ChunkIs
  <2>2. c # NoReq => HoldsKV(c)' \/ req'[c].phase = "admitted"
    <3>1. CASE c = r
      BY <3>1
    <3>2. CASE c # r /\ c # NoReq
      <4>1. c \in Req \ {r}
        BY <3>2, <1>1
      <4> QED BY <4>1, <3>2, <1>5 DEF Placed, ChunkIs
    <3> QED BY <3>1, <3>2
  <2>3. c # NoReq /\ c \in ReqsOf(last_batch) => last_batch.chunked = c
    BY DEF Placed, ChunkIs
  <2>4. ~abort_chunk
    BY DEF Placed, ChunkIs
  <2> QED BY <1>3, <2>1, <2>2, <2>3, <2>4 DEF ChunkIs, ReqsOf
<1>12. ResultsFollowed'
  <2> SUFFICES ASSUME NEW x \in Req PROVE Followed(x)'
    BY DEF ResultsFollowed
  <2>1. CASE ~HoldsKV(x)'
    BY <2>1, FollowedTrivially
  <2>2. CASE HoldsKV(x)'
    <3>1. (DueOld(x)' <=> DueOld(x)) /\ ~DueNew(x)' /\ ~DueNew(x)
      BY <1>1, <1>3 DEF DueOld, DueNew, ReqsOf
    <3> QED BY <2>2, <3>1, FollowedKeeps DEF ResultsFollowed
  <2> QED BY <2>1, <2>2
<1> QED BY <1>6, <1>7, <1>8, <1>9, <1>10, <1>11, <1>12 DEF Placed

\* add_chunked_req keeps the invariant.
LEMMA AddChunkedReqControl ==
  ASSUME Control, AddChunkedReq
  PROVE  Control'
<1>1. LoopInv'
  BY AddChunkedReqKeeps DEF Control
<1>2. /\ pc = "admit" /\ pc' = "admit" /\ chunked \notin todo /\ chunked # NoReq
      /\ UNCHANGED <<running, abort_chunk, last_batch, queue>>
      /\ todo' = todo \cup {chunked} /\ batch' = [batch EXCEPT !.chunked = chunked']
      /\ chunked' \in {NoReq, chunked}
      /\ \E n : req' = [req EXCEPT ![chunked].extend_end = n]
  BY DEF AddChunkedReq
<1>3. chunked \in Req /\ DOMAIN req = Req /\ \A x \in Req : DOMAIN req[x] = ReqFields
  BY <1>2 DEF Control, LoopInv, TypeOK, RequestsOK, ControlOK
<1>4. PICK n : req' = [req EXCEPT ![chunked].extend_end = n]
  BY <1>2
<1>5. \A x \in Req : SameControl(req'[x], req[x])
  BY <1>3, <1>4 DEF SameControl, ReqFields
<1>6. HoldsKV(chunked) /\ chunked \notin running /\ req[chunked].phase # "admitted"
      /\ (chunked \in ReqsOf(last_batch) => last_batch.chunked = chunked)
  BY <1>2, <1>3, AtAdmit DEF Control, Placed, ChunkIs
<1>7. PICK r \in Req : r = chunked
  BY <1>3
<1>8. HoldsKV(r)' /\ ControlOK(req'[r])
  <2>1. req'[r].phase = req[r].phase
    BY <1>5 DEF SameControl
  <2>2. ControlOK(req'[r])
    BY <1>5, SameControlKeeps DEF Control, RequestsOK
  <2>3. req'[r].phase = "running"
    BY <1>7, <2>1, <1>6 DEF HoldsKV
  <2> QED BY <2>2, <2>3 DEF HoldsKV
<1> QED BY <1>1, <1>2, <1>5, <1>6, <1>7, <1>8, PassStepControl

\* An admission while no request is being chunked.
LEMMA AdmitControl ==
  ASSUME Control, NEW r \in Req, Admit(r), chunked = NoReq
  PROVE  Control'
<1>1. LoopInv'
  BY AdmitKeeps DEF Control
<1>2. PICK m : Admitted(r, m, Pinned(m))
  BY DEF Admit
<1>3. /\ pc = "admit" /\ pc' = "admit" /\ req[r].phase = "waiting"
      /\ UNCHANGED <<running, abort_chunk, last_batch, queue>>
      /\ todo' = todo \cup {r} /\ batch' = [batch EXCEPT !.chunked = chunked']
      /\ chunked' \in {NoReq, r}
      /\ \E n : req' = [req EXCEPT ![r] =
                          [@ EXCEPT !.phase = "admitted", !.prefix = Len(m),
                                    !.protected = Len(m), !.lock = m,
                                    !.extend_end = n]]
  BY <1>2 DEF Admit, PassOpen, Waiting, Admitted
<1>4. DOMAIN req = Req /\ \A x \in Req : ControlOK(req[x]) /\ DOMAIN req[x] = ReqFields
  BY DEF Control, LoopInv, TypeOK, RequestsOK, ControlOK
<1>5. PICK n : req' = [req EXCEPT ![r] =
                          [@ EXCEPT !.phase = "admitted", !.prefix = Len(m),
                                    !.protected = Len(m), !.lock = m,
                                    !.extend_end = n]]
  BY <1>3
<1>6. \A x \in Req : x # r => SameControl(req'[x], req[x])
  BY <1>4, <1>5 DEF SameControl, ReqFields
<1>7. req'[r].phase = "admitted" /\ ControlOK(req'[r])
  <2>1. /\ DOMAIN req'[r] = ReqFields /\ req'[r].phase = "admitted"
        /\ req'[r].prompt = req[r].prompt /\ req'[r].out = req[r].out
        /\ req'[r].dev = req[r].dev /\ req'[r].middle = req[r].middle
        /\ req'[r].retracted = req[r].retracted
    BY <1>4, <1>5 DEF ReqFields
  <2> QED BY <1>3, <1>4, <2>1 DEF ControlOK
<1>8. r \notin running /\ r \notin ReqsOf(last_batch)
  BY <1>3, AtAdmit DEF HoldsKV, Finished
<1>9. ~HoldsKV(r)'
  BY <1>7 DEF HoldsKV
<1> QED BY <1>1, <1>3, <1>6, <1>7, <1>8, <1>9, PassStepControl

\* The pass hands its requests to the extend batch, or the iteration to the
\* running batch.
LEMMA EndPassControl ==
  ASSUME Control, LoopInv', pc = "admit", chunked \in todo \cup {NoReq}, EndPass(todo),
         UNCHANGED <<todo, running, chunked, abort_chunk, batch, last_batch, queue>>,
         KeepsRequests
  PROVE  Control'
<1> USE DEF Control
<1>1. /\ ReqsOf(batch) = {} /\ batch.kind = "none"
      /\ ReqsOf(last_batch) \subseteq Req /\ running \subseteq Req /\ todo \subseteq Req
      /\ \A x \in Req : ~DueNew(x)
      /\ \A x \in Req : req[x].phase = "admitted" => x \in todo
      /\ \A x \in running : HoldsKV(x)
      /\ \A x \in ReqsOf(last_batch) : HoldsKV(x) \/ Finished(x)
      /\ \A x \in todo : ToExtend(x)
  BY AtAdmit
<1>2. pc' = (IF todo = {} THEN "decode" ELSE "extend")
  BY DEF EndPass
<1>3. /\ RequestsOK'
      /\ \A x \in Req : (HoldsKV(x)' <=> HoldsKV(x)) /\ (Finished(x)' <=> Finished(x))
      /\ \A x \in Req : req'[x].phase = req[x].phase /\ req'[x].retracted = req[x].retracted
  BY KeepsRequestsFacts
<1>4. ReqsOf(batch)' = {} /\ ReqsOf(last_batch)' = ReqsOf(last_batch)
  BY <1>1 DEF ReqsOf
<1>5. QueueIs' /\ BatchesAre'
  BY <1>1, <1>2, <1>4 DEF Placed, QueueIs, BatchesAre, BatchOK
<1>6. TodoIs'
  BY <1>1, <1>2, <1>3, <1>4 DEF TodoIs, ToExtend
<1>7. Members'
  BY <1>1, <1>2, <1>3, <1>4 DEF Placed, Members
<1>8. ChunkIs'
  <2>1. chunked # NoReq => chunked \in Req
    BY <1>1
  <2>2. chunked # NoReq => pc' = "extend"
    BY <1>2
  <2>3. chunked' # NoReq => HoldsKV(chunked)' \/ req'[chunked'].phase = "admitted"
    BY <2>1, <1>3 DEF Placed, ChunkIs, HoldsKV
  <2> QED BY <1>2, <2>2, <2>3, <1>4 DEF Placed, ChunkIs
<1>9. ResultsFollowed'
  <2> SUFFICES ASSUME NEW x \in Req PROVE Followed(x)'
    BY DEF ResultsFollowed
  <2>1. (DueOld(x)' <=> DueOld(x)) /\ ~DueNew(x)' /\ ~DueNew(x)
    BY <1>1, <1>2, <1>4 DEF DueOld, DueNew
  <2> QED BY <2>1, FollowedKeeps DEF ResultsFollowed, KeepsRequests
<1> QED BY <1>3, <1>5, <1>6, <1>7, <1>8, <1>9 DEF Placed

\* A pass that ends at a request it rejects keeps the invariant.
LEMMA RejectControl ==
  ASSUME Control, NEW r \in Req, Reject(r)
  PROVE  Control'
<1>1. LoopInv'
  BY RejectKeeps DEF Control
<1>2. /\ pc = "admit" /\ chunked \in todo \cup {NoReq} /\ EndPass(todo)
      /\ UNCHANGED <<todo, running, chunked, abort_chunk, batch, last_batch, queue>>
      /\ \E m : req' = [req EXCEPT ![r].prefix = Len(m), ![r].protected = Len(m)]
  BY DEF Reject, PassOpen, batchVars
<1>3. DOMAIN req = Req /\ \A x \in Req : DOMAIN req[x] = ReqFields
  BY DEF Control, LoopInv, TypeOK, RequestsOK, ControlOK
<1>4. KeepsRequests
  BY <1>2, <1>3 DEF KeepsRequests, SameControl, ReqFields
<1> QED BY <1>1, <1>2, <1>4, EndPassControl

\* A pass that runs out of requests keeps the invariant.
LEMMA ClosePassControl ==
  ASSUME Control, ClosePass
  PROVE  Control'
<1>1. LoopInv'
  BY ClosePassKeeps DEF Control
<1>2. /\ pc = "admit" /\ chunked \in todo \cup {NoReq} /\ EndPass(todo)
      /\ UNCHANGED <<req, todo, running, chunked, abort_chunk, batch, last_batch, queue>>
  BY DEF ClosePass, batchVars
<1>3. KeepsRequests
  BY <1>2 DEF KeepsRequests, Control, RequestsOK, ControlOK, SameControl
<1> QED BY <1>1, <1>2, <1>3, EndPassControl

-----------------------------------------------------------------------------
(* The running batch *)

\* The result an iteration without a new batch processes.
LEMMA NothingLaunched ==
  ASSUME Control, pc # "process"
  PROVE  ToProcess(queue) = IF Overlap THEN ReqsOf(last_batch) ELSE {}
<1>1. queue = IF Overlap /\ last_batch.kind # "none" THEN <<last_batch>> ELSE << >>
  BY DEF Control, Placed, QueueIs
<1>2. last_batch.kind = "none" => ReqsOf(last_batch) = {}
  BY DEF Control, Placed, BatchesAre, BatchOK
<1>3. CASE Overlap /\ last_batch.kind # "none"
  <2>1. queue = <<last_batch>> /\ queue # << >> /\ Head(queue) = last_batch
    BY <1>1, <1>3
  <2> QED BY <2>1, <1>3 DEF ToProcess, Pops
<1>4. CASE ~(Overlap /\ last_batch.kind # "none")
  BY <1>1, <1>2, <1>4 DEF ToProcess, Pops
<1> QED BY <1>3, <1>4

\* A step that takes requests out of the running batch, or retracts one.
LEMMA DecodeStepControl ==
  ASSUME Control, LoopInv', pc \in {"decode", "retract"}, running' \subseteq running,
         UNCHANGED <<chunked, abort_chunk, batch, last_batch, queue>>,
         \/ pc' = "retract" /\ todo' = {}
         \/ pc' = "alloc_decode" /\ todo' = running'
         \/ NoBatchToRun,
         \A x \in Req :
           \/ SameControl(req'[x], req[x])
           \/ /\ x \notin running' /\ ControlOK(req'[x])
              /\ \/ req'[x].phase = "finished"
                 \/ req'[x].phase = "waiting" /\ req'[x].retracted
  PROVE  Control'
<1> USE DEF Control
<1>1. /\ ReqsOf(batch) = {} /\ batch.kind = "none" /\ todo = {} /\ chunked = NoReq
      /\ batch.chunked = NoReq /\ ~abort_chunk
  BY DEF Placed, BatchesAre, BatchOK, TodoIs, ChunkIs
<1>2. ReqsOf(last_batch) \subseteq Req /\ running \subseteq Req /\ NoReq \notin Req
  BY BatchReqs, ReqAssumption DEF LoopInv, TypeOK
<1>3. /\ \A x \in running : HoldsKV(x)
      /\ \A x \in Req : req[x].phase # "admitted" /\ ~DueNew(x)
      /\ \A x \in ReqsOf(last_batch) :
           HoldsKV(x) \/ Finished(x) \/ (req[x].phase = "waiting" /\ req[x].retracted)
  BY <1>1 DEF Placed, Members, DueNew
<1>4. ReqsOf(batch)' = {} /\ ReqsOf(last_batch)' = ReqsOf(last_batch)
  BY <1>1 DEF ReqsOf
<1>5. /\ pc' \in {"retract", "alloc_decode", "process"}
      /\ pc' = "process" => todo' = IF Overlap THEN ReqsOf(last_batch) ELSE {}
      /\ pc' = "retract" => todo' = {}
      /\ pc' = "alloc_decode" => todo' = running'
  BY NothingLaunched DEF NoBatchToRun
<1>6. RequestsOK'
  BY SameControlKeeps DEF RequestsOK
<1>7. \A x \in Req : HoldsKV(x)' => HoldsKV(x) /\ SameControl(req'[x], req[x])
  BY DEF HoldsKV, SameControl
<1>8. QueueIs' /\ BatchesAre'
  BY <1>1, <1>4, <1>5 DEF Placed, QueueIs, BatchesAre, BatchOK
<1>9. TodoIs'
  BY <1>1, <1>4, <1>5 DEF TodoIs
<1>10. Members'
  <2>1. \A x \in running' : HoldsKV(x)'
    BY <1>2, <1>3 DEF HoldsKV, SameControl
  <2>2. \A x \in Req : req'[x].phase # "admitted"
    BY <1>3 DEF SameControl
  <2>3. \A x \in Req : HoldsKV(x)' => ~req'[x].retracted
    BY <1>7 DEF Placed, Members, SameControl
  <2>4. \A x \in ReqsOf(last_batch) :
          HoldsKV(x)' \/ Finished(x)' \/ (req'[x].phase = "waiting" /\ req'[x].retracted)
    BY <1>2, <1>3 DEF HoldsKV, Finished, SameControl
  <2> QED BY <1>4, <1>5, <2>1, <2>2, <2>3, <2>4 DEF Members
<1>11. ChunkIs'
  BY <1>1, <1>2, <1>5 DEF ChunkIs
<1>12. ResultsFollowed'
  <2> SUFFICES ASSUME NEW x \in Req PROVE Followed(x)'
    BY DEF ResultsFollowed
  <2>1. CASE ~HoldsKV(x)'
    BY <2>1, FollowedTrivially
  <2>2. CASE HoldsKV(x)'
    <3>1. (DueOld(x)' <=> DueOld(x)) /\ ~DueNew(x)' /\ ~DueNew(x)
      BY <1>3, <1>4, <1>5 DEF DueOld, DueNew
    <3> QED BY <1>7, <2>2, <3>1, FollowedKeeps DEF ResultsFollowed
  <2> QED BY <2>1, <2>2
<1> QED BY <1>6, <1>8, <1>9, <1>10, <1>11, <1>12 DEF Placed

\* update_running_batch keeps the invariant.
LEMMA UpdateRunningBatchControl ==
  ASSUME Control, UpdateRunningBatch
  PROVE  Control'
<1>1. LoopInv'
  BY UpdateRunningBatchKeeps DEF Control
<1> DEFINE run == running \ FinishingInflight
<1>2. /\ pc = "decode" /\ running' = run
      /\ UNCHANGED <<req, chunked, abort_chunk, batch, last_batch, queue>>
      /\ \/ pc' = "retract" /\ todo' = {}
         \/ pc' = "alloc_decode" /\ todo' = run
         \/ NoBatchToRun
  BY DEF UpdateRunningBatch, batchVars
<1>3. \A x \in Req : SameControl(req'[x], req[x])
  BY <1>2 DEF Control, RequestsOK, ControlOK, SameControl
<1> QED BY <1>1, <1>2, <1>3, DecodeStepControl

\* retract_decode of one request keeps the invariant.
LEMMA RetractControl ==
  ASSUME Control, NEW r \in Req, Retract(r)
  PROVE  Control'
<1>1. LoopInv'
  BY RetractKeeps DEF Control
<1>2. pc = "retract" /\ r \in running
  BY DEF Retract
<1>3. DOMAIN req = Req /\ \A x \in Req : ControlOK(req[x]) /\ DOMAIN req[x] = ReqFields
  BY DEF Control, LoopInv, TypeOK, RequestsOK, ControlOK
<1>4. todo = {}
  BY <1>2 DEF Control, Placed, TodoIs
<1> DEFINE rel == ReleaseKV(tree, req[r], FALSE)
<1>5. SameControl(rel.req, req[r])
  BY <1>3, ReleaseControl
<1>6. ControlOK(rel.req)
  BY <1>3, <1>5, SameControlKeeps
<1> HIDE DEF rel
<1>7. CASE running # {r}
  <2> DEFINE q == ResetForRetract(rel.req, "waiting")
  <2>1. RetractOne(r)
    BY <1>7 DEF Retract
  <2>2. /\ running' = running \ {r} /\ req' = [req EXCEPT ![r] = q]
        /\ UNCHANGED <<chunked, abort_chunk, batch, last_batch, queue>>
        /\ \/ pc' = "alloc_decode" /\ todo' = running'
           \/ pc' = pc /\ todo' = todo
    BY <2>1 DEF RetractOne, rel, batchVars
  <2>3. ControlOK(q) /\ q.phase = "waiting" /\ q.retracted
    BY <1>6, ResetControl
  <2> HIDE DEF q
  <2>4. \A x \in Req : x # r => SameControl(req'[x], req[x])
    BY <1>3, <2>2 DEF SameControl
  <2>5. req'[r] = q
    BY <1>3, <2>2
  <2> QED BY <1>1, <1>2, <1>4, <2>2, <2>3, <2>4, <2>5, DecodeStepControl
<1>8. CASE running = {r}
  <2> DEFINE q == Finish(ResetForRetract(req[r], "finished"))
  <2>1. AbortLast(r)
    BY <1>8 DEF Retract
  <2>2. /\ running' = {} /\ req' = [req EXCEPT ![r] = q] /\ NoBatchToRun
        /\ UNCHANGED <<chunked, abort_chunk, batch, last_batch, queue>>
    BY <2>1 DEF AbortLast, Effect, batchVars
  <2>3. ControlOK(q) /\ q.phase = "finished"
    BY <1>3, ResetControl
  <2> HIDE DEF q
  <2>4. \A x \in Req : x # r => SameControl(req'[x], req[x])
    BY <1>3, <2>2 DEF SameControl
  <2>5. req'[r] = q
    BY <1>3, <2>2
  <2> QED BY <1>1, <1>2, <2>2, <2>3, <2>4, <2>5, DecodeStepControl
<1> QED BY <1>7, <1>8

-----------------------------------------------------------------------------
(* Building and launching a batch *)

\* A batch being built: its requests hold KV, and so do the running ones.
LEMMA AtBuild ==
  ASSUME Control, pc \in {"extend", "alloc_decode"}
  PROVE  /\ ReqsOf(batch) \subseteq Req /\ ReqsOf(last_batch) \subseteq Req
         /\ running \subseteq Req /\ todo \subseteq Req
         /\ \A x \in running \cup ReqsOf(batch) : HoldsKV(x)
         /\ \A x \in todo : x \notin ReqsOf(batch)
         /\ \A x \in todo : HoldsKV(x) \/ (req[x].phase = "admitted" /\ x \notin ReqsOf(last_batch))
         /\ batch.chunked = chunked /\ ~abort_chunk
         /\ queue = IF Overlap /\ last_batch.kind # "none" THEN <<last_batch>> ELSE << >>
         /\ last_batch.kind = "none" => ReqsOf(last_batch) = {}
<1>1. /\ ReqsOf(batch) \subseteq Req /\ ReqsOf(last_batch) \subseteq Req
      /\ running \subseteq Req /\ todo \subseteq Req
  BY BatchReqs DEF Control, LoopInv, TypeOK
<1>2. \A x \in running \cup ReqsOf(batch) : HoldsKV(x)
  BY DEF Control, Placed, Members
<1>3. \A x \in todo : x \notin ReqsOf(batch)
  BY DEF Control, Placed, TodoIs, ToExtend
<1>4. \A x \in todo : HoldsKV(x) \/ (req[x].phase = "admitted" /\ x \notin ReqsOf(last_batch))
  BY <1>2 DEF Control, Placed, TodoIs, ToExtend, HoldsKV
<1>5. batch.chunked = chunked /\ ~abort_chunk
  BY DEF Control, Placed, ChunkIs
<1>6. queue = IF Overlap /\ last_batch.kind # "none" THEN <<last_batch>> ELSE << >>
  BY DEF Control, Placed, QueueIs
<1>7. last_batch.kind = "none" => ReqsOf(last_batch) = {}
  BY DEF Control, Placed, BatchesAre, BatchOK
<1> QED BY <1>1, <1>2, <1>3, <1>4, <1>5, <1>6, <1>7

\* An allocation that fails stops the loop with the invariant intact.
LEMMA CrashControl ==
  ASSUME Control, LoopInv', pc \in {"extend", "alloc_decode"}, Crash
  PROVE  Control'
<1> USE DEF Control
<1>1. /\ pc' = "crashed"
      /\ UNCHANGED <<req, todo, running, chunked, abort_chunk, batch, last_batch, queue>>
  BY DEF Crash, loopVars, batchVars
<1>2. KeepsRequests
  BY <1>1 DEF KeepsRequests, RequestsOK, ControlOK, SameControl
<1>3. RequestsOK' /\ \A x \in Req : (HoldsKV(x)' <=> HoldsKV(x)) /\ (Finished(x)' <=> Finished(x))
  BY <1>2, KeepsRequestsFacts
<1>4. ReqsOf(batch)' = ReqsOf(batch) /\ ReqsOf(last_batch)' = ReqsOf(last_batch)
  BY <1>1 DEF ReqsOf
<1>5. QueueIs' /\ BatchesAre'
  BY <1>1, <1>4 DEF Placed, QueueIs, BatchesAre, BatchOK
<1>6. TodoIs'
  BY <1>1 DEF TodoIs
<1>7. Members'
  BY <1>1, <1>3, <1>4, AtBuild DEF Placed, Members
<1>8. ChunkIs'
  BY <1>1, <1>4, AtBuild DEF Placed, ChunkIs, HoldsKV
<1>9. ResultsFollowed'
  <2> SUFFICES ASSUME NEW x \in Req PROVE Followed(x)'
    BY DEF ResultsFollowed
  <2>1. (DueOld(x)' <=> DueOld(x)) /\ (DueNew(x)' <=> DueNew(x))
    BY <1>1, <1>4 DEF DueOld, DueNew
  <2> QED BY <1>1, <1>2, <2>1, FollowedKeeps DEF ResultsFollowed, KeepsRequests
<1> QED BY <1>3, <1>5, <1>6, <1>7, <1>8, <1>9 DEF Placed

\* What the launch of one request does to the batch and to what is due.
LEMMA LaunchFacts ==
  ASSUME Control, pc \in {"extend", "alloc_decode"}, NEW r \in todo,
         NEW kind \in {"extend", "decode"}, NEW tok, AddToBatch(kind, r, tok),
         last_batch' = last_batch
  PROVE  /\ ReqsOf(batch)' = ReqsOf(batch) \cup {r}
         /\ batch'.kind = kind /\ batch'.chunked = batch.chunked
         /\ batch'.tok[r] = tok /\ \A x \in ReqsOf(batch) : batch'.tok[x] = batch.tok[x]
         /\ \/ /\ todo # {r} /\ todo' = todo \ {r} /\ pc' = pc /\ queue' = queue
            \/ /\ todo = {r} /\ pc' = "process" /\ queue' = queue \o <<batch'>>
               /\ todo' = ReqsOf(IF Overlap THEN last_batch ELSE batch')
         /\ \A x \in Req : DueOld(x)' <=> DueOld(x)
         /\ \A x \in Req : DueNew(x)' <=> DueNew(x) \/ x = r
         /\ ~DueNew(r)
<1> DEFINE b == [batch EXCEPT !.kind = kind,
                              !.tok = [x \in ReqsOf(batch) \cup {r} |->
                                         IF x = r THEN tok ELSE batch.tok[x]]]
<1>1. /\ batch' = b
      /\ IF todo = {r}
         THEN queue' = Append(queue, b) /\ todo' = ToProcess(queue') /\ pc' = "process"
         ELSE todo' = todo \ {r} /\ UNCHANGED <<queue, pc>>
  BY DEF AddToBatch
<1>2. batch \in Batch /\ queue \in Seq(Batch)
  BY DEF Control, LoopInv, TypeOK
<1>3. /\ b.kind = kind /\ b.chunked = batch.chunked
      /\ b.tok = [x \in ReqsOf(batch) \cup {r} |-> IF x = r THEN tok ELSE batch.tok[x]]
  BY <1>2 DEF Batch
<1> HIDE DEF b
<1>4. ReqsOf(b) = ReqsOf(batch) \cup {r}
  BY <1>3 DEF ReqsOf
<1>5. b.tok[r] = tok /\ \A x \in ReqsOf(batch) : x # r => b.tok[x] = batch.tok[x]
  BY <1>3
<1>6. r \notin ReqsOf(batch)
  BY AtBuild
<1>7. queue' = Append(queue, b) => ToProcess(queue') = ReqsOf(IF Overlap THEN last_batch ELSE b)
  <2> SUFFICES ASSUME queue' = Append(queue, b)
               PROVE  ToProcess(queue') = ReqsOf(IF Overlap THEN last_batch ELSE b)
    OBVIOUS
  <2>1. queue = IF Overlap /\ last_batch.kind # "none" THEN <<last_batch>> ELSE << >>
    BY AtBuild
  <2>2. CASE Overlap /\ last_batch.kind # "none"
    <3>1. queue = <<last_batch>>
      BY <2>1, <2>2
    <3>2. queue' # << >> /\ Head(queue') = last_batch
      <4>1. Len(queue) = 1 /\ queue[1] = last_batch
        BY <3>1
      <4>2. queue' # << >> /\ Head(queue') = queue'[1] /\ queue'[1] = queue[1]
        BY <1>2, <4>1
      <4> QED BY <4>1, <4>2
    <3> QED BY <2>2, <3>2 DEF ToProcess, Pops
  <2>3. CASE Overlap /\ last_batch.kind = "none"
    BY <2>3, AtBuild DEF ToProcess, Pops
  <2>4. CASE ~Overlap
    <3>1. queue' = <<b>>
      BY <2>1, <2>4
    <3>2. queue' # << >> /\ Head(queue') = b
      BY <3>1
    <3> QED BY <2>4, <3>2 DEF ToProcess, Pops
  <2> QED BY <2>2, <2>3, <2>4
<1>8. \/ /\ todo # {r} /\ todo' = todo \ {r} /\ pc' = pc /\ queue' = queue
      \/ /\ todo = {r} /\ pc' = "process" /\ queue' = queue \o <<batch'>>
         /\ todo' = ReqsOf(IF Overlap THEN last_batch ELSE batch')
  BY <1>1, <1>2, <1>7
<1>9. ReqsOf(batch)' = ReqsOf(batch) \cup {r} /\ ReqsOf(batch') = ReqsOf(batch) \cup {r}
  BY <1>1, <1>4 DEF ReqsOf
<1>10. \A x \in Req : DueOld(x)' <=> DueOld(x)
  BY <1>8 DEF DueOld, ReqsOf
<1>11. \A x \in Req : DueNew(x)' <=> DueNew(x) \/ x = r
  BY <1>8, <1>9 DEF DueNew
<1>12. ~DueNew(r)
  BY <1>6 DEF DueNew
<1>13. batch'.kind = kind /\ batch'.chunked = batch.chunked
         /\ batch'.tok[r] = tok /\ \A x \in ReqsOf(batch) : batch'.tok[x] = batch.tok[x]
  BY <1>1, <1>3, <1>5, <1>6
<1> QED BY <1>8, <1>9, <1>10, <1>11, <1>12, <1>13

\* The launch of one request of the batch; what it does to the request itself
\* is in Followed(r)'.
LEMMA LaunchControl ==
  ASSUME Control, LoopInv', NEW r \in todo, NEW kind, NEW tok,
         \/ pc = "extend" /\ kind = "extend"
         \/ pc = "alloc_decode" /\ kind = "decode",
         AddToBatch(kind, r, tok),
         UNCHANGED <<running, chunked, abort_chunk, last_batch>>,
         \A x \in Req : x # r => SameControl(req'[x], req[x]),
         HoldsKV(r)', ~req'[r].retracted, ControlOK(req'[r]), Followed(r)'
  PROVE  Control'
<1> USE DEF Control
<1>1. kind \in {"extend", "decode"} /\ pc \in {"extend", "alloc_decode"}
  OBVIOUS
<1>2. /\ ReqsOf(batch)' = ReqsOf(batch) \cup {r}
      /\ batch'.kind = kind /\ batch'.chunked = batch.chunked
      /\ batch'.tok[r] = tok /\ \A x \in ReqsOf(batch) : batch'.tok[x] = batch.tok[x]
      /\ \/ /\ todo # {r} /\ todo' = todo \ {r} /\ pc' = pc /\ queue' = queue
         \/ /\ todo = {r} /\ pc' = "process" /\ queue' = queue \o <<batch'>>
            /\ todo' = ReqsOf(IF Overlap THEN last_batch ELSE batch')
      /\ \A x \in Req : DueOld(x)' <=> DueOld(x)
      /\ \A x \in Req : DueNew(x)' <=> DueNew(x) \/ x = r
      /\ ~DueNew(r)
  BY <1>1, LaunchFacts
<1>3. /\ ReqsOf(batch) \subseteq Req /\ ReqsOf(last_batch) \subseteq Req
      /\ running \subseteq Req /\ todo \subseteq Req
      /\ \A x \in running \cup ReqsOf(batch) : HoldsKV(x)
      /\ \A x \in todo : x \notin ReqsOf(batch)
      /\ batch.chunked = chunked /\ ~abort_chunk
      /\ queue = IF Overlap /\ last_batch.kind # "none" THEN <<last_batch>> ELSE << >>
  BY <1>1, AtBuild
<1>4. r \in Req /\ ReqsOf(last_batch)' = ReqsOf(last_batch)
  BY <1>3 DEF ReqsOf
<1>5. \A x \in Req \ {r} : (HoldsKV(x)' <=> HoldsKV(x)) /\ (Finished(x)' <=> Finished(x))
                           /\ req'[x].phase = req[x].phase /\ req'[x].retracted = req[x].retracted
  BY DEF HoldsKV, Finished, SameControl
<1>6. RequestsOK'
  BY SameControlKeeps DEF RequestsOK
<1>7. QueueIs'
  <2>1. CASE pc' = pc /\ queue' = queue
    <3>1. QueueIs /\ pc # "process" /\ pc' # "process"
      BY <1>1, <2>1 DEF Placed
    <3> QED BY <2>1, <3>1 DEF QueueIs
  <2>2. CASE pc' = "process" /\ queue' = queue \o <<batch'>>
    <3>1. batch'.kind # "none"
      BY <1>1, <1>2
    <3> QED BY <1>3, <2>2, <3>1 DEF QueueIs
  <2> QED BY <1>2, <2>1, <2>2
<1>8. BatchesAre'
  <2>1. kind = "decode" => batch.chunked = NoReq
    BY <1>3 DEF Placed, ChunkIs
  <2>2. BatchOK(batch)'
    BY <1>1, <1>2, <2>1 DEF BatchOK
  <2>3. BatchOK(last_batch)'
    BY <1>4 DEF Placed, BatchesAre, BatchOK
  <2> QED BY <1>1, <1>2, <2>2, <2>3 DEF BatchesAre
<1>9. TodoIs'
  <2>1. CASE pc' = pc /\ todo' = todo \ {r}
    <3>1. pc = "extend" => \A x \in todo' : ToExtend(x)'
      BY <1>2, <1>3, <1>4, <1>5, <2>1 DEF Placed, TodoIs, ToExtend
    <3>2. pc = "alloc_decode" => todo' \subseteq running' /\ todo' \cap ReqsOf(batch)' = {}
      BY <1>2, <2>1 DEF Placed, TodoIs
    <3> QED BY <1>1, <2>1, <3>1, <3>2 DEF TodoIs
  <2>2. CASE pc' = "process" /\ todo' = ReqsOf(IF Overlap THEN last_batch ELSE batch')
    BY <2>2 DEF TodoIs, ReqsOf
  <2> QED BY <1>2, <2>1, <2>2
<1>10. Members'
  <2>1. \A x \in running' : HoldsKV(x)'
    BY <1>3, <1>5
  <2>2. \A x \in Req : req'[x].phase = "admitted" => pc' = "extend" /\ x \in todo'
    <3> SUFFICES ASSUME NEW x \in Req, req'[x].phase = "admitted"
                 PROVE  pc' = "extend" /\ x \in todo'
      OBVIOUS
    <3>1. x # r
      BY DEF HoldsKV
    <3>2. x \in todo /\ pc = "extend"
      BY <1>1, <1>5, <3>1 DEF Placed, Members
    <3> QED BY <1>2, <3>1, <3>2
  <2>3. \A x \in Req : HoldsKV(x)' => ~req'[x].retracted
    BY <1>5 DEF Placed, Members
  <2>4. \A x \in ReqsOf(batch)' : HoldsKV(x)'
    BY <1>2, <1>3, <1>5
  <2>5. \A x \in ReqsOf(last_batch)' :
          \/ HoldsKV(x)'
          \/ Finished(x)'
          \/ /\ req'[x].phase = "waiting" /\ req'[x].retracted
             /\ pc' \in {"retract", "alloc_decode", "process", "crashed"}
    BY <1>1, <1>2, <1>3, <1>4, <1>5 DEF Placed, Members
  <2> QED BY <2>1, <2>2, <2>3, <2>4, <2>5 DEF Members
<1>11. ChunkIs'
  <2>1. chunked' # NoReq => HoldsKV(chunked)' \/ req'[chunked'].phase = "admitted"
    <3>1. CASE chunked = r
      BY <3>1 DEF HoldsKV
    <3>2. CASE chunked # r /\ chunked # NoReq
      <4>1. chunked \in Req \ {r}
        BY <3>2 DEF LoopInv, TypeOK
      <4> QED BY <3>2, <4>1, <1>5 DEF Placed, ChunkIs, HoldsKV
    <3> QED BY <3>1, <3>2
  <2> QED BY <1>1, <1>2, <1>3, <1>4, <2>1 DEF Placed, ChunkIs
<1>12. ResultsFollowed'
  <2> SUFFICES ASSUME NEW x \in Req, x # r PROVE Followed(x)'
    BY DEF ResultsFollowed
  <2>1. (DueOld(x)' <=> DueOld(x)) /\ (DueNew(x)' <=> DueNew(x))
    BY <1>2
  <2>2. DueNew(x) => x \in ReqsOf(batch)
    BY DEF DueNew
  <2> QED BY <1>2, <2>1, <2>2, FollowedKeeps DEF ResultsFollowed
<1> QED BY <1>6, <1>7, <1>8, <1>9, <1>10, <1>11, <1>12 DEF Placed

\* The extend of one request keeps the invariant: its token or middle chunk
\* becomes due.
LEMMA ExtendControl ==
  ASSUME Control, NEW r \in Req, Extend(r)
  PROVE  Control'
<1> USE DEF Control
<1>1. LoopInv' /\ pc = "extend" /\ r \in todo
  BY ExtendKeeps DEF Extend
<1>2. \/ Crash
      \/ \E row : \E tok \in Sampled :
           /\ req' = [req EXCEPT ![r] =
                  [@ EXCEPT !.phase = "running", !.row = row,
                            !.committed = req[r].extend_end,
                            !.retracted = FALSE,
                            !.middle = IF r = chunked THEN req[r].middle + 1
                                       ELSE req[r].middle,
                            !.dev = IF r = chunked THEN Fill(r) ELSE Append(Fill(r), tok)]]
           /\ AddToBatch("extend", r, tok)
           /\ UNCHANGED <<loopVars, last_batch>>
  BY DEF Extend
<1>3. CASE Crash
  BY <1>1, <1>3, CrashControl
<1>4. ASSUME NEW row, NEW tok \in Sampled,
             req' = [req EXCEPT ![r] =
                  [@ EXCEPT !.phase = "running", !.row = row,
                            !.committed = req[r].extend_end,
                            !.retracted = FALSE,
                            !.middle = IF r = chunked THEN req[r].middle + 1
                                       ELSE req[r].middle,
                            !.dev = IF r = chunked THEN Fill(r) ELSE Append(Fill(r), tok)]],
             AddToBatch("extend", r, tok),
             UNCHANGED <<loopVars, last_batch>>
      PROVE  Control'
  <2> DEFINE q == req'[r]
  <2>1. DOMAIN req = Req /\ ControlOK(req[r]) /\ DOMAIN req[r] = ReqFields
    BY DEF LoopInv, TypeOK, RequestsOK, ControlOK
  <2>2. req'[r] = q /\ \A x \in Req : x # r => SameControl(req'[x], req[x])
    BY <1>4, <2>1 DEF RequestsOK, ControlOK, SameControl
  <2>3. /\ DOMAIN q = ReqFields /\ q.phase = "running" /\ q.prompt = req[r].prompt
        /\ q.out = req[r].out /\ q.retracted = FALSE
        /\ q.middle = (IF r = chunked THEN req[r].middle + 1 ELSE req[r].middle)
        /\ q.dev = (IF r = chunked THEN Fill(r) ELSE Append(Fill(r), tok))
    <3> DEFINE m == IF r = chunked THEN req[r].middle + 1 ELSE req[r].middle
               d == IF r = chunked THEN Fill(r) ELSE Append(Fill(r), tok)
    <3>1. req'[r] = [req[r] EXCEPT !.phase = "running", !.row = row,
                                   !.committed = req[r].extend_end, !.retracted = FALSE,
                                   !.middle = m, !.dev = d]
      BY <1>4, <2>1
    <3> HIDE DEF m, d
    <3>2. /\ DOMAIN q = ReqFields /\ q.phase = "running" /\ q.prompt = req[r].prompt
          /\ q.out = req[r].out /\ q.retracted = FALSE /\ q.middle = m /\ q.dev = d
      BY <2>1, <3>1 DEF ReqFields
    <3> QED BY <3>2 DEF m, d
  <2> HIDE DEF q
  <2>4. tok \in Token /\ Fill(r) \in Key /\ req[r].middle \in Nat
    BY <2>1, PromptsAssumption DEF ControlOK, Fill, Key
  <2>5. ControlOK(q)
    <3>1. q.dev \in Key /\ q.middle \in Nat
      BY <2>3, <2>4 DEF Key
    <3> QED BY <2>1, <2>3, <3>1 DEF ControlOK
  <2>6. /\ batch'.chunked = batch.chunked /\ batch'.tok[r] = tok
        /\ DueOld(r)' <=> DueOld(r)
        /\ DueNew(r)'
        /\ ~DueNew(r)
    BY <1>1, <1>4, LaunchFacts
  <2>7. /\ HoldsKV(r) \/ (req[r].phase = "admitted" /\ r \notin ReqsOf(last_batch))
        /\ r \in ReqsOf(last_batch) => last_batch.chunked = r
        /\ batch.chunked = chunked
    BY <1>1, AtBuild DEF Placed, TodoIs, ToExtend
  <2>8. OldToken(r) = << >> /\ OldToken(r)' = << >> /\ NewToken(r) = << >>
    BY <1>4, <2>6, <2>7 DEF OldToken, NewToken, DueOld
  <2>9. NewToken(r)' = IF r = chunked THEN << >> ELSE <<tok>>
    BY <2>6, <2>7 DEF NewToken
  <2>10. req[r].middle = Bit(DueOld(r) /\ last_batch.chunked = r)
    <3>1. CASE HoldsKV(r)
      BY <3>1, <2>6 DEF ResultsFollowed, Followed, Bit
    <3>2. CASE ~HoldsKV(r)
      BY <3>2, <2>1, <2>7 DEF ControlOK, DueOld, Bit
    <3> QED BY <3>1, <3>2
  <2>11. Followed(r)'
    <3>1. q.middle = Bit(DueOld(r) /\ last_batch.chunked = r)' + Bit(DueNew(r) /\ batch.chunked = r)'
      BY <1>4, <2>3, <2>6, <2>7, <2>10 DEF Bit
    <3>2. Fill(r)' = Fill(r)
      BY <2>2, <2>3 DEF Fill
    <3>3. (Fill(r) \o << >>) \o << >> = Fill(r)
      BY <2>4 DEF Key
    <3>4. (Fill(r) \o << >>) \o <<tok>> = Append(Fill(r), tok)
      BY <2>4 DEF Key
    <3>5. q.dev = ((Fill(r) \o OldToken(r)) \o NewToken(r))'
      BY <2>3, <2>8, <2>9, <3>2, <3>3, <3>4
    <3> QED BY <2>2, <3>1, <3>5 DEF Followed
  <2>12. HoldsKV(r)' /\ ~req'[r].retracted /\ ControlOK(req'[r])
    BY <2>2, <2>3, <2>5 DEF HoldsKV
  <2>13. UNCHANGED <<running, chunked, abort_chunk, last_batch>>
    BY <1>4 DEF loopVars
  <2> QED BY <1>1, <1>4, <2>2, <2>11, <2>12, <2>13, LaunchControl
<1> QED BY <1>2, <1>3, <1>4

\* The decode of one request keeps the invariant: its token becomes due.
LEMMA DecodeControl ==
  ASSUME Control, NEW r \in Req, Decode(r)
  PROVE  Control'
<1> USE DEF Control
<1>1. LoopInv' /\ pc = "alloc_decode" /\ r \in todo
  BY DecodeKeeps DEF Decode
<1>2. \/ Crash
      \/ \E row : \E tok \in Sampled :
           /\ req' = [req EXCEPT ![r] =
                  [@ EXCEPT !.row = row, !.committed = req[r].committed + 1,
                            !.dev = Append(req[r].dev, tok)]]
           /\ AddToBatch("decode", r, tok)
           /\ UNCHANGED <<loopVars, last_batch>>
  BY DEF Decode
<1>3. CASE Crash
  BY <1>1, <1>3, CrashControl
<1>4. ASSUME NEW row, NEW tok \in Sampled,
             req' = [req EXCEPT ![r] =
                  [@ EXCEPT !.row = row, !.committed = req[r].committed + 1,
                            !.dev = Append(req[r].dev, tok)]],
             AddToBatch("decode", r, tok),
             UNCHANGED <<loopVars, last_batch>>
      PROVE  Control'
  <2> DEFINE q == req'[r]
  <2>1. DOMAIN req = Req /\ ControlOK(req[r]) /\ DOMAIN req[r] = ReqFields
    BY DEF LoopInv, TypeOK, RequestsOK, ControlOK
  <2>2. \A x \in Req : x # r => SameControl(req'[x], req[x])
    BY <1>4, <2>1 DEF RequestsOK, ControlOK, SameControl
  <2>3. /\ DOMAIN q = ReqFields /\ q.phase = req[r].phase /\ q.prompt = req[r].prompt
        /\ q.out = req[r].out /\ q.retracted = req[r].retracted
        /\ q.middle = req[r].middle /\ q.dev = Append(req[r].dev, tok)
    BY <1>4, <2>1 DEF ReqFields
  <2> HIDE DEF q
  <2>4. tok \in Token /\ req[r].dev \in Key
    BY <2>1, PromptsAssumption DEF ControlOK
  <2>5. ControlOK(q)
    <3>1. q.dev \in Key
      BY <2>3, <2>4 DEF Key
    <3> QED BY <2>1, <2>3, <3>1 DEF ControlOK
  <2>6. /\ batch'.chunked = batch.chunked /\ batch'.tok[r] = tok
        /\ DueOld(r)' <=> DueOld(r)
        /\ DueNew(r)'
        /\ ~DueNew(r)
    BY <1>1, <1>4, LaunchFacts
  <2>7. HoldsKV(r) /\ batch.chunked = NoReq /\ batch.chunked # r
    BY <1>1, AtBuild, ReqAssumption DEF Placed, TodoIs, ChunkIs
  <2>8. OldToken(r)' = OldToken(r) /\ NewToken(r) = << >> /\ NewToken(r)' = <<tok>>
    BY <1>4, <2>6, <2>7 DEF OldToken, NewToken
  <2>9. Fill(r)' = Fill(r)
    BY <2>3 DEF Fill, q
  <2>10. req[r].dev = (Fill(r) \o OldToken(r)) \o << >>
    BY <2>7, <2>8 DEF ResultsFollowed, Followed
  <2>11. q.dev = ((Fill(r) \o OldToken(r)) \o NewToken(r))'
    <3>1. Fill(r) \o OldToken(r) \in Key
      <4>1. Fill(r) \in Key
        BY <2>1 DEF ControlOK, Fill, Key
      <4>2. OldToken(r) \in Key
        <5>1. DueOld(r) => last_batch.tok[r] \in Token
          BY PromptsAssumption DEF LoopInv, TypeOK, Batch, DueOld, ReqsOf
        <5> QED BY <5>1 DEF OldToken, Key
      <4> QED BY <4>1, <4>2 DEF Key
    <3> DEFINE k == Fill(r) \o OldToken(r)
    <3>2. Append(k \o << >>, tok) = k \o <<tok>>
      BY <3>1, <2>4 DEF Key
    <3> QED BY <2>3, <2>8, <2>9, <2>10, <3>2
  <2>12. Followed(r)'
    <3>1. q.middle = Bit(DueOld(r) /\ last_batch.chunked = r)' + Bit(DueNew(r) /\ batch.chunked = r)'
      BY <1>4, <2>3, <2>6, <2>7 DEF Bit, ResultsFollowed, Followed
    <3> QED BY <3>1, <2>11 DEF Followed, q
  <2>13. HoldsKV(r)' /\ ~req'[r].retracted /\ ControlOK(req'[r])
    BY <2>3, <2>5, <2>7 DEF HoldsKV, Placed, Members, q
  <2>14. UNCHANGED <<running, chunked, abort_chunk, last_batch>>
    BY <1>4 DEF loopVars
  <2> QED BY <1>1, <1>4, <2>2, <2>12, <2>13, <2>14, LaunchControl
<1> QED BY <1>2, <1>3, <1>4

-----------------------------------------------------------------------------
(* Results *)

\* The result that is processed, while requests are left to be given it.
LEMMA AtProcess ==
  ASSUME Control, pc = "process"
  PROVE  /\ ReqsOf(batch) \subseteq Req /\ ReqsOf(last_batch) \subseteq Req
         /\ running \subseteq Req /\ todo \subseteq Req
         /\ todo # {} => Head(queue) = (IF Overlap THEN last_batch ELSE batch)
         /\ todo # {} /\ Overlap => last_batch.kind # "none"
         /\ todo # {} /\ ~Overlap => batch.kind # "none"
         /\ todo \subseteq ReqsOf(IF Overlap THEN last_batch ELSE batch)
         /\ \A r \in Req : req[r].phase # "admitted"
<1>1. /\ ReqsOf(batch) \subseteq Req /\ ReqsOf(last_batch) \subseteq Req
      /\ running \subseteq Req /\ todo \subseteq Req
  BY BatchReqs DEF Control, LoopInv, TypeOK
<1>2. todo \subseteq ReqsOf(IF Overlap THEN last_batch ELSE batch)
  BY DEF Control, Placed, TodoIs
<1>3. (todo # {} /\ Overlap => last_batch.kind # "none") /\ (todo # {} /\ ~Overlap => batch.kind # "none")
  BY <1>2 DEF Control, Placed, BatchesAre, BatchOK
<1>4. todo # {} => Head(queue) = (IF Overlap THEN last_batch ELSE batch)
  <2> SUFFICES ASSUME todo # {} PROVE Head(queue) = (IF Overlap THEN last_batch ELSE batch)
    OBVIOUS
  <2>1. queue = (IF Overlap /\ last_batch.kind # "none" THEN <<last_batch>> ELSE << >>)
                 \o (IF batch.kind # "none" THEN <<batch>> ELSE << >>)
    BY DEF Control, Placed, QueueIs
  <2>2. CASE Overlap /\ batch.kind = "none"
    <3>1. queue = <<last_batch>> \o << >>
      BY <2>1, <2>2, <1>3
    <3> QED BY <2>2, <3>1
  <2>3. CASE Overlap /\ batch.kind # "none"
    <3>1. queue = <<last_batch>> \o <<batch>>
      BY <2>1, <2>3, <1>3
    <3> QED BY <2>3, <3>1
  <2>4. CASE ~Overlap
    <3>1. queue = << >> \o <<batch>>
      BY <2>1, <2>4, <1>3
    <3> QED BY <2>4, <3>1
  <2> QED BY <2>2, <2>3, <2>4
<1>5. \A r \in Req : req[r].phase # "admitted"
  BY DEF Control, Placed, Members
<1> QED BY <1>1, <1>2, <1>3, <1>4, <1>5

\* What the result holds for a request, and what is due to it afterwards.
LEMMA ResultFacts ==
  ASSUME Control, NEW r \in Req, ProcessStep(r), HoldsKV(r), NEW h, h = Head(queue)
  PROVE  /\ h.chunked = r => /\ req[r].middle - 1 = Bit(DueOld(r) /\ last_batch.chunked = r)'
                                                     + Bit(DueNew(r) /\ batch.chunked = r)'
                             /\ req[r].dev = (Fill(r) \o OldToken(r)') \o NewToken(r)'
                             /\ req[r].middle > 0
         /\ h.chunked # r => /\ 0 = Bit(DueOld(r) /\ last_batch.chunked = r)'
                                    + Bit(DueNew(r) /\ batch.chunked = r)'
                             /\ req[r].dev = ((Fill(r) \o <<h.tok[r]>>) \o OldToken(r)')
                                               \o NewToken(r)'
                             /\ req[r].middle = 0
                             /\ r # chunked
         /\ h.kind = "decode" => h.chunked # r
         /\ h.tok[r] \in Token
<1> USE DEF Control
<1>1. /\ pc = "process" /\ pc' = "process" /\ r \in todo /\ todo' = todo \ {r}
      /\ UNCHANGED <<batch, last_batch, queue, chunked>>
  BY DEF ProcessStep, loopVars, batchVars
<1>2. h = (IF Overlap THEN last_batch ELSE batch) /\ r \in ReqsOf(h) /\ h \in Batch
  BY <1>1, AtProcess DEF LoopInv, TypeOK
<1>3. BatchOK(h) /\ batch.chunked = chunked
  BY <1>1, <1>2 DEF Placed, BatchesAre, ChunkIs
<1>4. r \in ReqsOf(last_batch) /\ batch.chunked = r => last_batch.chunked = r
  BY <1>3, ReqAssumption DEF Placed, ChunkIs
<1>5. h.kind = "decode" => h.chunked # r
  BY <1>3, ReqAssumption DEF BatchOK
<1>6. h.tok[r] \in Token
  BY <1>2, PromptsAssumption DEF Batch, ReqsOf
<1>7. /\ req[r].middle = Bit(DueOld(r) /\ last_batch.chunked = r)
                           + Bit(DueNew(r) /\ batch.chunked = r)
      /\ req[r].dev = (Fill(r) \o OldToken(r)) \o NewToken(r)
  BY DEF ResultsFollowed, Followed
<1>8. r # chunked \/ h.chunked = r
  BY <1>2, <1>3, <1>4
<1>9. Fill(r) \in Key
  BY DEF RequestsOK, ControlOK, Fill, Key
<1> DEFINE f == Fill(r)
<1>10. f \in Seq(Token)
  BY <1>9 DEF Key
<1> HIDE DEF f
<1>11. CASE Overlap
  <2>1. DueOld(r) /\ ~DueOld(r)' /\ (DueNew(r)' <=> DueNew(r)) /\ h = last_batch
    BY <1>1, <1>2, <1>11 DEF DueOld, DueNew, ReqsOf
  <2>2. OldToken(r)' = << >> /\ NewToken(r)' = NewToken(r)
    BY <1>1, <2>1 DEF OldToken, NewToken
  <2>3. CASE h.chunked = r
    <3>1. OldToken(r) = << >>
      BY <2>1, <2>3 DEF OldToken
    <3> QED BY <1>1, <1>5, <1>6, <1>7, <2>1, <2>2, <2>3, <3>1 DEF Bit
  <2>4. CASE h.chunked # r
    <3>1. OldToken(r) = <<h.tok[r]>> /\ batch.chunked # r
      BY <1>2, <1>4, <1>11, <2>1, <2>4 DEF OldToken
    <3>2. (f \o <<h.tok[r]>>) \o << >> = f \o <<h.tok[r]>>
      BY <1>6, <1>10
    <3> QED BY <1>1, <1>5, <1>6, <1>7, <1>8, <2>1, <2>2, <2>4, <3>1, <3>2 DEF Bit, f
  <2> QED BY <2>3, <2>4
<1>12. CASE ~Overlap
  <2>1. ~DueOld(r) /\ ~DueOld(r)' /\ ~DueNew(r)' /\ DueNew(r) /\ h = batch
    BY <1>1, <1>2, <1>12 DEF DueOld, DueNew, ReqsOf
  <2>2. OldToken(r)' = << >> /\ NewToken(r)' = << >> /\ OldToken(r) = << >>
    BY <1>1, <2>1 DEF OldToken, NewToken
  <2>3. CASE h.chunked = r
    <3>1. NewToken(r) = << >>
      BY <2>1, <2>3 DEF NewToken
    <3> QED BY <1>1, <1>5, <1>6, <1>7, <2>1, <2>2, <2>3, <3>1 DEF Bit
  <2>4. CASE h.chunked # r
    <3>1. NewToken(r) = <<h.tok[r]>>
      BY <2>1, <2>4 DEF NewToken
    <3>2. ((f \o <<h.tok[r]>>) \o << >>) \o << >> = (f \o << >>) \o <<h.tok[r]>>
      BY <1>6, <1>10
    <3> QED BY <1>1, <1>5, <1>6, <1>7, <1>8, <2>1, <2>2, <2>4, <3>1, <3>2 DEF Bit, f
  <2> QED BY <2>3, <2>4
<1> QED BY <1>11, <1>12

\* The result is given to one request, dropped, or finishes it.
LEMMA ProcessStepControl ==
  ASSUME Control, LoopInv', NEW r \in Req, ProcessStep(r),
         \A x \in Req : x # r => SameControl(req'[x], req[x]),
         ControlOK(req'[r]),
         \/ /\ ~HoldsKV(r) /\ req'[r].phase = req[r].phase
            /\ req'[r].retracted = req[r].retracted
         \/ HoldsKV(r) /\ req'[r].phase = "finished" /\ r # chunked
         \/ HoldsKV(r) /\ HoldsKV(r)' /\ ~req'[r].retracted /\ Followed(r)'
  PROVE  Control'
<1> USE DEF Control
<1>1. /\ pc = "process" /\ pc' = "process" /\ r \in todo /\ todo' = todo \ {r}
      /\ UNCHANGED <<batch, last_batch, queue, running, chunked, abort_chunk>>
  BY DEF ProcessStep, loopVars, batchVars
<1>2. /\ ReqsOf(batch) \subseteq Req /\ ReqsOf(last_batch) \subseteq Req
      /\ running \subseteq Req /\ todo \subseteq Req
      /\ todo \subseteq ReqsOf(IF Overlap THEN last_batch ELSE batch)
      /\ \A x \in Req : req[x].phase # "admitted"
  BY <1>1, AtProcess
<1>3. ReqsOf(batch)' = ReqsOf(batch) /\ ReqsOf(last_batch)' = ReqsOf(last_batch)
  BY <1>1 DEF ReqsOf
<1>4. \A x \in Req : x # r => (HoldsKV(x)' <=> HoldsKV(x)) /\ (Finished(x)' <=> Finished(x))
                              /\ req'[x].phase = req[x].phase /\ req'[x].retracted = req[x].retracted
  BY DEF HoldsKV, Finished, SameControl
<1>5. \/ /\ ~HoldsKV(r) /\ ~HoldsKV(r)' /\ (Finished(r)' <=> Finished(r))
         /\ req'[r].phase = req[r].phase /\ req'[r].retracted = req[r].retracted
      \/ HoldsKV(r) /\ ~HoldsKV(r)' /\ Finished(r)' /\ r # chunked
      \/ HoldsKV(r) /\ HoldsKV(r)' /\ ~req'[r].retracted
  BY DEF HoldsKV, Finished
<1>6. RequestsOK'
  BY SameControlKeeps DEF RequestsOK
<1>7. QueueIs' /\ BatchesAre'
  BY <1>1, <1>3 DEF Placed, QueueIs, BatchesAre, BatchOK
<1>8. TodoIs'
  BY <1>1, <1>2 DEF TodoIs, ReqsOf
<1>9. Members'
  <2>1. \A x \in running' \cup ReqsOf(batch)' : HoldsKV(x)' \/ Finished(x)'
    BY <1>1, <1>2, <1>3, <1>4, <1>5 DEF Placed, Members
  <2>2. \A x \in Req : req'[x].phase # "admitted"
    BY <1>2, <1>4, <1>5 DEF Finished, HoldsKV
  <2>3. \A x \in Req : HoldsKV(x)' => ~req'[x].retracted
    BY <1>4, <1>5 DEF Placed, Members
  <2>4. \A x \in ReqsOf(last_batch)' :
          HoldsKV(x)' \/ Finished(x)' \/ (req'[x].phase = "waiting" /\ req'[x].retracted)
    BY <1>2, <1>3, <1>4, <1>5 DEF Placed, Members
  <2> QED BY <1>1, <2>1, <2>2, <2>3, <2>4 DEF Members
<1>10. ChunkIs'
  <2>1. chunked # NoReq => chunked \in Req /\ HoldsKV(chunked)
    BY <1>2 DEF Placed, ChunkIs, LoopInv, TypeOK
  <2>2. chunked' # NoReq => HoldsKV(chunked)'
    <3>1. CASE chunked = r
      BY <3>1, <1>1, <1>5, <2>1 DEF HoldsKV
    <3>2. CASE chunked # r
      BY <3>2, <1>1, <1>4, <2>1 DEF HoldsKV
    <3> QED BY <3>1, <3>2
  <2> QED BY <1>1, <1>3, <2>2 DEF Placed, ChunkIs
<1>11. ResultsFollowed'
  <2> SUFFICES ASSUME NEW x \in Req PROVE Followed(x)'
    BY DEF ResultsFollowed
  <2>1. CASE x # r
    <3>1. (DueOld(x)' <=> DueOld(x)) /\ (DueNew(x)' <=> DueNew(x))
      BY <1>1, <1>3, <2>1 DEF DueOld, DueNew
    <3> QED BY <1>1, <2>1, <3>1, FollowedKeeps DEF ResultsFollowed
  <2>2. CASE x = r /\ HoldsKV(r)'
    BY <2>2, <1>5 DEF HoldsKV
  <2>3. CASE x = r /\ ~HoldsKV(r)'
    BY <2>3, FollowedTrivially
  <2> QED BY <2>1, <2>2, <2>3
<1> QED BY <1>6, <1>7, <1>8, <1>9, <1>10, <1>11 DEF Placed

\* A committed token was the first one due.
LEMMA CommitControl ==
  ASSUME Control, LoopInv', NEW r \in Req, ProcessStep(r), HoldsKV(r),
         Head(queue).chunked # r, NEW kind, Commit(r, kind)
  PROVE  Control'
<1> USE DEF Control
<1> DEFINE t == Head(queue).tok[r]
           q == [req[r] EXCEPT !.out = Append(@, t)]
           c == Checkpoint(tree, q, q.extend_end)
<1>1. /\ 0 = Bit(DueOld(r) /\ last_batch.chunked = r)' + Bit(DueNew(r) /\ batch.chunked = r)'
      /\ req[r].dev = ((Fill(r) \o <<t>>) \o OldToken(r)') \o NewToken(r)'
      /\ req[r].middle = 0 /\ r # chunked /\ t \in Token
  BY ResultFacts
<1>2. DOMAIN req = Req /\ ControlOK(req[r])
  BY DEF LoopInv, TypeOK, RequestsOK
<1>3. /\ DOMAIN q = ReqFields /\ q.phase = "running" /\ q.prompt = req[r].prompt
      /\ q.out = Append(req[r].out, t) /\ q.dev = req[r].dev /\ q.middle = 0
      /\ q.retracted = req[r].retracted
  BY <1>1, <1>2 DEF ControlOK, ReqFields, HoldsKV
<1>4. ControlOK(q)
  <2>1. Append(req[r].out, t) \in Key
    BY <1>1, <1>2 DEF ControlOK, Key
  <2> QED BY <1>2, <1>3, <2>1 DEF ControlOK
<1>5. q.prompt \o q.out = Fill(r) \o <<t>>
  <2> HIDE DEF q, t
  <2>1. ASSUME NEW u \in Seq(Token), NEW v \in Seq(Token), NEW w \in Token
        PROVE  u \o Append(v, w) = (u \o v) \o <<w>>
    OBVIOUS
  <2>2. req[r].prompt \in Seq(Token) /\ req[r].out \in Seq(Token)
    BY <1>2 DEF ControlOK, Key
  <2> QED BY <1>1, <1>3, <2>1, <2>2 DEF Fill
<1>6. SameControl(Resume(c.req), q) /\ SameControl(q, q)
  <2> HIDE DEF q
  <2>1. SameControl(q, q)
    BY <1>3 DEF SameControl
  <2> QED BY <1>3, <2>1, CheckpointControl
<1>7. ~req[r].retracted
  BY DEF Placed, Members
<1>8. \/ req' = [req EXCEPT ![r] = Finish(q)]
      \/ req' = [req EXCEPT ![r] = Resume(c.req)]
      \/ req' = [req EXCEPT ![r] = q]
  BY DEF Commit, Effect
<1> HIDE DEF t, q, c
<1>9. \A x \in Req : x # r => SameControl(req'[x], req[x])
  BY <1>2, <1>8 DEF RequestsOK, ControlOK, SameControl
<1>10. CASE req' = [req EXCEPT ![r] = Finish(q)]
  <2>1. req'[r] = Finish(q)
    BY <1>2, <1>10
  <2>2. ControlOK(Finish(q)) /\ Finish(q).phase = "finished"
    BY <1>4, FinishControl DEF ControlOK
  <2> QED BY <1>1, <1>9, <2>1, <2>2, ProcessStepControl
<1>11. CASE req' = [req EXCEPT ![r] = Resume(c.req)] \/ req' = [req EXCEPT ![r] = q]
  <2>1. SameControl(req'[r], q)
    BY <1>2, <1>6, <1>11
  <2>2. ControlOK(req'[r])
    BY <1>4, <2>1, SameControlKeeps
  <2>3. /\ req'[r].phase = "running" /\ req'[r].middle = 0 /\ req'[r].dev = req[r].dev
        /\ Fill(r)' = Fill(r) \o <<t>> /\ ~req'[r].retracted
    BY <1>3, <1>5, <1>7, <2>1 DEF SameControl, Fill
  <2>4. Followed(r)' /\ HoldsKV(r)'
    BY <1>1, <2>3 DEF Followed, HoldsKV
  <2> QED BY <1>9, <2>2, <2>3, <2>4, ProcessStepControl
<1> QED BY <1>8, <1>10, <1>11

\* A result that is dropped, for a request that holds no KV.
LEMMA DropControl ==
  ASSUME Control, LoopInv', NEW r \in Req, ProcessStep(r), ~HoldsKV(r), req' = req
  PROVE  Control'
<1>1. \A x \in Req : SameControl(req'[x], req[x]) /\ ControlOK(req'[x])
  BY DEF Control, RequestsOK, ControlOK, SameControl
<1>2. req'[r].phase = req[r].phase /\ req'[r].retracted = req[r].retracted
  OBVIOUS
<1> QED BY <1>1, <1>2, ProcessStepControl

\* A request the result belongs to holds KV unless it finished or was retracted.
LEMMA ResultOwner ==
  ASSUME Control, NEW r \in Req, ProcessStep(r)
  PROVE  /\ HoldsKV(r) \/ Finished(r) \/ req[r].retracted
         /\ HoldsKV(r) => ~Finished(r) /\ ~req[r].retracted
         /\ req[r].middle \in Nat
<1>1. pc = "process" /\ r \in todo
  BY DEF ProcessStep
<1>2. r \in ReqsOf(IF Overlap THEN last_batch ELSE batch)
  BY <1>1, AtProcess
<1>3. HoldsKV(r) \/ Finished(r) \/ req[r].retracted
  BY <1>2 DEF Control, Placed, Members
<1> QED BY <1>3 DEF Control, Placed, Members, HoldsKV, Finished, RequestsOK, ControlOK

\* process_batch_result_prefill of one request keeps the invariant.
LEMMA ProcessPrefillControl ==
  ASSUME Control, NEW r \in Req, ProcessPrefill(r)
  PROVE  Control'
<1> USE DEF Control
<1>1. LoopInv' /\ ProcessStep(r)
  BY ProcessKeeps DEF ProcessPrefill
<1>2. /\ HoldsKV(r) \/ Finished(r) \/ req[r].retracted
      /\ HoldsKV(r) => ~Finished(r) /\ ~req[r].retracted
      /\ req[r].middle \in Nat
  BY <1>1, ResultOwner
<1>3. CASE ((Finished(r) /\ req[r].middle <= 0) \/ req[r].retracted) /\ req' = req
  BY <1>1, <1>2, <1>3, DropControl
<1>4. CASE /\ ~(Finished(r) /\ req[r].middle <= 0) /\ ~req[r].retracted
           /\ req[r].middle <= 0 /\ Commit(r, "extend")
  <2>1. HoldsKV(r)
    BY <1>2, <1>4
  <2>2. Head(queue).chunked # r
    <3>1. Head(queue).chunked = r => req[r].middle > 0
      BY <1>1, <2>1, ResultFacts
    <3> QED BY <1>2, <1>4, <3>1
  <2> QED BY <1>1, <1>4, <2>1, <2>2, CommitControl
<1>5. CASE /\ ~req[r].retracted /\ req[r].middle > 0
           /\ req' = [req EXCEPT ![r].middle = @ - 1]
  <2>1. DOMAIN req = Req /\ ControlOK(req[r]) /\ DOMAIN req[r] = ReqFields
    BY DEF LoopInv, TypeOK, RequestsOK, ControlOK
  <2>2. \A x \in Req : x # r => SameControl(req'[x], req[x])
    BY <1>5, <2>1 DEF RequestsOK, ControlOK, SameControl
  <2>3. /\ DOMAIN req'[r] = ReqFields /\ req'[r].phase = req[r].phase
        /\ req'[r].prompt = req[r].prompt /\ req'[r].out = req[r].out
        /\ req'[r].dev = req[r].dev /\ req'[r].retracted = req[r].retracted
        /\ req'[r].middle = req[r].middle - 1
    BY <1>5, <2>1 DEF ReqFields
  <2>4. ControlOK(req'[r])
    BY <1>2, <1>5, <2>1, <2>3 DEF ControlOK
  <2>5. CASE ~HoldsKV(r)
    BY <1>1, <2>2, <2>3, <2>4, <2>5, ProcessStepControl
  <2>6. CASE HoldsKV(r)
    <3>1. Head(queue).chunked = r
      <4>1. Head(queue).chunked # r => req[r].middle = 0
        BY <1>1, <2>6, ResultFacts
      <4> QED BY <1>5, <4>1
    <3>2. /\ req[r].middle - 1 = Bit(DueOld(r) /\ last_batch.chunked = r)'
                                   + Bit(DueNew(r) /\ batch.chunked = r)'
          /\ req[r].dev = (Fill(r) \o OldToken(r)') \o NewToken(r)'
      BY <1>1, <2>6, <3>1, ResultFacts
    <3>3. Fill(r)' = Fill(r)
      BY <2>3 DEF Fill
    <3>4. Followed(r)' /\ HoldsKV(r)' /\ ~req'[r].retracted
      BY <1>2, <2>3, <2>6, <3>2, <3>3 DEF Followed, HoldsKV
    <3> QED BY <1>1, <2>2, <2>4, <2>6, <3>4, ProcessStepControl
  <2> QED BY <2>5, <2>6
<1> QED BY <1>3, <1>4, <1>5 DEF ProcessPrefill

\* process_batch_result_decode of one request keeps the invariant.
LEMMA ProcessDecodeControl ==
  ASSUME Control, NEW r \in Req, ProcessDecode(r)
  PROVE  Control'
<1> USE DEF Control
<1>1. LoopInv' /\ ProcessStep(r) /\ Head(queue).kind = "decode"
  BY ProcessKeeps DEF ProcessDecode
<1>2. /\ HoldsKV(r) \/ Finished(r) \/ req[r].retracted
      /\ HoldsKV(r) => ~Finished(r) /\ ~req[r].retracted
  BY <1>1, ResultOwner
<1>3. CASE (Finished(r) \/ req[r].retracted) /\ req' = req
  BY <1>1, <1>2, <1>3, DropControl
<1>4. CASE ~Finished(r) /\ ~req[r].retracted /\ Commit(r, "decode")
  <2>1. HoldsKV(r)
    BY <1>2, <1>4
  <2>2. Head(queue).chunked # r
    BY <1>1, <2>1, ResultFacts
  <2> QED BY <1>1, <1>4, <2>1, <2>2, CommitControl
<1> QED BY <1>3, <1>4 DEF ProcessDecode

\* The batch of the iteration becomes last_batch; what was due of it stays
\* due.
LEMMA EndIterationControl ==
  ASSUME Control, EndIteration
  PROVE  Control'
<1> USE DEF Control
<1>1. /\ pc = "process" /\ pc' = "recv" /\ todo = {} /\ todo' = {}
      /\ queue' = (IF Pops(queue) THEN Tail(queue) ELSE queue)
      /\ last_batch' = batch /\ batch' = NoBatch
      /\ UNCHANGED <<req, running, chunked, abort_chunk>>
  BY DEF EndIteration, loopVars
<1>2. LoopInv'
  BY EndIterationKeeps
<1>3. ReqsOf(batch)' = {} /\ ReqsOf(last_batch)' = ReqsOf(batch)
      /\ batch'.kind = "none" /\ batch'.chunked = NoReq /\ last_batch'.chunked = batch.chunked
  BY <1>1, NoBatchOK DEF ReqsOf
<1>4. QueueIs'
  <2> DEFINE L == IF batch.kind # "none" THEN <<batch>> ELSE << >>
  <2>1. queue = (IF Overlap /\ last_batch.kind # "none" THEN <<last_batch>> ELSE << >>) \o L
    BY <1>1 DEF Placed, QueueIs
  <2>2. L \in Seq(Batch)
    BY DEF LoopInv, TypeOK
  <2>3. queue' = IF Overlap THEN L ELSE << >>
    <3>1. CASE Overlap /\ last_batch.kind # "none"
      <4>1. queue = <<last_batch>> \o L
        BY <2>1, <3>1
      <4>2. queue # << >> /\ Tail(queue) = L
        <5> HIDE DEF L
        <5>1. last_batch \in Batch
          BY DEF LoopInv, TypeOK
        <5> QED BY <2>2, <4>1, <5>1
      <4> QED BY <1>1, <3>1, <4>2 DEF Pops
    <3>2. CASE Overlap /\ last_batch.kind = "none"
      <4>1. queue = << >> \o L
        BY <2>1, <3>2
      <4>2. queue = L
        BY <2>2, <4>1
      <4> QED BY <1>1, <3>2, <4>2 DEF Pops
    <3>3. CASE ~Overlap
      <4>1. queue = << >> \o L
        BY <2>1, <3>3
      <4>2. queue = L
        BY <2>2, <4>1
      <4>3. L = << >> \/ (L = <<batch>> /\ L # << >> /\ Tail(L) = << >>)
        OBVIOUS
      <4> HIDE DEF L
      <4> QED BY <1>1, <3>3, <4>2, <4>3 DEF Pops
    <3> QED BY <3>1, <3>2, <3>3
  <2>4. queue' = (IF Overlap THEN L ELSE << >>) \o << >>
    BY <2>2, <2>3
  <2> QED BY <1>1, <2>4 DEF QueueIs
<1>5. BatchesAre'
  BY <1>1, <1>3 DEF Placed, BatchesAre, BatchOK
<1>6. TodoIs'
  BY <1>1 DEF TodoIs
<1>7. RequestsOK' /\ \A x \in Req : (HoldsKV(x)' <=> HoldsKV(x)) /\ (Finished(x)' <=> Finished(x))
  BY <1>1 DEF RequestsOK, HoldsKV, Finished
<1>8. Members'
  <2>1. \A x \in running \cup ReqsOf(batch) : x \in Req /\ (HoldsKV(x) \/ Finished(x))
    BY <1>1, BatchReqs DEF Placed, Members, LoopInv, TypeOK
  <2> QED BY <1>1, <1>3, <1>7, <2>1 DEF Placed, Members
<1>9. ChunkIs'
  BY <1>1, <1>3, ReqAssumption DEF Placed, Members, ChunkIs, HoldsKV
<1>10. ResultsFollowed'
  <2> SUFFICES ASSUME NEW x \in Req, HoldsKV(x) PROVE Followed(x)'
    BY <1>7 DEF ResultsFollowed, Followed
  <2>1. ~DueOld(x) /\ ~DueNew(x)' /\ (DueOld(x)' <=> DueNew(x))
    BY <1>1, <1>3 DEF DueOld, DueNew
  <2>2. OldToken(x) = << >> /\ NewToken(x)' = << >> /\ OldToken(x)' = NewToken(x)
    BY <1>1, <2>1 DEF OldToken, NewToken
  <2>3. Fill(x)' = Fill(x) /\ Fill(x) \in Seq(Token)
    BY <1>1 DEF RequestsOK, ControlOK, Fill, Key
  <2>4. NewToken(x) \in Seq(Token)
    <3>1. DueNew(x) => batch.tok[x] \in Token
      BY PromptsAssumption DEF LoopInv, TypeOK, Batch, DueNew, ReqsOf
    <3> QED BY <3>1 DEF NewToken
  <2>5. ASSUME NEW u \in Seq(Token), NEW v \in Seq(Token)
        PROVE  (u \o << >>) \o v = (u \o v) \o << >>
    OBVIOUS
  <2>6. req[x].dev = (Fill(x) \o NewToken(x)) \o << >>
    <3>1. req[x].dev = (Fill(x) \o OldToken(x)) \o NewToken(x)
      BY DEF ResultsFollowed, Followed
    <3>2. req[x].dev = (Fill(x) \o << >>) \o NewToken(x)
      BY <2>2, <3>1
    <3> QED BY <2>3, <2>4, <2>5, <3>2
  <2>7. req[x].middle = Bit(DueOld(x) /\ last_batch.chunked = x)'
                          + Bit(DueNew(x) /\ batch.chunked = x)'
    BY <1>1, <2>1 DEF ResultsFollowed, Followed, Bit
  <2> QED BY <1>1, <2>2, <2>3, <2>6, <2>7 DEF Followed
<1> QED BY <1>2, <1>4, <1>5, <1>6, <1>7, <1>8, <1>9, <1>10 DEF Placed

\* The invariant holds before the loop starts.
LEMMA InitControl ==
  ASSUME Init
  PROVE  Control
<1>1. LoopInv
  BY InitKeeps
<1>2. RequestsOK /\ \A x \in Req : req[x].phase = "idle"
  BY IdleReqControl DEF Init, RequestsOK
<1>3. ReqsOf(batch) = {} /\ ReqsOf(last_batch) = {} /\ BatchOK(batch) /\ BatchOK(last_batch)
      /\ batch.kind = "none" /\ last_batch.kind = "none" /\ batch.chunked = NoReq
  BY NoBatchOK DEF Init
<1>4. QueueIs
  <2>1. queue = << >> /\ << >> = << >> \o << >>
    BY DEF Init
  <2> QED BY <1>3, <2>1 DEF QueueIs
<1>5. BatchesAre /\ TodoIs
  BY <1>3 DEF Init, BatchesAre, TodoIs
<1>6. Members /\ ChunkIs
  BY <1>2, <1>3 DEF Init, Members, ChunkIs, HoldsKV
<1>7. ResultsFollowed
  BY <1>2 DEF ResultsFollowed, Followed, HoldsKV
<1> QED BY <1>1, <1>2, <1>4, <1>5, <1>6, <1>7 DEF Control, Placed

-----------------------------------------------------------------------------
(* What the invariant says of the results in flight *)

\* Two sequences of one element, concatenated.
LEMMA OneAndOne ==
  ASSUME NEW S, NEW u \in Seq(S), NEW v \in Seq(S), Len(u) = 1, Len(v) = 1
  PROVE  DOMAIN (u \o v) = 1 .. 2 /\ (u \o v)[1] = u[1] /\ (u \o v)[2] = v[1]
<1>1. /\ u \o v \in Seq(S) /\ Len(u \o v) = Len(u) + Len(v)
      /\ \A i \in 1 .. Len(u) + Len(v) : (u \o v)[i] = IF i <= Len(u) THEN u[i] ELSE v[i - Len(u)]
  BY ConcatProperties
<1> QED BY <1>1

\* The batches whose results are in flight, and which of them r is due.
LEMMA InFlightCases ==
  ASSUME Control, NEW r \in Req
  PROVE  \/ InFlight = << >> /\ ~DueOld(r) /\ ~DueNew(r) /\ Due(r) = {}
         \/ /\ InFlight = <<last_batch>> /\ ~DueNew(r)
            /\ Due(r) = (IF DueOld(r) THEN {1} ELSE {})
         \/ /\ InFlight = <<batch>> /\ ~DueOld(r)
            /\ Due(r) = (IF DueNew(r) THEN {1} ELSE {})
         \/ /\ InFlight[1] = last_batch /\ InFlight[2] = batch
            /\ Due(r) = (IF DueOld(r) THEN {1} ELSE {}) \cup (IF DueNew(r) THEN {2} ELSE {})
<1> USE DEF Control
<1> DEFINE Old == Overlap /\ last_batch.kind # "none"
           New == \/ pc = "process" /\ batch.kind # "none"
                  \/ pc \in {"extend", "alloc_decode", "crashed"}
           L == IF pc = "process" /\ batch.kind # "none" THEN <<batch>> ELSE << >>
           B == IF pc \in {"extend", "alloc_decode", "crashed"} THEN <<batch>> ELSE << >>
           O == IF Old THEN <<last_batch>> ELSE << >>
<1>1. queue = O \o L /\ InFlight = queue \o B
  BY DEF Placed, QueueIs, InFlight
<1>2. batch \in Batch /\ last_batch \in Batch
  BY DEF LoopInv, TypeOK
<1>3. ~Old => ~DueOld(r)
  BY DEF DueOld, Placed, BatchesAre, BatchOK
<1>4. ~New => ~DueNew(r)
  BY DEF DueNew, Placed, BatchesAre, BatchOK, LoopInv, TypeOK
<1>5. /\ pc = "process" /\ Old => Pops(queue)
      /\ pc = "process" /\ Overlap /\ ~Old => ~Pops(queue)
      /\ pc = "process" /\ ~Overlap /\ New => Pops(queue)
  <2>1. CASE pc = "process" /\ Old
    <3>1. queue = <<last_batch>> \o L /\ L \in Seq(Batch)
      BY <1>1, <1>2, <2>1
    <3> HIDE DEF L
    <3>2. queue # << >>
      BY <1>2, <3>1
    <3> QED BY <2>1, <3>2 DEF Pops
  <2>2. CASE pc = "process" /\ ~Overlap /\ New
    <3>1. queue = << >> \o <<batch>>
      BY <1>1, <2>2
    <3> QED BY <2>2, <3>1 DEF Pops
  <2> QED BY <2>1, <2>2 DEF Pops
<1>6. InFlight = O \o (IF New THEN <<batch>> ELSE << >>)
  <2>1. O \in Seq(Batch) /\ L \in Seq(Batch) /\ B \in Seq(Batch)
    BY <1>2
  <2>2. L \o B = IF New THEN <<batch>> ELSE << >>
    <3>1. CASE pc = "process"
      BY <3>1, <1>2
    <3>2. CASE pc # "process"
      BY <3>2, <1>2
    <3> QED BY <3>1, <3>2
  <2> HIDE DEF O, L, B, New
  <2>3. (O \o L) \o B = O \o (L \o B)
    BY <2>1
  <2> QED BY <1>1, <2>2, <2>3
<1>7. CASE Old /\ New
  <2>1. DOMAIN InFlight = 1 .. 2 /\ InFlight[1] = last_batch /\ InFlight[2] = batch
    <3>1. InFlight = <<last_batch>> \o <<batch>>
      BY <1>6, <1>7
    <3>3. ASSUME NEW x \in Batch
          PROVE  <<x>> \in Seq(Batch) /\ Len(<<x>>) = 1 /\ <<x>>[1] = x
      OBVIOUS
    <3> HIDE DEF Old, New
    <3>4. /\ <<last_batch>> \in Seq(Batch) /\ Len(<<last_batch>>) = 1
          /\ <<last_batch>>[1] = last_batch
          /\ <<batch>> \in Seq(Batch) /\ Len(<<batch>>) = 1 /\ <<batch>>[1] = batch
      BY <1>2, <3>3
    <3>5. /\ DOMAIN (<<last_batch>> \o <<batch>>) = 1 .. 2
          /\ (<<last_batch>> \o <<batch>>)[1] = <<last_batch>>[1]
          /\ (<<last_batch>> \o <<batch>>)[2] = <<batch>>[1]
      BY <3>4, OneAndOne
    <3> QED BY <3>1, <3>4, <3>5
  <2>2. \A i : i \in Due(r) <=> (i = 1 /\ DueOld(r)) \/ (i = 2 /\ DueNew(r))
    <3> HIDE DEF Old, New
    <3>2. 1 \in Due(r) <=> DueOld(r)
      BY <1>5, <1>7, <2>1 DEF Due, DueOld, Old
    <3>3. 2 \in Due(r) <=> DueNew(r)
      BY <1>7, <2>1 DEF Due, DueNew, Old
    <3>4. \A i \in Due(r) : i \in {1, 2}
      BY <2>1 DEF Due
    <3> QED BY <3>2, <3>3, <3>4
  <2> QED BY <2>1, <2>2
<1>8. CASE Old /\ ~New
  <2>1. InFlight = <<last_batch>>
    BY <1>2, <1>6, <1>8
  <2>2. \A i : i \in Due(r) <=> (i = 1 /\ DueOld(r))
    <3>1. DOMAIN InFlight = 1 .. 1 /\ InFlight[1] = last_batch
      BY <2>1
    <3>2. 1 \in Due(r) <=> DueOld(r)
      BY <1>5, <1>8, <3>1 DEF Due, DueOld
    <3>3. \A i \in Due(r) : i = 1
      BY <3>1 DEF Due
    <3> QED BY <3>2, <3>3
  <2> QED BY <1>4, <1>8, <2>1, <2>2
<1>9. CASE ~Old /\ New
  <2>1. InFlight = <<batch>>
    <3>1. InFlight = << >> \o <<batch>>
      BY <1>6, <1>9
    <3> HIDE DEF Old, New
    <3> QED BY <1>2, <3>1
  <2>2. \A i : i \in Due(r) <=> (i = 1 /\ DueNew(r))
    <3>1. DOMAIN InFlight = 1 .. 1 /\ InFlight[1] = batch
      BY <2>1
    <3>2. 1 \in Due(r) <=> DueNew(r)
      BY <1>5, <1>9, <3>1 DEF Due, DueNew
    <3>3. \A i \in Due(r) : i = 1
      BY <3>1 DEF Due
    <3> QED BY <3>2, <3>3
  <2> QED BY <1>3, <1>9, <2>1, <2>2
<1>10. CASE ~Old /\ ~New
  <2>1. InFlight = << >>
    BY <1>6, <1>10
  <2>2. Due(r) = {}
    BY <2>1 DEF Due
  <2> QED BY <1>3, <1>4, <1>10, <2>1, <2>2
<1> QED BY <1>7, <1>8, <1>9, <1>10

\* Sets of at most two results.
LEMMA SmallSets ==
  /\ Cardinality({}) = 0
  /\ \A i : Cardinality({i}) = 1 /\ IsFiniteSet({i})
  /\ Cardinality({1, 2}) = 2
<1>1. Cardinality({}) = 0 /\ IsFiniteSet({})
  BY FS_EmptySet
<1>2. \A i : Cardinality({i}) = 1 /\ IsFiniteSet({i})
  BY FS_Singleton
<1>3. {1} \cup {2} = {1, 2}
  OBVIOUS
<1>4. Cardinality({1} \cup {2}) = 2
  <2>1. IsFiniteSet({1}) /\ Cardinality({1}) = 1 /\ 2 \notin {1}
    BY <1>2
  <2> QED BY <2>1, FS_AddElement
<1> QED BY <1>1, <1>2, <1>3, <1>4

\* The invariant implies MiddleChunksExact.
LEMMA ControlCountsChunks ==
  ASSUME Control
  PROVE  MiddleChunksExact
<1> SUFFICES ASSUME NEW r \in Req, HoldsKV(r)
             PROVE  req[r].middle = Cardinality(MiddleChunksDue(r))
  BY DEF MiddleChunksExact, Holders
<1> DEFINE a == DueOld(r) /\ last_batch.chunked = r
           b == DueNew(r) /\ batch.chunked = r
<1>1. req[r].middle = Bit(a) + Bit(b)
  BY DEF Control, ResultsFollowed, Followed
<1>2. CASE InFlight = << >> /\ ~DueOld(r) /\ ~DueNew(r) /\ Due(r) = {}
  <2>1. MiddleChunksDue(r) = {}
    BY <1>2 DEF MiddleChunksDue
  <2> QED BY <1>1, <1>2, <2>1, SmallSets DEF Bit
<1>3. CASE InFlight = <<last_batch>> /\ ~DueNew(r) /\ Due(r) = (IF DueOld(r) THEN {1} ELSE {})
  <2>1. InFlight[1] = last_batch
    BY <1>3
  <2>2. MiddleChunksDue(r) = IF a THEN {1} ELSE {}
    BY <1>3, <2>1 DEF MiddleChunksDue
  <2>3. Bit(b) = 0
    BY <1>3 DEF Bit
  <2>4. CASE a
    <3>1. Bit(a) = 1 /\ MiddleChunksDue(r) = {1} /\ Cardinality({1}) = 1
      BY <2>2, <2>4, SmallSets DEF Bit
    <3> QED BY <1>1, <2>3, <3>1
  <2>5. CASE ~a
    BY <1>1, <2>2, <2>3, <2>5, SmallSets DEF Bit
  <2> QED BY <2>4, <2>5
<1>4. CASE InFlight = <<batch>> /\ ~DueOld(r) /\ Due(r) = (IF DueNew(r) THEN {1} ELSE {})
  <2>1. InFlight[1] = batch
    BY <1>4
  <2>2. MiddleChunksDue(r) = IF b THEN {1} ELSE {}
    BY <1>4, <2>1 DEF MiddleChunksDue
  <2>3. Bit(a) = 0
    BY <1>4 DEF Bit
  <2>4. CASE b
    <3>1. Bit(b) = 1 /\ MiddleChunksDue(r) = {1} /\ Cardinality({1}) = 1
      BY <2>2, <2>4, SmallSets DEF Bit
    <3> QED BY <1>1, <2>3, <3>1
  <2>5. CASE ~b
    BY <1>1, <2>2, <2>3, <2>5, SmallSets DEF Bit
  <2> QED BY <2>4, <2>5
<1>5. CASE /\ InFlight[1] = last_batch /\ InFlight[2] = batch
           /\ Due(r) = (IF DueOld(r) THEN {1} ELSE {}) \cup (IF DueNew(r) THEN {2} ELSE {})
  <2>1. InFlight[1] = last_batch /\ InFlight[2] = batch
    BY <1>5
  <2>2. \A i : i \in MiddleChunksDue(r) <=> (i = 1 /\ a) \/ (i = 2 /\ b)
    BY <1>5, <2>1 DEF MiddleChunksDue
  <2> HIDE DEF a, b
  <2>3. /\ a /\ b => MiddleChunksDue(r) = {1, 2}
        /\ a /\ ~b => MiddleChunksDue(r) = {1}
        /\ ~a /\ b => MiddleChunksDue(r) = {2}
        /\ ~a /\ ~b => MiddleChunksDue(r) = {}
    BY <2>2
  <2>4. /\ Cardinality({1}) = 1 /\ Cardinality({2}) = 1 /\ Cardinality({1, 2}) = 2
        /\ Cardinality({}) = 0
    BY SmallSets
  <2>5. CASE a
    <3>1. CASE b
      BY <1>1, <2>3, <2>4, <2>5, <3>1 DEF Bit
    <3>2. CASE ~b
      BY <1>1, <2>3, <2>4, <2>5, <3>2 DEF Bit
    <3> QED BY <3>1, <3>2
  <2>6. CASE ~a
    <3>1. CASE b
      BY <1>1, <2>3, <2>4, <2>6, <3>1 DEF Bit
    <3>2. CASE ~b
      BY <1>1, <2>3, <2>4, <2>6, <3>2 DEF Bit
    <3> QED BY <3>1, <3>2
  <2> QED BY <2>5, <2>6
<1> QED BY <1>2, <1>3, <1>4, <1>5, InFlightCases

\* The invariant implies BatchMembership.
LEMMA ControlMembership ==
  ASSUME Control
  PROVE  BatchMembership
BY DEF Control, Placed, Members, ChunkIs, BatchMembership, HoldsKV

\* A key with one token more.
LEMMA OneMore ==
  ASSUME NEW f \in Key, NEW a \in Token
  PROVE  /\ f \o <<a>> \in Key /\ Len(f \o <<a>>) = Len(f) + 1
         /\ (f \o <<a>>)[Len(f) + 1] = a
         /\ \A i \in 1 .. Len(f) : (f \o <<a>>)[i] = f[i]
<1>1. f \o <<a>> = Append(f, a) /\ f \in Seq(Token) /\ Len(f) \in Nat
  BY DEF Key
<1> QED BY <1>1 DEF Key

\* The tokens due to r are the ones the device sampled beyond r's output.
LEMMA TokensCases ==
  ASSUME Control, NEW r \in Req, HoldsKV(r)
  PROVE  \/ TokensDue(r) = {} /\ req[r].dev = Fill(r)
         \/ \E i \in {1, 2} :
              /\ TokensDue(r) = {i} /\ InFlight[i].tok[r] \in Token
              /\ req[r].dev = Fill(r) \o <<InFlight[i].tok[r]>>
         \/ /\ TokensDue(r) = {1, 2}
            /\ InFlight[1].tok[r] \in Token /\ InFlight[2].tok[r] \in Token
            /\ req[r].dev = (Fill(r) \o <<InFlight[1].tok[r]>>) \o <<InFlight[2].tok[r]>>
<1> DEFINE a == DueOld(r) /\ last_batch.chunked # r
           b == DueNew(r) /\ batch.chunked # r
           f == Fill(r)
           x == last_batch.tok[r]
           y == batch.tok[r]
<1>1. req[r].dev = (f \o OldToken(r)) \o NewToken(r)
  BY DEF Control, ResultsFollowed, Followed
<1>2. f \in Seq(Token)
  BY DEF Control, RequestsOK, ControlOK, Fill, Key
<1>3. (DueOld(r) => x \in Token) /\ (DueNew(r) => y \in Token)
  BY PromptsAssumption DEF Control, LoopInv, TypeOK, Batch, DueOld, DueNew, ReqsOf
<1>4. /\ a => OldToken(r) = <<x>>
      /\ ~a => OldToken(r) = << >>
      /\ b => NewToken(r) = <<y>>
      /\ ~b => NewToken(r) = << >>
  BY DEF OldToken, NewToken
<1>5. CASE ~a /\ ~b
  <2>1. req[r].dev = (f \o << >>) \o << >>
    BY <1>1, <1>4, <1>5
  <2>2. req[r].dev = f
    <3> HIDE DEF f
    <3> QED BY <1>2, <2>1
  <2>3. TokensDue(r) = {}
    <3>1. \A i \in Due(r) : i \in MiddleChunksDue(r)
      <4> SUFFICES ASSUME NEW i \in Due(r) PROVE InFlight[i].chunked = r
        BY DEF MiddleChunksDue
      <4> QED BY <1>5, InFlightCases
    <3> QED BY <3>1 DEF TokensDue
  <2> QED BY <2>2, <2>3
<1>6. CASE a /\ ~b
  <2>1. req[r].dev = f \o <<x>>
    <3>1. req[r].dev = (f \o <<x>>) \o << >> /\ x \in Token
      BY <1>1, <1>3, <1>4, <1>6
    <3> HIDE DEF f, x
    <3> QED BY <1>2, <3>1
  <2>2. InFlight[1] = last_batch /\ TokensDue(r) = {1}
    <3>1. InFlight[1] = last_batch /\ 1 \in Due(r)
      BY <1>6, InFlightCases
    <3>2. \A i \in Due(r) : i # 1 => InFlight[i].chunked = r
      BY <1>6, InFlightCases
    <3>3. \A i : i \in TokensDue(r) <=> i = 1
      BY <1>6, <3>1, <3>2 DEF TokensDue, MiddleChunksDue
    <3> QED BY <3>1, <3>3
  <2> QED BY <1>3, <1>6, <2>1, <2>2
<1>7. CASE ~a /\ b
  <2>1. req[r].dev = f \o <<y>>
    <3>1. req[r].dev = (f \o << >>) \o <<y>>
      BY <1>1, <1>4, <1>7
    <3>2. f \o << >> = f
      <4> HIDE DEF f
      <4> QED BY <1>2
    <3> QED BY <3>1, <3>2
  <2>2. PICK i \in {1, 2} : InFlight[i] = batch /\ i \in Due(r)
                            /\ \A j \in Due(r) : j # i => InFlight[j].chunked = r
    BY <1>7, InFlightCases
  <2>3. \A j : j \in TokensDue(r) <=> j = i
    BY <1>7, <2>2 DEF TokensDue, MiddleChunksDue
  <2>4. TokensDue(r) = {i}
    BY <2>3
  <2> QED BY <1>3, <1>7, <2>1, <2>2, <2>4
<1>8. CASE a /\ b
  <2>1. req[r].dev = (f \o <<x>>) \o <<y>>
    BY <1>1, <1>4, <1>8
  <2>2. InFlight[1] = last_batch /\ InFlight[2] = batch /\ Due(r) = {1, 2}
    BY <1>8, InFlightCases
  <2>3. TokensDue(r) = {1, 2}
    BY <1>8, <2>2 DEF TokensDue, MiddleChunksDue
  <2> QED BY <1>3, <1>8, <2>1, <2>2, <2>3
<1> QED BY <1>5, <1>6, <1>7, <1>8

\* The invariant implies OutputFollowsDevice.
LEMMA ControlFollowsDevice ==
  ASSUME Control
  PROVE  OutputFollowsDevice
<1> SUFFICES ASSUME NEW r \in Req, HoldsKV(r)
             PROVE  /\ Len(req[r].dev) = Len(Fill(r)) + Cardinality(TokensDue(r))
                    /\ IsPrefixOf(Fill(r), req[r].dev)
                    /\ \A i \in TokensDue(r) :
                         req[r].dev[Len(Fill(r)) + Cardinality({j \in TokensDue(r) : j <= i})]
                           = InFlight[i].tok[r]
  BY DEF OutputFollowsDevice, Holders
<1> DEFINE f == Fill(r)
           T == TokensDue(r)
<1>1. f \in Key /\ Len(f) \in Nat
  <2>1. f \in Seq(Token)
    BY DEF Control, RequestsOK, ControlOK, Fill, Key
  <2> HIDE DEF f
  <2> QED BY <2>1 DEF Key
<1> HIDE DEF f, T
<1>2. CASE T = {} /\ req[r].dev = f
  <2>1. IsPrefixOf(f, f)
    BY <1>1 DEF IsPrefixOf
  <2> QED BY <1>1, <1>2, <2>1, SmallSets DEF f, T
<1>3. ASSUME NEW i \in {1, 2}, NEW t \in Token, T = {i}, t = InFlight[i].tok[r],
             req[r].dev = f \o <<t>>
      PROVE  /\ Len(req[r].dev) = Len(f) + Cardinality(T)
             /\ IsPrefixOf(f, req[r].dev)
             /\ \A k \in T : req[r].dev[Len(f) + Cardinality({j \in T : j <= k})]
                               = InFlight[k].tok[r]
  <2>1. /\ Len(req[r].dev) = Len(f) + 1 /\ req[r].dev[Len(f) + 1] = t
        /\ \A k \in 1 .. Len(f) : req[r].dev[k] = f[k]
    BY <1>1, <1>3, OneMore
  <2>2. Cardinality(T) = 1
    BY <1>3, SmallSets
  <2>3. {j \in T : j <= i} = T
    BY <1>3
  <2>4. Len(req[r].dev) = Len(f) + Cardinality(T)
    BY <2>1, <2>2
  <2>5. IsPrefixOf(f, req[r].dev)
    BY <1>1, <2>1 DEF IsPrefixOf
  <2>6. req[r].dev[Len(f) + Cardinality({j \in T : j <= i})] = InFlight[i].tok[r]
    BY <1>3, <2>1, <2>2, <2>3
  <2> QED BY <1>3, <2>4, <2>5, <2>6
<1>4. ASSUME NEW t \in Token, NEW u \in Token, T = {1, 2}, t = InFlight[1].tok[r],
             u = InFlight[2].tok[r], req[r].dev = (f \o <<t>>) \o <<u>>
      PROVE  /\ Len(req[r].dev) = Len(f) + Cardinality(T)
             /\ IsPrefixOf(f, req[r].dev)
             /\ \A k \in T : req[r].dev[Len(f) + Cardinality({j \in T : j <= k})]
                               = InFlight[k].tok[r]
  <2> DEFINE g == f \o <<t>>
  <2>1. /\ g \in Key /\ Len(g) = Len(f) + 1 /\ g[Len(f) + 1] = t
        /\ \A k \in 1 .. Len(f) : g[k] = f[k]
    BY <1>1, OneMore
  <2>2. req[r].dev = g \o <<u>>
    BY <1>4
  <2> HIDE DEF g
  <2>3. /\ Len(req[r].dev) = Len(g) + 1 /\ req[r].dev[Len(g) + 1] = u
        /\ \A k \in 1 .. Len(g) : req[r].dev[k] = g[k]
    BY <2>1, <2>2, OneMore
  <2>4. Cardinality(T) = 2 /\ {j \in T : j <= 1} = {1} /\ {j \in T : j <= 2} = {1, 2}
    BY <1>4, SmallSets
  <2>5. Cardinality({1}) = 1 /\ Cardinality({1, 2}) = 2
    BY SmallSets
  <2>6. req[r].dev[Len(f) + 1] = t /\ req[r].dev[Len(f) + 2] = u
    BY <1>1, <2>1, <2>3
  <2>7. Len(req[r].dev) = Len(f) + 2 /\ IsPrefixOf(f, req[r].dev)
    BY <1>1, <2>1, <2>3 DEF IsPrefixOf
  <2> QED BY <1>4, <2>4, <2>5, <2>6, <2>7
<1> QED BY <1>2, <1>3, <1>4, TokensCases DEF f, T
=============================================================================
