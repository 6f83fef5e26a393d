---------------------------- MODULE LoRAAdapters ----------------------------
(***************************************************************************)
(* Dynamic LoRA adapters: the registry and its usage counters in the       *)
(* tokenizer process (srt/lora/lora_registry.py), the load and unload      *)
(* operations that keep it and the scheduler ranks in step                 *)
(* (managers/tokenizer_control_mixin.py), and the requests that resolve,   *)
(* use and release adapters (managers/tokenizer_manager.py).               *)
(*                                                                         *)
(* Everything runs on one asyncio loop.  The registry's reader-writer lock *)
(* and the counters' condition locks are never held across a suspension on *)
(* these paths, so an uncontended `async with` does not suspend and the    *)
(* code between two real suspensions is one action.  The real suspensions  *)
(* are: waiting for lora_update_lock, for the ranks' replies, for a        *)
(* counter to reach zero, and for asyncio.gather() in the list form of     *)
(* acquire().  One update operation at a time holds lora_update_lock; its  *)
(* progress is the variable op.                                            *)
(***************************************************************************)
EXTENDS Naturals, Sequences, FiniteSets, FiniteSetsExt

CONSTANTS
    Req,         \* requests
    Admin,       \* the caller of /load_lora_adapter and /unload_lora_adapter
    Name,        \* adapter names
    Paths,       \* Paths[r]: the adapter of each sub-request of r (obj.lora_path)
    ListForm,    \* requests whose lora_path is a list
    Preloaded,   \* server_args.lora_paths, in order
    Managed,     \* adapters an administrator loads and unloads
    Pinned,      \* adapters loaded with pinned=True
    MaxLoaded,   \* max_loaded_loras
    Rank,        \* scheduler ranks that answer an update
    Id,          \* adapter ids (uuids); TLC's bound on them is never reached
    NoId, NoName

ASSUME LoRAAssumption ==
    /\ \A r \in Req : Paths[r] \in Seq(Name) /\ Paths[r] # <<>>
    /\ \A r \in Req \ ListForm : Len(Paths[r]) = 1
    /\ Admin \notin Req /\ NoId \notin Id /\ NoName \notin Name
    /\ Preloaded \in Seq(Name) /\ DOMAIN Preloaded \subseteq Id
    /\ MaxLoaded \in Nat \ {0}
    /\ Managed \subseteq Name
    /\ Rank # {} /\ IsFiniteSet(Req)

\* The names a request asks for; _resolve_lora_path refuses more than fit.
NamesOf(r) == {Paths[r][i] : i \in DOMAIN Paths[r]}

SubRequests == UNION {{r} \X DOMAIN Paths[r] : r \in Req}

ASSUME RequestsFit == \A r \in Req : Cardinality(NamesOf(r)) <= MaxLoaded

\* validate_new_adapter refuses to pin every slot of a batch, and
\* max_loaded_loras is at least the number of those slots.
ASSUME PinsFit == IsFiniteSet(Pinned) /\ Cardinality(Pinned) < MaxLoaded

\* check_lora_server_args bounds server_args.lora_paths, and registering a name
\* twice is an error.
ASSUME PreloadedFits ==
    /\ Len(Preloaded) <= MaxLoaded
    /\ \A i, j \in DOMAIN Preloaded : Preloaded[i] = Preloaded[j] => i = j

VARIABLES
    registry,   \* _registry: [name, id] entries, least recently used first
    counters,   \* _counters: id -> number of sub-requests using it
    ref_cache,  \* names in lora_ref_cache
    pending,    \* pending_lora_unloads: name -> id or NoId
    op,         \* the update that holds lora_update_lock
    backend,    \* adapters each rank has loaded
    pc,         \* progress of each request
    todo,       \* adapters a request still has to reload
    using       \* using[r][i]: the id sub-request i holds, NoId when it holds none

vars == <<registry, counters, ref_cache, pending, op, backend, pc, todo, using>>

NoOp == [stage |-> "none", who |-> Admin, wants |-> NoName, result |-> "ok",
         name |-> NoName, id |-> NoId]

NamesIn(reg) == {reg[i].name : i \in DOMAIN reg}
IndexOf(reg, n) == CHOOSE i \in DOMAIN reg : reg[i].name = n
EntryOf(reg, n) == reg[IndexOf(reg, n)]

\* del _registry[n], for a name it has
Without(reg, n) ==
    LET at == IndexOf(reg, n)
    IN [i \in 1 .. Len(reg) - 1 |-> IF i < at THEN reg[i] ELSE reg[i + 1]]

\* OrderedDict.move_to_end; a name that is not registered is passed over
Touch(reg, n) ==
    IF n \in NamesIn(reg) THEN Append(Without(reg, n), EntryOf(reg, n)) ELSE reg

\* The names of a list touched one after the other.  get_unregistered_loras
\* goes through a set, in an order Python leaves open: the list's is one.
TouchAll(reg, names) ==
    LET after[k \in 0 .. Len(names)] ==
            IF k = 0 THEN reg ELSE Touch(after[k - 1], names[k])
    IN after[Len(names)]

\* The ids no part of the system remembers: a new uuid is one of them.
UnusedIds ==
    {id \in Id :
        /\ id \notin DOMAIN counters
        /\ \A n \in Name : pending[n] # id
        /\ \A k \in Rank : \A e \in backend[k] : e.id # id
        /\ \A r \in Req : \A i \in DOMAIN Paths[r] : using[r][i] # id}

FreshId == CHOOSE id \in UnusedIds : TRUE

Init ==
    /\ registry = [i \in DOMAIN Preloaded |-> [name |-> Preloaded[i], id |-> i]]
    /\ counters = [id \in DOMAIN Preloaded |-> 0]
    /\ ref_cache = NamesIn(registry)
    /\ pending = [n \in Name |-> NoId]
    /\ op = NoOp
    /\ backend = [k \in Rank |-> {registry[i] : i \in DOMAIN registry}]
    /\ pc = [r \in Req |-> "idle"]
    /\ todo = [r \in Req |-> {}]
    /\ using = [r \in Req |-> [i \in DOMAIN Paths[r] |-> NoId]]

\* The tokenizer process's state, and the step to a new one.  Operations that
\* follow each other without a suspension are composed as functions on it.
Here == [registry |-> registry, counters |-> counters, pending |-> pending,
         op |-> op, pc |-> pc, todo |-> todo, using |-> using]

Become(s) ==
    /\ registry' = s.registry
    /\ counters' = s.counters
    /\ pending' = s.pending
    /\ op' = s.op
    /\ pc' = s.pc
    /\ todo' = s.todo
    /\ using' = s.using

-----------------------------------------------------------------------------
(* Requests                                                                *)

\* Mutant: the request is not counted in.
AcquireUncounted(s, r) ==
    IF ~(NamesOf(r) \subseteq NamesIn(s.registry))
      THEN [s EXCEPT !.pc[r] = "missing"]
      ELSE [s EXCEPT !.registry = TouchAll(@, Paths[r]),
                     !.using[r] = [i \in DOMAIN Paths[r] |-> EntryOf(s.registry, Paths[r][i]).id],
                     !.pc[r] = "running"]

\* LoRARegistry.acquire: look the ids up, which touches the entries as far as
\* the first missing one, and count the request in.  With one name the
\* increment follows in the same step; with a list it is left to the tasks
\* asyncio.gather() starts.
Acquire(s, r) ==
    LET ids == [i \in DOMAIN Paths[r] |-> EntryOf(s.registry, Paths[r][i]).id]
        missing == {i \in DOMAIN Paths[r] : Paths[r][i] \notin NamesIn(s.registry)}
    IN
    IF missing # {}
      THEN [s EXCEPT !.registry = TouchAll(@, SubSeq(Paths[r], 1, Min(missing) - 1)),
                     !.pc[r] = "missing"]
      ELSE IF r \in ListForm
        THEN [s EXCEPT !.registry = TouchAll(@, Paths[r]),
                       !.using[r] = ids,
                       !.pc[r] = "gather"]
        ELSE [s EXCEPT !.registry = TouchAll(@, Paths[r]),
                       !.using[r] = ids,
                       !.counters[ids[1]] = @ + 1,
                       !.pc[r] = "running"]

\* _resolve_lora_path up to its first suspension: get_unregistered_loras
\* touches what is registered; with nothing to reload, acquire follows at once.
Resolve(r) ==
    /\ pc[r] = "idle"
    /\ LET absent == NamesOf(r) \ NamesIn(registry)
           seen == [Here EXCEPT !.registry = TouchAll(@, Paths[r])]
       IN IF absent = {}
            THEN Become(Acquire(seen, r))
            ELSE Become([seen EXCEPT !.todo[r] = absent, !.pc[r] = "reloading"])
    /\ UNCHANGED <<ref_cache, backend>>

\* The tasks of asyncio.gather(): each increments the counter object it was
\* given, which may have left the registry by now.
Increment(r) ==
    /\ pc[r] = "gather"
    /\ pc' = [pc EXCEPT ![r] = "running"]
    /\ counters' = [id \in DOMAIN counters |->
                      counters[id] + Cardinality({i \in DOMAIN Paths[r] : using[r][i] = id})]
    /\ UNCHANGED <<registry, ref_cache, pending, op, backend, todo, using>>

\* A sub-request finishes: _release_lora_once and LoRARegistry.release.  If its
\* counter is gone the release task ends with a KeyError.
Release(r, i) ==
    /\ pc[r] = "running"
    /\ using[r][i] # NoId
    /\ using' = [using EXCEPT ![r][i] = NoId]
    /\ counters' = [id \in DOMAIN counters |->
                      IF id = using[r][i] THEN counters[id] - 1 ELSE counters[id]]
    /\ pc' = [pc EXCEPT ![r] =
                IF \A j \in DOMAIN Paths[r] : using'[r][j] = NoId THEN "done" ELSE @]
    /\ UNCHANGED <<registry, ref_cache, pending, op, backend, todo>>

-----------------------------------------------------------------------------
(* Updates, under lora_update_lock                                         *)

\* Mutant: a request whose reload failed tries again.
EndLoadRetries(s, who, n, result) ==
    LET freed == [s EXCEPT !.op = NoOp] IN
    IF who = Admin \/ result = "error" THEN freed
    ELSE IF s.todo[who] \ {n} # {} THEN [freed EXCEPT !.todo[who] = @ \ {n}]
    ELSE Acquire([freed EXCEPT !.todo[who] = {}], who)

\* load_lora_adapter returns "ok", "already" (loaded) or "error" and gives the
\* lock back.  A request goes on to its next reload or to acquire, or fails.
EndLoad(s, who, n, result) ==
    LET freed == [s EXCEPT !.op = NoOp] IN
    IF who = Admin THEN freed
    ELSE IF result = "error" THEN [freed EXCEPT !.todo[who] = {}, !.pc[who] = "failed"]
    ELSE IF s.todo[who] \ {n} # {} THEN [freed EXCEPT !.todo[who] = @ \ {n}]
    ELSE Acquire([freed EXCEPT !.todo[who] = {}], who)

\* Mutant: an unload always starts from the registry's entry and forgets it.
BeginUnloadNoRetry(s, who, wants, result, n) ==
    LET id == IF n \in NamesIn(s.registry) THEN EntryOf(s.registry, n).id ELSE NoId
    IN [s EXCEPT !.registry = IF n \in NamesIn(@) THEN Without(@, n) ELSE @,
                 !.op = [stage |-> "drain", who |-> who, wants |-> wants,
                         result |-> result, name |-> n, id |-> id]]

\* _unload_lora_adapter_locked up to wait_for_unload: a pending unload of this
\* name is taken up again, otherwise the name is unregistered.
BeginUnload(s, who, wants, result, n) ==
    LET retry == s.pending[n] # NoId
        id == IF retry THEN s.pending[n] ELSE EntryOf(s.registry, n).id
    IN [s EXCEPT !.registry = IF retry THEN @ ELSE Without(@, n),
                 !.pending[n] = id,
                 !.op = [stage |-> "drain", who |-> who, wants |-> wants,
                         result |-> result, name |-> n, id |-> id]]

Victims(reg) == {i \in DOMAIN reg : reg[i].name \notin Pinned}

\* Mutant: the most recently used adapter goes first.
LruNewest(reg) == reg[Max(Victims(reg))].name

\* lru_lora_name(exclude_pinned=True): None when there is no victim.
Lru(reg) == reg[Min(Victims(reg))].name

\* The tail of load_lora_adapter: evict while too many adapters are registered.
EvictOrEnd(s, who, n, result) ==
    IF Len(s.registry) <= MaxLoaded THEN EndLoad(s, who, n, result)
    ELSE IF Victims(s.registry) = {} THEN EndLoad(s, who, n, "error")
    ELSE BeginUnload(s, who, n, result, Lru(s.registry))

\* load_lora_adapter takes the lock and sends the load to the ranks.  A name
\* that is waiting for the retry of its unload is refused.
BeginLoad(who, n) ==
    /\ op = NoOp
    /\ IF pending[n] # NoId
         THEN Become(EndLoad(Here, who, n, "error"))
         ELSE /\ UnusedIds # {}
              /\ Become([Here EXCEPT !.op = [stage |-> "load", who |-> who, wants |-> n,
                                             result |-> "ok", name |-> n, id |-> FreshId]])
    /\ UNCHANGED <<ref_cache, backend>>

\* Mutant: the first rank's answer stands for all.
LoadReplyAnyRank(bad) ==
    /\ op.stage = "load"
    /\ \E new \in {[name |-> op.name, id |-> op.id]} :
       \E good \in {{k \in Rank \ bad : op.name \notin {e.name : e \in backend[k]}}} :
          /\ backend' = [k \in Rank |-> IF k \in good THEN backend[k] \cup {new}
                                                      ELSE backend[k]]
          /\ good # {}
          /\ ref_cache' = ref_cache \cup {op.name}
          /\ Become(EvictOrEnd(
                [Here EXCEPT !.registry = Append(@, new),
                             !.counters = [id \in DOMAIN @ \cup {op.id} |->
                                             IF id = op.id THEN 0 ELSE @[id]]],
                op.who, op.name, "ok"))

\* The ranks have answered a load.  A rank that has the name refuses, and any
\* other may fail (bad).  The load counts only if every rank did it; what some
\* ranks did of a load that failed is left to a pending unload.
LoadReply(bad) ==
    /\ op.stage = "load"
    /\ \E new \in {[name |-> op.name, id |-> op.id]} :
       \E has \in {{k \in Rank : op.name \in {e.name : e \in backend[k]}}} :
       \E good \in {Rank \ (has \cup bad)} :
          /\ backend' = [k \in Rank |-> IF k \in good THEN backend[k] \cup {new}
                                                      ELSE backend[k]]
          /\ IF good = Rank
               THEN /\ ref_cache' = ref_cache \cup {op.name}
                    /\ Become(EvictOrEnd(
                          [Here EXCEPT !.registry = Append(@, new),
                                       !.counters = [id \in DOMAIN @ \cup {op.id} |->
                                                       IF id = op.id THEN 0 ELSE @[id]]],
                          op.who, op.name, "ok"))
               ELSE /\ UNCHANGED ref_cache
                    /\ Become(EvictOrEnd(
                          IF op.name \notin NamesIn(registry) /\ good \cup has # {}
                            THEN [Here EXCEPT !.pending[op.name] = op.id] ELSE Here,
                          op.who, op.name, IF has # {} THEN "already" ELSE "error"))

\* unload_lora_adapter: refused for a name neither registered nor pending.
AdminUnload(n) ==
    /\ op = NoOp
    /\ n \in NamesIn(registry) \/ pending[n] # NoId
    /\ Become(BeginUnload(Here, Admin, NoName, "ok", n))
    /\ UNCHANGED <<ref_cache, backend>>

\* Mutant: the unload is sent without waiting for the counter.
DrainAtOnce ==
    /\ op.stage = "drain"
    /\ counters' = [id \in DOMAIN counters \ {op.id} |-> counters[id]]
    /\ op' = [op EXCEPT !.stage = "unload"]
    /\ UNCHANGED <<registry, ref_cache, pending, backend, pc, todo, using>>

\* wait_for_unload returns: the counter is zero, or went with an earlier try.
\* The unload is sent to the ranks.
Drain ==
    /\ op.stage = "drain"
    /\ op.id \in DOMAIN counters => counters[op.id] = 0
    /\ counters' = [id \in DOMAIN counters \ {op.id} |-> counters[id]]
    /\ op' = [op EXCEPT !.stage = "unload"]
    /\ UNCHANGED <<registry, ref_cache, pending, backend, pc, todo, using>>

\* The ranks have answered an unload; the ones in bad failed.  The name stays
\* pending unless all succeeded.  An eviction goes back to its load, which
\* fails with it.
UnloadReply(bad) ==
    /\ op.stage = "unload"
    /\ backend' = [k \in Rank |-> IF k \in bad THEN backend[k]
                                  ELSE {e \in backend[k] : e.id # op.id}]
    /\ \E s \in {IF bad = {} THEN [Here EXCEPT !.pending[op.name] = NoId] ELSE Here} :
         Become(IF op.wants = NoName THEN [s EXCEPT !.op = NoOp]
                ELSE IF bad = {} THEN EvictOrEnd(s, op.who, op.wants, op.result)
                ELSE EndLoad(s, op.who, op.wants, "error"))
    /\ UNCHANGED ref_cache

\* A request that is not waiting for a load of its own reloads the next evicted
\* adapter, if that was loaded at some time before; for one that never was, it
\* fails without touching the lock.
Reload(r, n) ==
    /\ pc[r] = "reloading" /\ op.who # r
    /\ n \in todo[r]
    /\ \/ n \in ref_cache /\ BeginLoad(r, n)
       \/ /\ n \notin ref_cache
          /\ Become([Here EXCEPT !.todo[r] = {}, !.pc[r] = "failed"])
          /\ UNCHANGED <<ref_cache, backend>>

Start == \E r \in Req : Resolve(r)
Count == \E r \in Req : Increment(r)
Complete == \E r \in Req : \E i \in DOMAIN Paths[r] : Release(r, i)
ReloadStep == \E r \in Req : \E n \in todo[r] : Reload(r, n)
AdminStep == \E n \in Managed : BeginLoad(Admin, n) \/ AdminUnload(n)
RankReply == \E bad \in SUBSET Rank : LoadReply(bad) \/ UnloadReply(bad)

Next == Start \/ Count \/ Complete \/ ReloadStep \/ AdminStep \/ Drain \/ RankReply

Spec == Init /\ [][Next]_vars

\* The event loop resumes what is ready, the ranks answer, running requests
\* finish, and lora_update_lock is handed out in order, so that a request
\* waiting for it gets it; administrators need do nothing.
FairSpec ==
    /\ Spec
    /\ WF_vars(Drain) /\ WF_vars(RankReply) /\ WF_vars(Count)
    /\ \A r \in Req : /\ \A i \in DOMAIN Paths[r] : WF_vars(Release(r, i))
                      /\ SF_vars(\E n \in todo[r] : Reload(r, n))

-----------------------------------------------------------------------------

\* The counter of an adapter is the number of sub-requests that hold it, and
\* an adapter that is held has a counter: neither a missed nor a doubled
\* increment or release survives.
CountersExact ==
    LET users(id) == {t \in SubRequests : pc[t[1]] = "running" /\ using[t[1]][t[2]] = id}
    IN /\ \A id \in DOMAIN counters : counters[id] = Cardinality(users(id))
       /\ \A id \in Id \ DOMAIN counters : users(id) = {}

\* "Initiate the actual unloading operation at the backend processes only
\* after all ongoing requests using this LoRA adapter are finished": while a
\* sub-request uses an adapter, every rank has it and no unload of it is sent.
UsedStaysLoaded ==
    \A r \in Req : \A i \in DOMAIN Paths[r] :
        (pc[r] = "running" /\ using[r][i] # NoId) =>
            /\ \A k \in Rank : \E e \in backend[k] : e.id = using[r][i]
            /\ ~(op.stage = "unload" /\ op.id = using[r][i])

\* The registry does not drift from the ranks: a registered adapter is loaded
\* on every one of them, under one id per name.
RegisteredIsLoaded ==
    \A i \in DOMAIN registry :
        /\ \A k \in Rank : registry[i] \in backend[k]
        /\ registry[i].id \in DOMAIN counters
        /\ \A j \in DOMAIN registry : registry[i].name = registry[j].name => i = j

\* Nothing is forgotten on a rank: what a rank has loaded is registered, or an
\* unload of it is pending and can be retried, in the middle of updates too.
NothingOrphaned ==
    \A k \in Rank : \A e \in backend[k] :
        \/ e \in {registry[i] : i \in DOMAIN registry}
        \/ pending[e.name] = e.id

\* A request for one adapter never finds it missing at acquire, however loads,
\* evictions and unloads by others are interleaved with its own reload.
SingleNeverMissing == \A r \in Req \ ListForm : pc[r] # "missing"

\* Every request that starts to reload comes to an end: the lock is not held
\* forever by an eviction that waits for a request which waits for the lock.
ReloadsEnd == \A r \in Req : pc[r] = "reloading" ~> pc[r] # "reloading"
=============================================================================
