----------------------------- MODULE LoRAProofs -----------------------------
(***************************************************************************)
(* Proofs about LoRAAdapters, for any requests, adapters, ranks and limits: *)
(* the registry does not drift from the ranks, nothing is forgotten on a   *)
(* rank, a request for one adapter never finds it missing, and an adapter  *)
(* in use stays loaded.                                                    *)
(*                                                                         *)
(* The code between two suspensions composes functions on the tokenizer's  *)
(* state, so the invariant is stated of such a state s and the ranks'      *)
(* adapters b, and every function has a lemma.                             *)
(***************************************************************************)
EXTENDS LoRAAdapters, FiniteSetTheorems, SequenceTheorems, WellFoundedInduction, TLAPS

Entry == [name : Name, id : Id]
Entries(reg) == {reg[i] : i \in DOMAIN reg}

\* No name and no id occurs twice in a registry.
Distinct(reg) ==
    \A i, j \in DOMAIN reg : reg[i].name = reg[j].name \/ reg[i].id = reg[j].id => i = j

Stage == {"none", "load", "drain", "unload"}
Op == [stage : Stage, who : Req \cup {Admin}, wants : Name \cup {NoName},
       result : {"ok", "already", "error"}, name : Name \cup {NoName}, id : Id \cup {NoId}]
Progress == {"idle", "reloading", "gather", "running", "done", "missing", "failed"}

Typed(s) ==
    /\ s \in [registry : Seq(Entry), counters : UNION {[D -> Nat] : D \in SUBSET Id},
              pending : [Name -> Id \cup {NoId}], op : Op, pc : [Req -> Progress],
              todo : [Req -> SUBSET Name],
              using : [Req -> UNION {[D -> Id \cup {NoId}] : D \in SUBSET Nat}]]
    /\ \A r \in Req : DOMAIN s.using[r] = DOMAIN Paths[r] /\ s.todo[r] \subseteq NamesOf(r)

\* What is registered is counted, on every rank, and not being unloaded.
Registered(s, b) ==
    \A e \in Entries(s.registry) :
        /\ s.pending[e.name] = NoId
        /\ e.id \in DOMAIN s.counters
        /\ \A k \in Rank : e \in b[k]

\* Each pending unload has an id of its own.
PendingApart(s) ==
    \A n \in Name : s.pending[n] # NoId =>
        /\ \A e \in Entries(s.registry) : e.id # s.pending[n]
        /\ \A m \in Name : s.pending[m] = s.pending[n] => m = n

\* What a rank has is registered or waits for the retry of its unload.
Owned(s, b) ==
    \A k \in Rank : \A e \in b[k] : e \in Entries(s.registry) \/ s.pending[e.name] = e.id

\* An adapter with a counter is on every rank.
CountedLoaded(s, b) ==
    \A id \in DOMAIN s.counters : \A k \in Rank : \E e \in b[k] : e.id = id

Users(s, id) == {t \in SubRequests : s.pc[t[1]] = "running" /\ s.using[t[1]][t[2]] = id}

Counted(s) == \A id \in DOMAIN s.counters : s.counters[id] = Cardinality(Users(s, id))

\* A list of adapters that are pinned and never unloaded by an administrator.
Steady(r) == r \in ListForm => NamesOf(r) \subseteq Pinned \ Managed

\* What a request holds has a counter; what it is about to hold is registered.
Held(s, r) ==
    Steady(r) =>
        /\ s.pc[r] = "gather" => \A i \in DOMAIN Paths[r] :
              [name |-> Paths[r][i], id |-> s.using[r][i]] \in Entries(s.registry)
        /\ s.pc[r] = "running" => \A i \in DOMAIN Paths[r] :
              s.using[r][i] # NoId => s.using[r][i] \in DOMAIN s.counters

Followed(s) ==
    \A r \in Req :
        /\ s.pc[r] = "gather" => r \in ListForm
        /\ s.pc[r] = "missing" => r \in ListForm
        /\ Held(s, r)

Core(s, b) ==
    /\ Typed(s)
    /\ b \in [Rank -> SUBSET Entry]
    /\ Distinct(s.registry)
    /\ Registered(s, b)
    /\ PendingApart(s)
    /\ Owned(s, b)
    /\ CountedLoaded(s, b)
    /\ Counted(s)
    /\ Followed(s)

\* The id of a load is unknown to everybody until the ranks answer.
Unknown(s, b, id) ==
    /\ id \in Id
    /\ id \notin DOMAIN s.counters
    /\ \A n \in Name : s.pending[n] # id
    /\ \A k \in Rank : \A e \in b[k] : e.id # id
    /\ \A r \in Req : \A i \in DOMAIN Paths[r] : s.using[r][i] # id

\* The request an update works for waits for it.
Waiting(s, who, n) ==
    who \in Req => s.pc[who] = "reloading" /\ n \in s.todo[who]

\* What the update under lora_update_lock may rely on.
Updating(s, b) ==
    /\ s.op.stage = "none" => s.op = NoOp
    /\ s.op.stage # "none" => s.op.name \in Name /\ Waiting(s, s.op.who, s.op.wants)
    /\ s.op.stage = "load" =>
         /\ Unknown(s, b, s.op.id)
         /\ s.pending[s.op.name] = NoId
         /\ s.op.wants = s.op.name
    /\ s.op.stage \in {"drain", "unload"} =>
         /\ s.op.id # NoId
         /\ s.pending[s.op.name] = s.op.id
         /\ s.op.who \in Req => s.op.result # "error" /\ s.op.wants \in NamesIn(s.registry)
         /\ s.op.who \notin Req => s.op.wants \in Name \cup {NoName}
    /\ s.op.stage = "unload" => s.op.id \notin DOMAIN s.counters

Good(s, b) ==
    /\ Core(s, b)
    /\ Len(s.registry) <= MaxLoaded
    /\ Updating(s, b)

Inv == Good(Here, backend)

-----------------------------------------------------------------------------
(* Natural numbers                                                         *)

\* A set of naturals that is not empty has a least member.
LEMMA LeastNatural ==
    ASSUME NEW T \in SUBSET Nat, T # {}
    PROVE  \E x \in T : \A y \in T : x <= y
<1> DEFINE R == OpToRel(<, Nat)
<1>1. IsWellFoundedOn(R, Nat)
  BY NatLessThanWellFounded
<1>2. ASSUME NEW x \in T, NEW y \in T, y < x
      PROVE  <<y, x>> \in R
  BY <1>2 DEF OpToRel
<1> HIDE DEF R
<1>3. PICK x \in T : \A y \in T : ~ (<<y, x>> \in R)
  BY <1>1, WFMin
<1>4. \A y \in T : ~(y < x)
  BY <1>2, <1>3
<1> QED
  BY <1>4

\* Induction on a set of naturals.
LEMMA NaturalInduction ==
    ASSUME NEW T \in SUBSET Nat, 0 \in T, \A n \in T : n + 1 \in T
    PROVE  T = Nat
<1> SUFFICES ASSUME Nat \ T # {}
             PROVE  FALSE
  OBVIOUS
<1>1. PICK x \in Nat \ T : \A y \in Nat \ T : x <= y
  BY LeastNatural
<1>2. x - 1 \in Nat /\ x - 1 \in T
  BY <1>1
<1> QED
  BY <1>1, <1>2

\* Min, of FiniteSetsExt, is the least member.
LEMMA MinIsLeast ==
    ASSUME NEW T \in SUBSET Nat, T # {}
    PROVE  Min(T) \in T /\ \A y \in T : Min(T) <= y
  BY LeastNatural DEF Min

-----------------------------------------------------------------------------
(* The registry                                                            *)

\* A registered name has one index.
LEMMA IndexFound ==
    ASSUME NEW reg \in Seq(Entry), NEW n \in NamesIn(reg)
    PROVE  IndexOf(reg, n) \in DOMAIN reg /\ reg[IndexOf(reg, n)].name = n
  BY DEF IndexOf, NamesIn

\* The entry of a registered name is registered under it.
LEMMA EntryFound ==
    ASSUME NEW reg \in Seq(Entry), NEW n \in NamesIn(reg)
    PROVE  EntryOf(reg, n) \in Entries(reg) /\ EntryOf(reg, n).name = n
  BY IndexFound DEF EntryOf, Entries

\* Entries with one name, or with one id, are the same.
LEMMA EntriesDiffer ==
    ASSUME NEW reg \in Seq(Entry), Distinct(reg),
           NEW e \in Entries(reg), NEW f \in Entries(reg), e.name = f.name \/ e.id = f.id
    PROVE  e = f
  BY DEF Distinct, Entries

LEMMA EntriesTyped ==
    ASSUME NEW reg \in Seq(Entry)
    PROVE  /\ Entries(reg) \subseteq Entry
           /\ NamesIn(reg) = {e.name : e \in Entries(reg)}
           /\ NamesIn(reg) \subseteq Name
<1>1. \A i \in DOMAIN reg : reg[i] \in Entry
  OBVIOUS
<1>2. Entries(reg) \subseteq Entry
  BY <1>1 DEF Entries
<1>3. NamesIn(reg) = {e.name : e \in Entries(reg)}
  BY DEF Entries, NamesIn
<1> QED
  BY <1>2, <1>3 DEF Entry

\* Without takes out the entry of its name and nothing else.
LEMMA WithoutEntry ==
    ASSUME NEW reg \in Seq(Entry), Distinct(reg), NEW n \in NamesIn(reg)
    PROVE  /\ Without(reg, n) \in Seq(Entry)
           /\ Len(Without(reg, n)) = Len(reg) - 1
           /\ Distinct(Without(reg, n))
           /\ Entries(Without(reg, n)) = Entries(reg) \ {EntryOf(reg, n)}
<1> DEFINE at == IndexOf(reg, n)
           new == Without(reg, n)
<1>1. at \in 1 .. Len(reg) /\ Len(reg) \in Nat /\ DOMAIN reg = 1 .. Len(reg)
  BY IndexFound
<1> HIDE DEF at
<1>2. new = [i \in 1 .. Len(reg) - 1 |-> IF i < at THEN reg[i] ELSE reg[i + 1]]
  BY DEF Without, at
<1>3. new \in Seq(Entry) /\ Len(new) = Len(reg) - 1 /\ DOMAIN new = 1 .. Len(reg) - 1
  <2>1. \A i \in 1 .. Len(reg) - 1 : new[i] \in Entry
    BY <1>1, <1>2
  <2> QED
    BY <1>1, <1>2, <2>1
<1>4. Distinct(new)
  BY <1>1, <1>2, <1>3 DEF Distinct
<1>5. EntryOf(reg, n) = reg[at]
  BY DEF EntryOf, at
<1>6. ASSUME NEW e \in Entries(new)
      PROVE  e \in Entries(reg) /\ e # reg[at]
  <2>1. PICK i \in 1 .. Len(reg) - 1 : e = new[i]
    BY <1>3 DEF Entries
  <2>2. PICK j \in 1 .. Len(reg) : j # at /\ e = reg[j]
    BY <1>1, <1>2, <2>1
  <2> QED
    BY <1>1, <2>2 DEF Entries, Distinct
<1>7. ASSUME NEW e \in Entries(reg), e # reg[at]
      PROVE  e \in Entries(new)
  <2>1. PICK j \in 1 .. Len(reg) : j # at /\ e = reg[j]
    BY <1>1, <1>7 DEF Entries
  <2>2. CASE j < at
    <3>1. j \in 1 .. Len(reg) - 1 /\ new[j] = reg[j]
      BY <1>1, <1>2, <2>2
    <3> QED
      BY <1>3, <2>1, <3>1 DEF Entries
  <2>3. CASE j > at
    <3>1. j - 1 \in 1 .. Len(reg) - 1 /\ new[j - 1] = reg[j]
      BY <1>1, <1>2, <2>3
    <3> QED
      BY <1>3, <2>1, <3>1 DEF Entries
  <2> QED
    BY <1>1, <2>1, <2>2, <2>3
<1> QED
  BY <1>3, <1>4, <1>5, <1>6, <1>7

\* The entries a touch reorders stay the same.
Reordered(reg, new) ==
    /\ new \in Seq(Entry)
    /\ Len(new) = Len(reg)
    /\ Distinct(new)
    /\ Entries(new) = Entries(reg)

LEMMA TouchReorders ==
    ASSUME NEW reg \in Seq(Entry), Distinct(reg), NEW n
    PROVE  Reordered(reg, Touch(reg, n))
<1>1. CASE n \notin NamesIn(reg)
  BY <1>1 DEF Touch, Reordered
<1>2. CASE n \in NamesIn(reg)
  <2> DEFINE rest == Without(reg, n)
             e == EntryOf(reg, n)
  <2>1. Touch(reg, n) = Append(rest, e)
    BY <1>2 DEF Touch
  <2>2. /\ rest \in Seq(Entry)
        /\ Len(rest) = Len(reg) - 1
        /\ Distinct(rest)
        /\ Entries(rest) = Entries(reg) \ {e}
    BY <1>2, WithoutEntry
  <2>3. e \in Entries(reg) /\ e \in Entry
    BY <1>2, EntryFound, EntriesTyped
  <2> HIDE DEF rest, e
  <2>4. /\ Append(rest, e) \in Seq(Entry)
        /\ Len(Append(rest, e)) = Len(reg)
        /\ DOMAIN Append(rest, e) = 1 .. Len(rest) + 1
        /\ \A i \in 1 .. Len(rest) : Append(rest, e)[i] = rest[i]
        /\ Append(rest, e)[Len(rest) + 1] = e
    BY <2>2, <2>3
  <2>5. Entries(Append(rest, e)) = Entries(rest) \cup {e}
    BY <2>2, <2>4 DEF Entries
  <2>6. \A i \in 1 .. Len(rest) : rest[i].name # e.name /\ rest[i].id # e.id
    <3>1. \A i \in 1 .. Len(rest) : rest[i] \in Entries(rest)
      BY <2>2 DEF Entries
    <3> QED
      BY <2>2, <2>3, <3>1, EntriesDiffer
  <2>7. Distinct(Append(rest, e))
    BY <2>2, <2>4, <2>6 DEF Distinct
  <2> QED
    BY <2>1, <2>2, <2>3, <2>4, <2>5, <2>7 DEF Reordered
<1> QED
  BY <1>1, <1>2

\* So do the entries a list of touches reorders: by induction on the list,
\* there is one history of registries that touches it name by name.
LEMMA TouchAllReorders ==
    ASSUME NEW reg \in Seq(Entry), Distinct(reg), NEW names \in Seq(Name)
    PROVE  Reordered(reg, TouchAll(reg, names))
<1> DEFINE N == Len(names)
           Step(h, k) == h[k] = IF k = 0 THEN reg ELSE Touch(h[k - 1], names[k])
           Past(h, n) == /\ h \in [0 .. n -> Seq(Entry)]
                         /\ \A k \in 0 .. n : Step(h, k) /\ Reordered(reg, h[k])
           T == {n \in Nat : n <= N => \E h : Past(h, n)}
<1>1. N \in Nat
  OBVIOUS
<1> HIDE DEF N
<1>2. 0 \in T
  <2> DEFINE g == [k \in 0 .. 0 |-> reg]
  <2>1. g \in [0 .. 0 -> Seq(Entry)]
    OBVIOUS
  <2>2. Reordered(reg, reg)
    BY DEF Reordered
  <2>3. \A k \in 0 .. 0 : k = 0 /\ g[k] = reg
    OBVIOUS
  <2>4. Past(g, 0)
    BY <2>1, <2>2, <2>3
  <2> HIDE DEF Past
  <2> QED
    BY <2>4
<1>3. ASSUME NEW n \in T
      PROVE  n + 1 \in T
  <2> SUFFICES ASSUME n + 1 <= N
               PROVE  \E h : Past(h, n + 1)
    <3> HIDE DEF Past
    <3> QED
      OBVIOUS
  <2>1. n \in Nat /\ n <= N
    BY <1>1
  <2>2. PICK h : Past(h, n)
    <3> HIDE DEF Past
    <3> QED
      BY <2>1
  <2> DEFINE last == Touch(h[n], names[n + 1])
             g == [k \in 0 .. n + 1 |-> IF k = n + 1 THEN last ELSE h[k]]
  <2>3. Reordered(reg, h[n]) /\ h[n] \in Seq(Entry)
    BY <2>1, <2>2
  <2>4. Reordered(h[n], last)
    BY <2>3, TouchReorders DEF Reordered
  <2>5. Reordered(reg, last)
    BY <2>3, <2>4 DEF Reordered
  <2>6. last \in Seq(Entry)
    BY <2>5 DEF Reordered
  <2> HIDE DEF last
  <2>7. g \in [0 .. n + 1 -> Seq(Entry)]
    BY <2>1, <2>2, <2>6
  <2>8. ASSUME NEW k \in 0 .. n + 1
        PROVE  Step(g, k) /\ Reordered(reg, g[k])
    <3>1. CASE k = n + 1
      <4>1. g[k] = last /\ g[k - 1] = h[n] /\ k # 0
        BY <2>1, <3>1
      <4> QED
        BY <2>5, <3>1, <4>1 DEF last
    <3>2. CASE k # n + 1
      <4>1. k \in 0 .. n /\ g[k] = h[k] /\ (k # 0 => k - 1 \in 0 .. n /\ g[k - 1] = h[k - 1])
        BY <2>1, <3>2
      <4> QED
        BY <2>2, <4>1
    <3> QED
      BY <3>1, <3>2
  <2>9. Past(g, n + 1)
    BY <2>7, <2>8
  <2> HIDE DEF Past, g
  <2> QED
    BY <2>9
<1>4. N \in T
  <2> HIDE DEF T
  <2>1. T \in SUBSET Nat
    BY DEF T
  <2> QED
    BY <1>1, <1>2, <1>3, <2>1, NaturalInduction
<1>5. PICK h : Past(h, N)
  <2> HIDE DEF Past
  <2> QED
    BY <1>1, <1>4
<1> DEFINE Rec(f) == f = [k \in 0 .. N |-> IF k = 0 THEN reg ELSE Touch(f[k - 1], names[k])]
<1>6. Rec(h)
  BY <1>5
<1>7. PICK f : Rec(f) /\ TouchAll(reg, names) = f[N]
  <2>1. TouchAll(reg, names) = (CHOOSE f : Rec(f))[N]
    BY DEF TouchAll, N
  <2>2. Rec(CHOOSE f : Rec(f))
    <3> HIDE DEF Rec
    <3> QED
      BY <1>6
  <2> QED
    BY <2>1, <2>2
<1>8. N \in {n \in Nat : n <= N => f[n] = h[n]}
  <2> DEFINE U == {n \in Nat : n <= N => f[n] = h[n]}
  <2>1. 0 \in U
    BY <1>1, <1>5, <1>7
  <2>2. ASSUME NEW n \in U
        PROVE  n + 1 \in U
    <3> SUFFICES ASSUME n + 1 <= N
                 PROVE  f[n + 1] = h[n + 1]
      OBVIOUS
    <3>1. n \in Nat /\ n + 1 \in 0 .. N /\ n + 1 # 0 /\ (n + 1) - 1 = n /\ f[n] = h[n]
      BY <1>1
    <3>2. f[n + 1] = Touch(f[n], names[n + 1])
      BY <1>7, <3>1
    <3>3. h[n + 1] = Touch(h[n], names[n + 1])
      BY <1>5, <3>1
    <3> QED
      BY <3>1, <3>2, <3>3
  <2>3. U \in SUBSET Nat
    OBVIOUS
  <2> HIDE DEF U
  <2>4. U = Nat
    BY <2>1, <2>2, <2>3, NaturalInduction
  <2> QED
    BY <1>1, <2>4 DEF U
<1> QED
  BY <1>1, <1>5, <1>7, <1>8

-----------------------------------------------------------------------------
(* Who uses an adapter                                                     *)

LEMMA SubRequestsFinite == IsFiniteSet(SubRequests)
<1> DEFINE Of == [r \in Req |-> {r} \X DOMAIN Paths[r]]
           Parts == {{r} \X DOMAIN Paths[r] : r \in Req}
<1>1. Of \in Surjection(Req, Parts)
  BY DEF Surjection
<1>2. IsFiniteSet(Parts)
  BY <1>1, FS_Surjection, LoRAAssumption
<1>3. ASSUME NEW r \in Req
      PROVE  IsFiniteSet({r} \X DOMAIN Paths[r])
  <2>1. Len(Paths[r]) \in Nat /\ DOMAIN Paths[r] = 1 .. Len(Paths[r])
    BY LoRAAssumption
  <2>2. IsFiniteSet(DOMAIN Paths[r])
    <3>1. 1 \in Int /\ Len(Paths[r]) \in Int
      BY <2>1
    <3>2. IsFiniteSet(1 .. Len(Paths[r]))
      BY <3>1, FS_Interval
    <3> QED
      BY <2>1, <3>2
  <2> QED
    BY <2>2, FS_Product, FS_Singleton
<1>4. IsFiniteSet(UNION Parts)
  BY <1>2, <1>3, FS_UNION
<1> QED
  BY <1>4 DEF SubRequests

\* Users is a finite set of <<request, index>> pairs.
LEMMA UsersAre ==
    ASSUME NEW s, NEW id
    PROVE  /\ IsFiniteSet(Users(s, id))
           /\ Cardinality(Users(s, id)) \in Nat
           /\ \A r \in Req : \A i \in DOMAIN Paths[r] :
                 <<r, i>> \in Users(s, id) <=> s.pc[r] = "running" /\ s.using[r][i] = id
           /\ \A t \in Users(s, id) :
                 \E r \in Req : \E i \in DOMAIN Paths[r] : t = <<r, i>>
<1>1. Users(s, id) \subseteq SubRequests
  BY DEF Users
<1>2. IsFiniteSet(Users(s, id))
  BY <1>1, SubRequestsFinite, FS_Subset
<1>3. \A r \in Req : \A i \in DOMAIN Paths[r] : <<r, i>> \in SubRequests
  BY DEF SubRequests
<1>4. \A t \in SubRequests : \E r \in Req : \E i \in DOMAIN Paths[r] : t = <<r, i>>
  BY DEF SubRequests
<1> QED
  BY <1>1, <1>2, <1>3, <1>4, FS_CardinalityType DEF Users

\* The users stay when no request starts or stops running and none that runs
\* takes or gives up an adapter.
SameUsers(s, t) ==
    \A r \in Req : /\ t.pc[r] = "running" <=> s.pc[r] = "running"
                   /\ s.pc[r] = "running" => t.using[r] = s.using[r]

LEMMA UsersStay ==
    ASSUME NEW s, NEW t, SameUsers(s, t), NEW id
    PROVE  Users(t, id) = Users(s, id)
<1>1. \A u \in SubRequests : u[1] \in Req
  BY DEF SubRequests
<1> QED
  BY <1>1 DEF Users, SameUsers

LEMMA CountsStay ==
    ASSUME NEW s, NEW t, SameUsers(s, t), t.counters = s.counters, Counted(s)
    PROVE  Counted(t)
  BY UsersStay DEF Counted

\* The form Counted needs of an adapter with a user.
LEMMA UsedCounts ==
    ASSUME NEW s, Counted(s), NEW r \in Req, NEW i \in DOMAIN Paths[r],
           s.pc[r] = "running", s.using[r][i] \in DOMAIN s.counters
    PROVE  s.counters[s.using[r][i]] # 0
<1> DEFINE id == s.using[r][i]
<1>1. <<r, i>> \in Users(s, id)
  BY UsersAre
<1>2. IsFiniteSet(Users(s, id)) /\ Users(s, id) # {}
  BY <1>1, UsersAre
<1>3. Cardinality(Users(s, id)) # 0
  BY <1>2, FS_EmptySet
<1> QED
  BY <1>3 DEF Counted

-----------------------------------------------------------------------------
(* Steps that change neither what is registered nor what is pending        *)

LEMMA CoreStep ==
    ASSUME NEW s, NEW t, NEW b, Core(s, b), Typed(t), Reordered(s.registry, t.registry),
           t.pending = s.pending, DOMAIN t.counters = DOMAIN s.counters,
           Counted(t), Followed(t)
    PROVE  Core(t, b)
<1>1. Distinct(t.registry) /\ Entries(t.registry) = Entries(s.registry)
  BY DEF Reordered
<1>2. Registered(t, b)
  BY <1>1 DEF Core, Registered
<1>3. PendingApart(t)
  BY <1>1 DEF Core, PendingApart
<1>4. Owned(t, b)
  BY <1>1 DEF Core, Owned
<1>5. CountedLoaded(t, b)
  BY DEF Core, CountedLoaded
<1> QED
  BY <1>1, <1>2, <1>3, <1>4, <1>5 DEF Core

\* What changes of a request that is not the one the update works for.
LEMMA UpdatingStep ==
    ASSUME NEW s, NEW t, NEW b, Core(s, b), Updating(s, b),
           Typed(t), Reordered(s.registry, t.registry),
           t.op = s.op, t.pending = s.pending, DOMAIN t.counters = DOMAIN s.counters,
           NEW r \in Req,
           s.op.stage # "none" => s.op.who # r,
           \A q \in Req \ {r} : t.pc[q] = s.pc[q] /\ t.todo[q] = s.todo[q]
                                 /\ t.using[q] = s.using[q],
           \A i \in DOMAIN Paths[r] : t.using[r][i] \in {s.using[r][i], NoId}
                                              \cup DOMAIN s.counters
    PROVE  Updating(t, b)
<1>1. NamesIn(t.registry) = NamesIn(s.registry)
  BY EntriesTyped DEF Reordered, Core, Typed
<1>2. s.op.stage # "none" => Waiting(t, t.op.who, t.op.wants)
  BY DEF Updating, Waiting
<1>3. ASSUME s.op.stage = "load"
      PROVE  Unknown(t, b, t.op.id)
  <2>1. Unknown(s, b, s.op.id)
    BY <1>3 DEF Updating
  <2>2. s.op.id # NoId
    BY <2>1, LoRAAssumption DEF Unknown
  <2>3. ASSUME NEW q \in Req, NEW i \in DOMAIN Paths[q]
        PROVE  t.using[q][i] # s.op.id
    <3>1. CASE q = r
      BY <2>1, <2>2, <3>1 DEF Unknown
    <3>2. CASE q # r
      BY <2>1, <3>2 DEF Unknown
    <3> QED
      BY <3>1, <3>2
  <2> QED
    BY <2>1, <2>3 DEF Unknown
<1> QED
  BY <1>1, <1>2, <1>3 DEF Updating

\* What acquire does to the tokenizer's state.
LEMMA AcquireFields ==
    ASSUME NEW s, NEW b, Core(s, b), NEW r \in Req
    PROVE  LET t == Acquire(s, r) IN
           /\ Reordered(s.registry, t.registry)
           /\ t.pending = s.pending /\ t.op = s.op /\ t.todo = s.todo
           /\ \/ /\ ~(NamesOf(r) \subseteq NamesIn(s.registry))
                 /\ t.pc = [s.pc EXCEPT ![r] = "missing"]
                 /\ t.using = s.using /\ t.counters = s.counters
              \/ /\ NamesOf(r) \subseteq NamesIn(s.registry)
                 /\ \E ids \in [DOMAIN Paths[r] -> Id] :
                      /\ \A i \in DOMAIN Paths[r] :
                            [name |-> Paths[r][i], id |-> ids[i]] \in Entries(s.registry)
                      /\ t.using = [s.using EXCEPT ![r] = ids]
                      /\ \/ /\ r \in ListForm
                            /\ t.pc = [s.pc EXCEPT ![r] = "gather"]
                            /\ t.counters = s.counters
                         \/ /\ r \notin ListForm
                            /\ t.pc = [s.pc EXCEPT ![r] = "running"]
                            /\ t.counters = [s.counters EXCEPT ![ids[1]] = @ + 1]
           /\ Typed(t)
<1> DEFINE reg == s.registry
           ids == [i \in DOMAIN Paths[r] |-> EntryOf(reg, Paths[r][i]).id]
           missing == {i \in DOMAIN Paths[r] : Paths[r][i] \notin NamesIn(reg)}
           t == Acquire(s, r)
<1>1. /\ s \in [registry : Seq(Entry), counters : UNION {[D -> Nat] : D \in SUBSET Id},
                 pending : [Name -> Id \cup {NoId}], op : Op, pc : [Req -> Progress],
                 todo : [Req -> SUBSET Name],
                 using : [Req -> UNION {[D -> Id \cup {NoId}] : D \in SUBSET Nat}]]
      /\ \A q \in Req : DOMAIN s.using[q] = DOMAIN Paths[q] /\ s.todo[q] \subseteq NamesOf(q)
      /\ reg \in Seq(Entry) /\ Distinct(reg)
  BY DEF Core, Typed
<1>2. Paths[r] \in Seq(Name) /\ DOMAIN Paths[r] \in SUBSET Nat
  BY LoRAAssumption
<1>3. missing = {} <=> NamesOf(r) \subseteq NamesIn(reg)
  BY DEF NamesOf
<1>4. CASE missing # {}
  <2> DEFINE cut == SubSeq(Paths[r], 1, Min(missing) - 1)
             new == TouchAll(reg, cut)
  <2>1. Min(missing) \in DOMAIN Paths[r]
    BY <1>2, <1>4, MinIsLeast
  <2>2. cut \in Seq(Name)
    <3>0. PICK m \in DOMAIN Paths[r] : m = Min(missing)
      BY <2>1
    <3>1. /\ 1 \in Int /\ m - 1 \in Int
          /\ \A i \in 1 .. m - 1 : Paths[r][i] \in Name
      BY <1>2
    <3> QED
      BY <3>0, <3>1, SubSeqProperties
  <2>3. Reordered(reg, new)
    BY <1>1, <2>2, TouchAllReorders
  <2>4. t = [s EXCEPT !.registry = new, !.pc[r] = "missing"]
    BY <1>4 DEF Acquire
  <2> HIDE DEF new, missing, t
  <2>5. new \in Seq(Entry)
    BY <2>3 DEF Reordered
  <2>6. /\ t.registry = new /\ t.counters = s.counters /\ t.pending = s.pending
        /\ t.op = s.op /\ t.todo = s.todo /\ t.using = s.using
        /\ t.pc = [s.pc EXCEPT ![r] = "missing"]
    BY <1>1, <2>4
  <2>7. Typed(t)
    <3>1. t.pc \in [Req -> Progress]
      BY <1>1, <2>6 DEF Progress
    <3> QED
      BY <1>1, <2>4, <2>5, <2>6, <3>1 DEF Typed
  <2> QED
    BY <1>3, <1>4, <2>3, <2>6, <2>7 DEF t
<1>5. CASE missing = {}
  <2> DEFINE new == TouchAll(reg, Paths[r])
  <2>1. Reordered(reg, new) /\ new \in Seq(Entry)
    BY <1>1, <1>2, TouchAllReorders DEF Reordered
  <2>2. ASSUME NEW i \in DOMAIN Paths[r]
        PROVE  /\ ids[i] \in Id
               /\ [name |-> Paths[r][i], id |-> ids[i]] \in Entries(reg)
    <3>1. Paths[r][i] \in NamesIn(reg)
      BY <1>5
    <3>2. PICK e \in Entries(reg) : e = EntryOf(reg, Paths[r][i]) /\ e.name = Paths[r][i]
      BY <1>1, <3>1, EntryFound
    <3>3. e \in Entry
      BY <1>1, EntriesTyped
    <3>4. ids[i] = e.id
      BY <3>2
    <3> QED
      BY <3>2, <3>3, <3>4 DEF Entry
  <2>3. ids \in [DOMAIN Paths[r] -> Id]
    BY <2>2
  <2>4. t = IF r \in ListForm
            THEN [s EXCEPT !.registry = new, !.using[r] = ids, !.pc[r] = "gather"]
            ELSE [s EXCEPT !.registry = new, !.using[r] = ids,
                           !.counters[ids[1]] = @ + 1, !.pc[r] = "running"]
    BY <1>5 DEF Acquire
  <2> HIDE DEF new, missing, t, ids
  <2>5. /\ t.registry = new /\ t.pending = s.pending
        /\ t.op = s.op /\ t.todo = s.todo
        /\ t.using = [s.using EXCEPT ![r] = ids]
    BY <1>1, <2>4
  <2>6. r \in ListForm => /\ t.pc = [s.pc EXCEPT ![r] = "gather"]
                          /\ t.counters = s.counters
    BY <1>1, <2>4
  <2>7. r \notin ListForm => /\ t.pc = [s.pc EXCEPT ![r] = "running"]
                             /\ t.counters = [s.counters EXCEPT ![ids[1]] = @ + 1]
    BY <1>1, <2>4
  <2>8. Typed(t)
    <3>1. t.pc \in [Req -> Progress]
      BY <1>1, <2>6, <2>7, ZenonT(60) DEF Progress
    <3>2. t.using \in [Req -> UNION {[D -> Id \cup {NoId}] : D \in SUBSET Nat}]
      <4>1. ids \in UNION {[D -> Id \cup {NoId}] : D \in SUBSET Nat}
        BY <1>2, <2>3
      <4> QED
        BY <1>1, <2>5, <4>1
    <3>3. t.counters \in UNION {[D -> Nat] : D \in SUBSET Id}
      <4>1. PICK D \in SUBSET Id : s.counters \in [D -> Nat]
        BY <1>1
      <4>2. t.counters \in [D -> Nat]
        BY <2>6, <2>7, <4>1
      <4> QED
        BY <4>2
    <3>4. \A q \in Req : DOMAIN t.using[q] = DOMAIN Paths[q] /\ t.todo[q] \subseteq NamesOf(q)
      BY <1>1, <2>3, <2>5
    <3>5. t \in [registry : Seq(Entry), counters : UNION {[D -> Nat] : D \in SUBSET Id},
                 pending : [Name -> Id \cup {NoId}], op : Op, pc : [Req -> Progress],
                 todo : [Req -> SUBSET Name],
                 using : [Req -> UNION {[D -> Id \cup {NoId}] : D \in SUBSET Nat}]]
      BY <1>1, <2>1, <2>4, <2>5, <3>1, <3>2, <3>3
    <3> QED
      BY <3>4, <3>5 DEF Typed
  <2> QED
    BY <1>3, <1>5, <2>1, <2>2, <2>3, <2>5, <2>6, <2>7, <2>8 DEF t
<1> QED
  BY <1>4, <1>5

\* acquire, for a request that does not run yet; one with a single adapter
\* finds it registered.
LEMMA AcquireCore ==
    ASSUME NEW s, NEW b, Core(s, b), NEW r \in Req, s.pc[r] \in {"idle", "reloading"},
           r \notin ListForm => NamesOf(r) \subseteq NamesIn(s.registry)
    PROVE  Core(Acquire(s, r), b)
<1> DEFINE t == Acquire(s, r)
<1>1. /\ Reordered(s.registry, t.registry)
      /\ t.pending = s.pending /\ t.op = s.op /\ t.todo = s.todo
      /\ Typed(t) /\ Typed(s)
  BY AcquireFields DEF Core
<1>2. /\ s.pc \in [Req -> Progress] /\ DOMAIN s.using = Req
      /\ \E D \in SUBSET Id : s.counters \in [D -> Nat]
  BY <1>1 DEF Typed
<1>3. CASE /\ ~(NamesOf(r) \subseteq NamesIn(s.registry))
           /\ t.pc = [s.pc EXCEPT ![r] = "missing"]
           /\ t.using = s.using /\ t.counters = s.counters
  <2>1. SameUsers(s, t)
    BY <1>2, <1>3 DEF SameUsers
  <2>2. Counted(t)
    BY <1>3, <2>1, CountsStay DEF Core
  <2>3. Followed(t)
    BY <1>1, <1>2, <1>3 DEF Followed, Held, Core, Reordered
  <2> QED
    BY <1>1, <1>3, <2>2, <2>3, CoreStep
<1>4. ASSUME NEW ids \in [DOMAIN Paths[r] -> Id],
             \A i \in DOMAIN Paths[r] :
                [name |-> Paths[r][i], id |-> ids[i]] \in Entries(s.registry),
             t.using = [s.using EXCEPT ![r] = ids],
             \/ /\ r \in ListForm
                /\ t.pc = [s.pc EXCEPT ![r] = "gather"]
                /\ t.counters = s.counters
             \/ /\ r \notin ListForm
                /\ t.pc = [s.pc EXCEPT ![r] = "running"]
                /\ t.counters = [s.counters EXCEPT ![ids[1]] = @ + 1]
      PROVE  Core(t, b)
  <2> HIDE DEF t
  <2>1. \A i \in DOMAIN Paths[r] : ids[i] \in DOMAIN s.counters
    BY <1>4 DEF Core, Registered
  <2>2. DOMAIN t.counters = DOMAIN s.counters
    BY <1>2, <1>4
  <2>3. Entries(t.registry) = Entries(s.registry)
    BY <1>1 DEF Reordered
  <2>4. ASSUME NEW q \in Req
        PROVE  /\ t.pc[q] = "gather" => q \in ListForm
               /\ t.pc[q] = "missing" => q \in ListForm
               /\ Held(t, q)
    <3>1. CASE q # r
      <4>1. t.pc[q] = s.pc[q] /\ t.using[q] = s.using[q]
        BY <1>2, <1>4, <3>1
      <4>2. /\ s.pc[q] = "gather" => q \in ListForm
            /\ s.pc[q] = "missing" => q \in ListForm
            /\ Held(s, q)
        BY DEF Core, Followed
      <4> QED
        BY <2>2, <2>3, <4>1, <4>2 DEF Held
    <3>2. CASE q = r
      <4>1. t.using[q] = ids /\ t.pc[q] = IF r \in ListForm THEN "gather" ELSE "running"
        BY <1>2, <1>4, <3>2
      <4> QED
        BY <1>4, <2>1, <2>2, <2>3, <3>2, <4>1 DEF Held
    <3> QED
      BY <3>1, <3>2
  <2>5. Followed(t)
    BY <2>4 DEF Followed
  <2>6. CASE r \in ListForm
    <3>1. SameUsers(s, t)
      BY <1>2, <1>4, <2>6 DEF SameUsers
    <3>2. Counted(t)
      BY <1>4, <2>6, <3>1, CountsStay DEF Core
    <3> QED
      BY <1>1, <2>2, <2>5, <3>2, CoreStep
  <2>7. CASE r \notin ListForm
    <3>1. DOMAIN Paths[r] = {1}
      BY <2>7, LoRAAssumption
    <3>2. ASSUME NEW id \in DOMAIN s.counters
          PROVE  t.counters[id] = Cardinality(Users(t, id))
      <4>1. s.counters[id] = Cardinality(Users(s, id))
        BY DEF Core, Counted
      <4>2. ASSUME NEW u \in SubRequests
            PROVE  u \in Users(t, id) <=> (u \in Users(s, id) \/ (u = <<r, 1>> /\ id = ids[1]))
        <5>0. PICK q \in Req : \E i \in DOMAIN Paths[q] : u = <<q, i>>
          BY DEF SubRequests
        <5>1. PICK i \in DOMAIN Paths[q] : u = <<q, i>>
          BY <5>0
        <5>2. CASE q = r
          <6>1. i = 1 /\ t.pc[r] = "running" /\ t.using[r] = ids /\ s.pc[r] # "running"
            BY <1>2, <1>4, <2>7, <3>1, <5>2
          <6> QED
            BY <5>1, <5>2, <6>1, UsersAre
        <5>3. CASE q # r
          <6>1. t.pc[q] = s.pc[q] /\ t.using[q] = s.using[q]
            BY <1>2, <1>4, <5>3
          <6>2. u # <<r, 1>>
            BY <5>1, <5>3
          <6>3. u \in Users(t, id) <=> u \in Users(s, id)
            BY <5>1, <6>1, UsersAre
          <6> QED
            BY <6>2, <6>3
        <5> QED
          BY <5>2, <5>3
      <4>3. <<r, 1>> \in SubRequests
        BY <3>1 DEF SubRequests
      <4>4. Users(t, id) \subseteq SubRequests /\ Users(s, id) \subseteq SubRequests
        BY DEF Users
      <4>5. CASE id = ids[1]
        <5>1. <<r, 1>> \notin Users(s, id)
          BY <3>1, UsersAre
        <5>2. Users(t, id) = Users(s, id) \cup {<<r, 1>>}
          BY <4>2, <4>3, <4>4, <4>5
        <5>3. IsFiniteSet(Users(s, id))
          BY UsersAre
        <5>4. Cardinality(Users(t, id)) = Cardinality(Users(s, id)) + 1
          BY <5>1, <5>2, <5>3, FS_AddElement
        <5> QED
          BY <1>2, <1>4, <2>7, <4>1, <4>5, <5>4
      <4>6. CASE id # ids[1]
        <5>1. \A u \in SubRequests : u \in Users(t, id) <=> u \in Users(s, id)
          BY <4>2, <4>6
        <5>2. Users(t, id) = Users(s, id)
          BY <4>4, <5>1
        <5> QED
          BY <1>2, <1>4, <2>7, <4>1, <4>6, <5>2
      <4> QED
        BY <4>5, <4>6
    <3>3. Counted(t)
      BY <2>2, <3>2 DEF Counted
    <3> QED
      BY <1>1, <2>2, <2>5, <3>3, CoreStep
  <2> QED
    BY <2>6, <2>7
<1> QED
  BY <1>3, <1>4, AcquireFields

-----------------------------------------------------------------------------
(* The functions load_lora_adapter is composed of                          *)

LEMMA NoOpTyped == NoOp \in Op /\ NoOp.stage = "none"
  BY DEF NoOp, Op, Stage

\* Requests that do not run may go on to reload or fail.
Quiet(s, t) ==
    /\ t.registry = s.registry /\ t.pending = s.pending /\ t.counters = s.counters
    /\ t.using = s.using
    /\ \A r \in Req : \/ t.pc[r] = s.pc[r]
                      \/ t.pc[r] \in {"reloading", "failed"} /\ s.pc[r] # "running"

LEMMA QuietCore ==
    ASSUME NEW s, NEW t, NEW b, Core(s, b), Typed(t), Quiet(s, t)
    PROVE  Core(t, b)
<1>1. SameUsers(s, t)
  BY DEF SameUsers, Quiet
<1>2. Counted(t)
  BY <1>1, CountsStay DEF Core, Quiet
<1>3. Followed(t)
  BY DEF Followed, Held, Core, Quiet
<1>4. Reordered(s.registry, t.registry)
  BY DEF Reordered, Core, Typed, Quiet
<1> QED
  BY <1>2, <1>3, <1>4, CoreStep DEF Quiet

\* load_lora_adapter returns: its request goes on with what it loaded.
LEMMA EndLoadGood ==
    ASSUME NEW s, NEW b, Core(s, b), Len(s.registry) <= MaxLoaded,
           NEW who \in Req \cup {Admin}, NEW n, Waiting(s, who, n),
           NEW result, who \in Req /\ result # "error" => n \in NamesIn(s.registry)
    PROVE  Good(EndLoad(s, who, n, result), b)
<1> DEFINE freed == [s EXCEPT !.op = NoOp]
           t == EndLoad(s, who, n, result)
<1>1. /\ s \in [registry : Seq(Entry), counters : UNION {[D -> Nat] : D \in SUBSET Id},
                 pending : [Name -> Id \cup {NoId}], op : Op, pc : [Req -> Progress],
                 todo : [Req -> SUBSET Name],
                 using : [Req -> UNION {[D -> Id \cup {NoId}] : D \in SUBSET Nat}]]
      /\ \A q \in Req : DOMAIN s.using[q] = DOMAIN Paths[q] /\ s.todo[q] \subseteq NamesOf(q)
  BY DEF Core, Typed
<1>2. SUFFICES Core(t, b) /\ Len(t.registry) <= MaxLoaded /\ t.op = NoOp
  BY NoOpTyped DEF Good, Updating
<1>3. ASSUME NEW u,
             \/ u = freed
             \/ /\ who \in Req
                /\ \E X \in SUBSET NamesOf(who), p \in {s.pc[who], "failed"} :
                      u = [freed EXCEPT !.todo[who] = X, !.pc[who] = p]
      PROVE  Core(u, b) /\ u.registry = s.registry /\ u.op = NoOp
  <2>1. CASE u = freed
    <3>1. Typed(u)
      BY <1>1, <2>1, NoOpTyped DEF Typed
    <3>2. /\ u.registry = s.registry /\ u.pending = s.pending /\ u.counters = s.counters
          /\ u.using = s.using /\ u.op = NoOp /\ u.pc = s.pc
      BY <1>1, <2>1
    <3>3. Quiet(s, u)
      BY <3>2 DEF Quiet
    <3>4. Core(u, b)
      BY <3>1, <3>3, QuietCore
    <3> QED
      BY <3>2, <3>4
  <2>2. CASE u # freed
    <3>1. PICK X \in SUBSET NamesOf(who), p \in {s.pc[who], "failed"} :
                  who \in Req /\ u = [freed EXCEPT !.todo[who] = X, !.pc[who] = p]
      BY <1>3, <2>2
    <3>2. X \subseteq Name
      BY <3>1, LoRAAssumption DEF NamesOf
    <3>3. /\ u.registry = s.registry /\ u.pending = s.pending /\ u.counters = s.counters
          /\ u.using = s.using /\ u.op = NoOp
          /\ u.todo = [s.todo EXCEPT ![who] = X] /\ u.pc = [s.pc EXCEPT ![who] = p]
      BY <1>1, <3>1
    <3>4. u.pc \in [Req -> Progress] /\ u.todo \in [Req -> SUBSET Name]
      BY <1>1, <3>1, <3>2, <3>3 DEF Progress
    <3>5. Typed(u)
      <4>1. \A q \in Req : u.todo[q] \subseteq NamesOf(q)
        BY <1>1, <3>1, <3>3
      <4> QED
        BY <1>1, <3>1, <3>3, <3>4, <4>1, NoOpTyped DEF Typed
    <3>6. s.pc[who] = "reloading"
      BY <3>1 DEF Waiting
    <3>7. Quiet(s, u)
      BY <1>1, <3>1, <3>3, <3>6 DEF Quiet
    <3>8. Core(u, b)
      BY <3>5, <3>7, QuietCore
    <3> QED
      BY <3>3, <3>8
  <2> QED
    BY <2>1, <2>2
<1> HIDE DEF freed
<1>4. CASE who = Admin
  <2>1. t = freed
    BY <1>4 DEF EndLoad, freed
  <2> QED
    BY <1>3, <2>1
<1>5. CASE who # Admin /\ result = "error"
  <2>1. t = [freed EXCEPT !.todo[who] = {}, !.pc[who] = "failed"] /\ who \in Req
    BY <1>5 DEF EndLoad, freed
  <2> QED
    BY <1>3, <2>1
<1>6. CASE who # Admin /\ result # "error" /\ s.todo[who] \ {n} # {}
  <2>1. who \in Req /\ freed.todo = s.todo /\ freed.pc = s.pc
    BY <1>1, <1>6 DEF freed
  <2>2. t = [freed EXCEPT !.todo[who] = s.todo[who] \ {n}]
    BY <1>1, <1>6, <2>1 DEF EndLoad, freed
  <2>3. t = [freed EXCEPT !.todo[who] = s.todo[who] \ {n}, !.pc[who] = s.pc[who]]
    BY <1>1, <2>1, <2>2 DEF freed
  <2>4. s.todo[who] \ {n} \in SUBSET NamesOf(who)
    BY <1>1, <2>1
  <2> QED
    BY <1>3, <2>1, <2>3, <2>4
<1>7. CASE who # Admin /\ result # "error" /\ s.todo[who] \ {n} = {}
  <2> DEFINE u == [freed EXCEPT !.todo[who] = {}]
  <2>1. who \in Req /\ freed.pc = s.pc
    BY <1>1, <1>7 DEF freed
  <2>2. t = Acquire(u, who)
    BY <1>7 DEF EndLoad, freed
  <2>3. u = [freed EXCEPT !.todo[who] = {}, !.pc[who] = s.pc[who]] /\ u.pc = s.pc
    BY <1>1, <2>1 DEF freed
  <2> HIDE DEF u
  <2>4. Core(u, b) /\ u.registry = s.registry /\ u.op = NoOp
    BY <1>3, <2>1, <2>3
  <2>5. who \notin ListForm => NamesOf(who) \subseteq NamesIn(u.registry)
    <3>1. n \in NamesOf(who) /\ n \in NamesIn(s.registry)
      BY <1>1, <1>7, <2>1 DEF Waiting
    <3>2. who \notin ListForm => \A m \in NamesOf(who) : m = n
      BY <2>1, <3>1, LoRAAssumption DEF NamesOf
    <3> QED
      BY <2>4, <3>1, <3>2
  <2>6. u.pc[who] = "reloading"
    BY <2>1, <2>3 DEF Waiting
  <2>7. Core(t, b)
    BY <2>1, <2>2, <2>4, <2>5, <2>6, AcquireCore
  <2>8. Reordered(u.registry, t.registry) /\ t.op = u.op
    <3>1. Reordered(u.registry, Acquire(u, who).registry) /\ Acquire(u, who).op = u.op
      BY <2>1, <2>4, AcquireFields
    <3> QED
      BY <2>2, <3>1
  <2> QED
    BY <2>4, <2>7, <2>8 DEF Reordered
<1> QED
  BY <1>4, <1>5, <1>6, <1>7

\* An unload starts: the name leaves the registry, unless it left it before,
\* and its id waits to be unloaded.
LEMMA BeginUnloadGood ==
    ASSUME NEW s, NEW b, Core(s, b), NEW n \in Name,
           NEW who \in Req \cup {Admin}, NEW wants \in Name \cup {NoName},
           NEW result \in {"ok", "already", "error"}, Waiting(s, who, wants),
           who \in Req => result # "error" /\ wants \in NamesIn(s.registry) /\ wants # n,
           n \in NamesIn(s.registry) \/ s.pending[n] # NoId,
           n \in Managed \/ n \notin Pinned,
           Len(s.registry) <= IF s.pending[n] # NoId THEN MaxLoaded ELSE MaxLoaded + 1
    PROVE  Good(BeginUnload(s, who, wants, result, n), b)
<1> DEFINE retry == s.pending[n] # NoId
           id == IF retry THEN s.pending[n] ELSE EntryOf(s.registry, n).id
           reg == IF retry THEN s.registry ELSE Without(s.registry, n)
           new == [stage |-> "drain", who |-> who, wants |-> wants,
                   result |-> result, name |-> n, id |-> id]
           t == BeginUnload(s, who, wants, result, n)
<1>1. /\ s \in [registry : Seq(Entry), counters : UNION {[D -> Nat] : D \in SUBSET Id},
                 pending : [Name -> Id \cup {NoId}], op : Op, pc : [Req -> Progress],
                 todo : [Req -> SUBSET Name],
                 using : [Req -> UNION {[D -> Id \cup {NoId}] : D \in SUBSET Nat}]]
      /\ \A q \in Req : DOMAIN s.using[q] = DOMAIN Paths[q] /\ s.todo[q] \subseteq NamesOf(q)
      /\ Distinct(s.registry)
  BY DEF Core, Typed
<1>2. t = [s EXCEPT !.registry = reg, !.pending[n] = id, !.op = new]
  BY DEF BeginUnload
<1>3. ~retry => /\ n \in NamesIn(s.registry)
               /\ EntryOf(s.registry, n) \in Entries(s.registry)
               /\ EntryOf(s.registry, n).name = n
               /\ EntryOf(s.registry, n).id \in Id
  <2>1. ASSUME ~retry
        PROVE  n \in NamesIn(s.registry)
    BY <2>1
  <2>2. ~retry => EntryOf(s.registry, n) \in Entries(s.registry)
                  /\ EntryOf(s.registry, n).name = n
    BY <1>1, <2>1, EntryFound
  <2>3. Entries(s.registry) \subseteq Entry
    BY <1>1, EntriesTyped
  <2> QED
    BY <2>1, <2>2, <2>3 DEF Entry
<1>4. id \in Id
  BY <1>1, <1>3
<1>5. /\ reg \in Seq(Entry) /\ Distinct(reg)
      /\ Len(reg) = IF retry THEN Len(s.registry) ELSE Len(s.registry) - 1
      /\ Entries(reg) = IF retry THEN Entries(s.registry)
                        ELSE Entries(s.registry) \ {EntryOf(s.registry, n)}
  <2>1. CASE retry
    BY <1>1, <2>1
  <2>2. CASE ~retry
    BY <1>1, <1>3, <2>2, WithoutEntry
  <2> QED
    BY <2>1, <2>2
<1>6. new \in Op
  BY <1>4 DEF Op, Stage
<1> HIDE DEF retry, id, reg, t
<1>7. /\ t.registry = reg /\ t.pending = [s.pending EXCEPT ![n] = id] /\ t.op = new
      /\ t.counters = s.counters /\ t.pc = s.pc /\ t.todo = s.todo /\ t.using = s.using
  BY <1>1, <1>2
<1>8. /\ t.pending \in [Name -> Id \cup {NoId}]
      /\ t.pending[n] = id /\ \A m \in Name \ {n} : t.pending[m] = s.pending[m]
  BY <1>1, <1>4, <1>7
<1>9. Typed(t)
  BY <1>1, <1>2, <1>5, <1>6, <1>7, <1>8 DEF Typed
<1>10. Entries(s.registry) \subseteq Entry /\ Entries(reg) \subseteq Entries(s.registry)
  BY <1>1, <1>5, EntriesTyped
<1>11. id # NoId
  BY <1>4, LoRAAssumption
<1>12. \A e \in Entries(reg) : e.name # n /\ e.id # id
  <2>1. CASE retry
    BY <1>5, <1>10, <1>11, <2>1 DEF Core, Registered, PendingApart, retry, id
  <2>2. CASE ~retry
    <3>1. id = EntryOf(s.registry, n).id
      BY <2>2 DEF id
    <3> QED
      BY <1>1, <1>3, <1>5, <2>2, <3>1, EntriesDiffer
  <2> QED
    BY <2>1, <2>2
<1>13. \A m \in Name : s.pending[m] = id => m = n
  <2>1. CASE retry
    BY <1>11, <2>1 DEF Core, PendingApart, id
  <2>2. CASE ~retry
    BY <1>3, <1>11, <2>2 DEF Core, PendingApart, id
  <2> QED
    BY <2>1, <2>2
<1>14. Registered(t, b)
  BY <1>7, <1>8, <1>10, <1>12 DEF Core, Registered, Entry
<1>15. PendingApart(t)
  BY <1>7, <1>8, <1>10, <1>12, <1>13 DEF Core, PendingApart
<1>16. Owned(t, b)
  <2> SUFFICES ASSUME NEW k \in Rank, NEW e \in b[k]
               PROVE  e \in Entries(reg) \/ t.pending[e.name] = e.id
    BY <1>7 DEF Owned
  <2>1. e \in Entry /\ (e \in Entries(s.registry) \/ s.pending[e.name] = e.id)
    BY DEF Core, Owned
  <2>2. e.name \in Name /\ e.id \in Id /\ e.id # NoId
    BY <2>1, LoRAAssumption DEF Entry
  <2>3. CASE e \in Entries(s.registry)
    BY <1>3, <1>5, <1>8, <2>3 DEF id
  <2>4. CASE s.pending[e.name] = e.id
    <3>1. CASE e.name = n
      BY <1>8, <2>2, <2>4, <3>1 DEF id, retry
    <3>2. CASE e.name # n
      BY <1>8, <2>2, <2>4, <3>2
    <3> QED
      BY <3>1, <3>2
  <2> QED
    BY <2>1, <2>3, <2>4
<1>17. CountedLoaded(t, b)
  BY <1>7 DEF Core, CountedLoaded
<1>18. Counted(t)
  <2>1. SameUsers(s, t)
    BY <1>7 DEF SameUsers
  <2> QED
    BY <1>7, <2>1, CountsStay DEF Core
<1>19. Followed(t)
  <2> SUFFICES ASSUME NEW r \in Req
               PROVE  /\ s.pc[r] = "gather" => r \in ListForm
                      /\ s.pc[r] = "missing" => r \in ListForm
                      /\ Held(t, r)
    BY <1>7 DEF Followed
  <2>1. /\ s.pc[r] = "gather" => r \in ListForm
        /\ s.pc[r] = "missing" => r \in ListForm
        /\ Held(s, r)
    BY DEF Core, Followed
  <2>2. ASSUME Steady(r), s.pc[r] = "gather", NEW i \in DOMAIN Paths[r]
        PROVE  [name |-> Paths[r][i], id |-> s.using[r][i]] \in Entries(reg)
    <3>1. Paths[r][i] # n
      BY <2>1, <2>2 DEF Steady, NamesOf
    <3>2. [name |-> Paths[r][i], id |-> s.using[r][i]] \in Entries(s.registry)
      BY <2>1, <2>2 DEF Held
    <3> QED
      BY <1>3, <1>5, <3>1, <3>2
  <2> QED
    BY <1>7, <2>1, <2>2 DEF Held
<1>20. Core(t, b)
  BY <1>5, <1>7, <1>9, <1>14, <1>15, <1>16, <1>17, <1>18, <1>19 DEF Core
<1>21. Len(t.registry) <= MaxLoaded
  <2>1. Len(s.registry) \in Nat /\ MaxLoaded \in Nat
    BY <1>1, LoRAAssumption
  <2> QED
    BY <1>5, <1>7, <2>1 DEF retry
<1>22. Updating(t, b)
  <2>1. who \in Req => wants \in NamesIn(reg)
    <3>1. ASSUME who \in Req
          PROVE  wants \in NamesIn(reg)
      <4>1. PICK e \in Entries(s.registry) : e.name = wants
        BY <1>1, <3>1, EntriesTyped
      <4>2. e \in Entries(reg)
        BY <1>3, <1>5, <3>1, <4>1
      <4> QED
        BY <1>5, <4>1, <4>2, EntriesTyped
    <3> QED
      BY <3>1
  <2>2. Waiting(t, who, wants)
    BY <1>7 DEF Waiting
  <2>3. /\ t.op.stage = "drain" /\ t.op.who = who /\ t.op.wants = wants
        /\ t.op.result = result /\ t.op.name = n /\ t.op.id = id
    BY <1>7
  <2> QED
    BY <1>7, <1>8, <1>11, <2>1, <2>2, <2>3 DEF Updating
<1> QED
  BY <1>20, <1>21, <1>22 DEF Good, t

\* The tail of load_lora_adapter.  With one adapter too many, the one that was
\* just registered is the last, and an unpinned one comes before it: the
\* victim is another.
LEMMA EvictOrEndGood ==
    ASSUME NEW s, NEW b, Core(s, b), NEW n \in Name,
           NEW who \in Req \cup {Admin}, NEW result \in {"ok", "already", "error"},
           Waiting(s, who, n),
           who \in Req /\ result # "error" => n \in NamesIn(s.registry),
           Len(s.registry) <= MaxLoaded + 1,
           Len(s.registry) > MaxLoaded =>
              s.registry[Len(s.registry)].name = n /\ result = "ok"
    PROVE  Good(EvictOrEnd(s, who, n, result), b)
<1> DEFINE reg == s.registry
<1>1. reg \in Seq(Entry) /\ Distinct(reg) /\ Len(reg) \in Nat /\ DOMAIN reg = 1 .. Len(reg)
  BY DEF Core, Typed
<1>2. MaxLoaded \in Nat
  BY LoRAAssumption
<1>3. CASE Len(reg) <= MaxLoaded
  BY <1>3, EndLoadGood DEF EvictOrEnd
<1>4. CASE ~(Len(reg) <= MaxLoaded)
  <2>1. Len(reg) = MaxLoaded + 1 /\ reg[Len(reg)].name = n /\ result = "ok"
    BY <1>1, <1>2, <1>4
  <2>2. \E i \in 1 .. MaxLoaded : reg[i].name \notin Pinned
    <3> SUFFICES ASSUME \A i \in 1 .. MaxLoaded : reg[i].name \in Pinned
                 PROVE  FALSE
      OBVIOUS
    <3> DEFINE f == [i \in 1 .. MaxLoaded |-> reg[i].name]
    <3>1. f \in [1 .. MaxLoaded -> Pinned]
      OBVIOUS
    <3>2. IsFiniteSet(1 .. MaxLoaded) /\ Cardinality(1 .. MaxLoaded) = MaxLoaded
      <4>1. 1 \in Int /\ MaxLoaded \in Int /\ MaxLoaded >= 1
        BY LoRAAssumption
      <4> QED
        BY <4>1, FS_Interval
    <3>3. \E i, j \in 1 .. MaxLoaded : i # j /\ f[i] = f[j]
      <4> HIDE DEF f
      <4> QED
        BY <3>1, <3>2, FS_PigeonHole, PinsFit
    <3>4. PICK i \in 1 .. MaxLoaded, j \in 1 .. MaxLoaded : i # j /\ f[i] = f[j]
      BY <3>3
    <3>5. i \in DOMAIN reg /\ j \in DOMAIN reg /\ reg[i].name = reg[j].name
      BY <1>1, <1>2, <2>1, <3>4
    <3> QED
      BY <1>1, <3>4, <3>5 DEF Distinct
  <2>3. PICK i \in 1 .. MaxLoaded : reg[i].name \notin Pinned
    BY <2>2
  <2>4. i \in Victims(reg) /\ Victims(reg) \in SUBSET Nat /\ Victims(reg) # {}
    BY <1>1, <1>2, <2>1, <2>3 DEF Victims
  <2>5. PICK v \in Victims(reg) : v = Min(Victims(reg)) /\ v <= i
    BY <2>4, MinIsLeast
  <2>6. v \in DOMAIN reg /\ v # Len(reg) /\ Lru(reg) = reg[v].name /\ reg[v].name \notin Pinned
    <3>1. Lru(reg) = reg[v].name
      BY <2>5 DEF Lru
    <3>2. v \in 1 .. Len(reg) /\ reg[v].name \notin Pinned
      BY <1>1 DEF Victims
    <3> QED
      BY <1>1, <1>2, <2>1, <2>5, <3>1, <3>2
  <2> DEFINE name == Lru(reg)
  <2>7. reg[v] \in Entries(reg) /\ reg[v] \in Entry
    BY <1>1, <2>6 DEF Entries
  <2>8. /\ name \in Name /\ name \in NamesIn(reg) /\ name \notin Pinned
        /\ s.pending[name] = NoId /\ name # n
    <3>1. name = reg[v].name /\ name \in Name
      BY <2>6, <2>7 DEF Entry
    <3>2. name \in NamesIn(reg)
      BY <2>6 DEF NamesIn
    <3>3. s.pending[name] = NoId
      BY <2>7, <3>1 DEF Core, Registered
    <3>4. name # n
      BY <1>1, <2>1, <2>6 DEF Distinct
    <3> QED
      BY <2>6, <3>1, <3>2, <3>3, <3>4
  <2>9. EvictOrEnd(s, who, n, result) = BeginUnload(s, who, n, result, name)
    BY <1>4, <2>4 DEF EvictOrEnd
  <2>10. n \in Name \cup {NoName} /\ result # "error"
    BY <2>1
  <2> HIDE DEF name
  <2>11. Good(BeginUnload(s, who, n, result, name), b)
    BY <2>8, <2>10, BeginUnloadGood
  <2> QED
    BY <2>9, <2>11
<1> QED
  BY <1>3, <1>4

-----------------------------------------------------------------------------
(* The actions                                                             *)

\* Become makes its argument the tokenizer's state.
LEMMA BecomeGood ==
    ASSUME NEW t, NEW b, Become(t), Good(t, b), backend' = b
    PROVE  Inv'
<1>1. Typed(t)
  BY DEF Good, Core
<1>2. t = [registry |-> t.registry, counters |-> t.counters, pending |-> t.pending,
           op |-> t.op, pc |-> t.pc, todo |-> t.todo, using |-> t.using]
  BY <1>1 DEF Typed
<1>3. Here' = t
  BY <1>2 DEF Here, Become
<1> QED
  BY <1>3 DEF Inv

LEMMA HereFields ==
    /\ Here.registry = registry /\ Here.counters = counters /\ Here.pending = pending
    /\ Here.op = op /\ Here.pc = pc /\ Here.todo = todo /\ Here.using = using
  BY DEF Here

LEMMA InitInv == Init => Inv
<1> SUFFICES ASSUME Init
             PROVE  Inv
  OBVIOUS
<1> DEFINE s == Here
<1>1. /\ registry = [i \in DOMAIN Preloaded |-> [name |-> Preloaded[i], id |-> i]]
      /\ counters = [id \in DOMAIN Preloaded |-> 0]
      /\ pending = [n \in Name |-> NoId]
      /\ op = NoOp
      /\ backend = [k \in Rank |-> Entries(registry)]
      /\ pc = [r \in Req |-> "idle"]
      /\ todo = [r \in Req |-> {}]
      /\ using = [r \in Req |-> [i \in DOMAIN Paths[r] |-> NoId]]
  BY DEF Init, Entries
<1>2. /\ s.registry = registry /\ s.counters = counters /\ s.pending = pending
      /\ s.op = op /\ s.pc = pc /\ s.todo = todo /\ s.using = using
  BY HereFields
<1>3. Preloaded \in Seq(Name) /\ DOMAIN Preloaded = 1 .. Len(Preloaded)
      /\ Len(Preloaded) \in Nat /\ DOMAIN Preloaded \subseteq Id
  BY LoRAAssumption
<1>4. registry \in Seq(Entry) /\ Len(registry) = Len(Preloaded) /\ Distinct(registry)
  <2>1. \A i \in 1 .. Len(Preloaded) : registry[i] \in Entry
    BY <1>1, <1>3 DEF Entry
  <2>2. registry \in Seq(Entry) /\ Len(registry) = Len(Preloaded)
    BY <1>1, <1>3, <2>1
  <2>3. Distinct(registry)
    BY <1>1, PreloadedFits DEF Distinct
  <2> QED
    BY <2>2, <2>3
<1>5. Entries(registry) \subseteq Entry
  BY <1>4, EntriesTyped
<1>6. \A e \in Entries(registry) : e.id \in DOMAIN Preloaded
  BY <1>1 DEF Entries
<1>7. Typed(s)
  <2>1. counters \in UNION {[D -> Nat] : D \in SUBSET Id}
    <3>1. counters \in [DOMAIN Preloaded -> Nat] /\ DOMAIN Preloaded \in SUBSET Id
      BY <1>1, <1>3
    <3> QED
      BY <3>1
  <2>2. using \in [Req -> UNION {[D -> Id \cup {NoId}] : D \in SUBSET Nat}]
    <3>1. ASSUME NEW r \in Req
          PROVE  using[r] \in UNION {[D -> Id \cup {NoId}] : D \in SUBSET Nat}
      <4>1. DOMAIN Paths[r] \in SUBSET Nat /\ using[r] \in [DOMAIN Paths[r] -> Id \cup {NoId}]
        BY <1>1, LoRAAssumption
      <4> QED
        BY <4>1
    <3> QED
      BY <1>1, <3>1
  <2>3. pc \in [Req -> Progress] /\ todo \in [Req -> SUBSET Name]
        /\ pending \in [Name -> Id \cup {NoId}]
    BY <1>1 DEF Progress
  <2>4. \A r \in Req : DOMAIN using[r] = DOMAIN Paths[r] /\ todo[r] \subseteq NamesOf(r)
    BY <1>1
  <2> QED
    BY <1>1, <1>2, <1>4, <2>1, <2>2, <2>3, <2>4, NoOpTyped DEF Typed, Here
<1>8. Registered(s, backend)
  BY <1>1, <1>2, <1>5, <1>6 DEF Registered, Entry
<1>9. PendingApart(s) /\ Owned(s, backend) /\ Followed(s)
  BY <1>1, <1>2 DEF PendingApart, Owned, Followed, Held
<1>10. CountedLoaded(s, backend)
  <2> SUFFICES ASSUME NEW id \in DOMAIN Preloaded, NEW k \in Rank
               PROVE  \E e \in backend[k] : e.id = id
    <3>1. DOMAIN s.counters = DOMAIN Preloaded
      BY <1>1, <1>2
    <3> QED
      BY <3>1 DEF CountedLoaded
  <2>1. registry[id] \in Entries(registry) /\ registry[id].id = id
    BY <1>1 DEF Entries
  <2> QED
    BY <1>1, <2>1
<1>11. Counted(s)
  <2>1. \A id : Users(s, id) = {}
    <3>1. \A u \in SubRequests : u[1] \in Req
      BY DEF SubRequests
    <3> QED
      BY <1>1, <1>2, <3>1 DEF Users
  <2>2. \A id \in DOMAIN s.counters : s.counters[id] = 0
    BY <1>1, <1>2
  <2> QED
    BY <2>1, <2>2, FS_EmptySet DEF Counted
<1>12. Core(s, backend)
  BY <1>1, <1>2, <1>4, <1>5, <1>7, <1>8, <1>9, <1>10, <1>11 DEF Core
<1>13. Updating(s, backend)
  BY <1>1, <1>2, NoOpTyped DEF Updating
<1> QED
  BY <1>2, <1>4, <1>12, <1>13, PreloadedFits DEF Good, Inv

\* What the inductive steps start from.
LEMMA InvGives ==
    ASSUME Inv
    PROVE  /\ Core(Here, backend) /\ Updating(Here, backend) /\ Len(registry) <= MaxLoaded
           /\ Here \in [registry : Seq(Entry), counters : UNION {[D -> Nat] : D \in SUBSET Id},
                 pending : [Name -> Id \cup {NoId}], op : Op, pc : [Req -> Progress],
                 todo : [Req -> SUBSET Name],
                 using : [Req -> UNION {[D -> Id \cup {NoId}] : D \in SUBSET Nat}]]
           /\ \A q \in Req : DOMAIN using[q] = DOMAIN Paths[q] /\ todo[q] \subseteq NamesOf(q)
           /\ registry \in Seq(Entry) /\ Distinct(registry)
           /\ \E D \in SUBSET Id : counters \in [D -> Nat]
           /\ pending \in [Name -> Id \cup {NoId}] /\ op \in Op
           /\ pc \in [Req -> Progress] /\ todo \in [Req -> SUBSET Name]
           /\ using \in [Req -> UNION {[D -> Id \cup {NoId}] : D \in SUBSET Nat}]
           /\ backend \in [Rank -> SUBSET Entry]
  BY HereFields DEF Inv, Good, Core, Typed

\* An update works for a request that is reloading.
LEMMA WorksFor ==
    ASSUME Inv, NEW r \in Req, op.stage # "none", op.who = r
    PROVE  pc[r] = "reloading" /\ op.wants \in todo[r]
  BY InvGives, HereFields DEF Updating, Waiting

LEMMA ResolveInv ==
    ASSUME Inv, NEW r \in Req, Resolve(r)
    PROVE  Inv'
<1> DEFINE s == Here
           absent == NamesOf(r) \ NamesIn(registry)
           seen == [s EXCEPT !.registry = TouchAll(@, Paths[r])]
<1>1. pc[r] = "idle" /\ backend' = backend
  BY DEF Resolve
<1>2. /\ Core(s, backend) /\ Updating(s, backend) /\ Len(s.registry) <= MaxLoaded
      /\ s.registry = registry /\ s.pc = pc /\ s.op = op /\ s.using = using
      /\ registry \in Seq(Entry) /\ Distinct(registry) /\ Paths[r] \in Seq(Name)
      /\ pc \in [Req -> Progress] /\ todo \in [Req -> SUBSET Name] /\ s.todo = todo
      /\ \A q \in Req : DOMAIN using[q] = DOMAIN Paths[q] /\ todo[q] \subseteq NamesOf(q)
  BY InvGives, HereFields, LoRAAssumption
<1>3. Typed(s) /\ s \in [registry : Seq(Entry), counters : UNION {[D -> Nat] : D \in SUBSET Id},
                 pending : [Name -> Id \cup {NoId}], op : Op, pc : [Req -> Progress],
                 todo : [Req -> SUBSET Name],
                 using : [Req -> UNION {[D -> Id \cup {NoId}] : D \in SUBSET Nat}]]
  BY <1>2 DEF Core, Typed
<1>4. op.stage # "none" => op.who # r
  BY <1>1, WorksFor
<1>5. Reordered(registry, TouchAll(registry, Paths[r]))
  BY <1>2, TouchAllReorders
<1> HIDE DEF s
<1>6. PICK new : new = TouchAll(registry, Paths[r])
  OBVIOUS
<1>7. /\ seen.registry = new /\ seen.pending = s.pending /\ seen.counters = s.counters
      /\ seen.op = s.op /\ seen.pc = s.pc /\ seen.todo = s.todo /\ seen.using = s.using
      /\ Typed(seen) /\ Reordered(s.registry, seen.registry)
  <2>1. new \in Seq(Entry)
    BY <1>5, <1>6 DEF Reordered
  <2> QED
    BY <1>2, <1>3, <1>5, <1>6, <2>1 DEF Typed
<1>8. Core(seen, backend)
  <2>1. SameUsers(s, seen)
    BY <1>7 DEF SameUsers
  <2>2. Counted(seen)
    BY <1>2, <1>7, <2>1, CountsStay DEF Core
  <2>3. Entries(seen.registry) = Entries(s.registry)
    BY <1>7 DEF Reordered
  <2>4. Followed(seen)
    BY <1>2, <1>7, <2>3 DEF Core, Followed, Held
  <2> QED
    BY <1>2, <1>7, <2>2, <2>4, CoreStep
<1> HIDE DEF seen
<1>9. Updating(seen, backend) /\ Len(seen.registry) <= MaxLoaded
  <2>1. \A i \in DOMAIN Paths[r] : seen.using[r][i] \in {s.using[r][i], NoId}
                                              \cup DOMAIN s.counters
    BY <1>7
  <2>2. Updating(seen, backend)
    BY <1>2, <1>4, <1>7, <2>1, UpdatingStep
  <2> QED
    BY <1>2, <1>7, <2>2 DEF Reordered
<1>10. CASE absent = {}
  <2> DEFINE t == Acquire(seen, r)
  <2>1. Become(t)
    BY <1>10 DEF Resolve, s, seen
  <2>2. NamesOf(r) \subseteq NamesIn(seen.registry)
    <3>1. NamesIn(seen.registry) = NamesIn(registry)
      BY <1>2, <1>7, EntriesTyped DEF Reordered
    <3> QED
      BY <1>10, <3>1
  <2>3. Core(t, backend)
    BY <1>1, <1>2, <1>7, <1>8, <2>2, AcquireCore
  <2>4. /\ Reordered(seen.registry, t.registry)
        /\ t.pending = seen.pending /\ t.op = seen.op /\ t.todo = seen.todo
        /\ Typed(t)
        /\ \E ids \in [DOMAIN Paths[r] -> Id] :
              /\ \A i \in DOMAIN Paths[r] :
                    [name |-> Paths[r][i], id |-> ids[i]] \in Entries(seen.registry)
              /\ t.using = [seen.using EXCEPT ![r] = ids]
              /\ \/ /\ r \in ListForm
                    /\ t.pc = [seen.pc EXCEPT ![r] = "gather"]
                    /\ t.counters = seen.counters
                 \/ /\ r \notin ListForm
                    /\ t.pc = [seen.pc EXCEPT ![r] = "running"]
                    /\ t.counters = [seen.counters EXCEPT ![ids[1]] = @ + 1]
    BY <1>8, <2>2, AcquireFields
  <2> HIDE DEF t
  <2>5. PICK ids \in [DOMAIN Paths[r] -> Id] :
              /\ \A i \in DOMAIN Paths[r] :
                    [name |-> Paths[r][i], id |-> ids[i]] \in Entries(seen.registry)
              /\ t.using = [seen.using EXCEPT ![r] = ids]
              /\ \/ /\ r \in ListForm
                    /\ t.pc = [seen.pc EXCEPT ![r] = "gather"]
                    /\ t.counters = seen.counters
                 \/ /\ r \notin ListForm
                    /\ t.pc = [seen.pc EXCEPT ![r] = "running"]
                    /\ t.counters = [seen.counters EXCEPT ![ids[1]] = @ + 1]
    BY <2>4
  <2>6. DOMAIN t.counters = DOMAIN seen.counters
    BY <2>5
  <2>7. \A i \in DOMAIN Paths[r] : ids[i] \in DOMAIN seen.counters
    BY <1>8, <2>5 DEF Core, Registered
  <2>8. /\ \A q \in Req \ {r} : t.pc[q] = seen.pc[q] /\ t.todo[q] = seen.todo[q]
                                  /\ t.using[q] = seen.using[q]
        /\ t.using[r] = ids
    <3>1. seen.pc \in [Req -> Progress] /\ DOMAIN seen.using = Req
      BY <1>7 DEF Typed
    <3> QED
      BY <2>4, <2>5, <3>1
  <2>9. Updating(t, backend)
    <3>1. \A i \in DOMAIN Paths[r] : t.using[r][i] \in {seen.using[r][i], NoId}
                                              \cup DOMAIN seen.counters
      BY <2>7, <2>8
    <3>2. seen.op.stage # "none" => seen.op.who # r
      BY <1>2, <1>4, <1>7
    <3> QED
      BY <1>8, <1>9, <2>4, <2>6, <2>8, <3>1, <3>2, UpdatingStep
  <2>10. Good(t, backend)
    BY <1>9, <2>3, <2>4, <2>9 DEF Good, Reordered
  <2> QED
    BY <1>1, <2>1, <2>10, BecomeGood
<1>11. CASE absent # {}
  <2> DEFINE t == [seen EXCEPT !.todo[r] = absent, !.pc[r] = "reloading"]
  <2>1. Become(t)
    BY <1>11 DEF Resolve, s, seen
  <2>2. /\ t.registry = seen.registry /\ t.pending = seen.pending
        /\ t.counters = seen.counters /\ t.op = seen.op /\ t.using = seen.using
        /\ t.todo = [todo EXCEPT ![r] = absent] /\ t.pc = [pc EXCEPT ![r] = "reloading"]
    BY <1>2, <1>7 DEF Typed
  <2>3. Typed(t)
    <3>1. absent \in SUBSET Name /\ absent \subseteq NamesOf(r)
      BY <1>2 DEF NamesOf
    <3>2. /\ t.pc \in [Req -> Progress] /\ t.todo \in [Req -> SUBSET Name]
          /\ \A q \in Req : t.todo[q] \subseteq NamesOf(q)
      <4> HIDE DEF absent, t
      <4>1. "reloading" \in Progress
        BY DEF Progress
      <4> QED
        BY <1>2, <2>2, <3>1, <4>1
    <3> HIDE DEF absent
    <3> QED
      BY <1>7, <2>2, <3>1, <3>2 DEF Typed
  <2> HIDE DEF t
  <2>4. Quiet(seen, t)
    BY <1>1, <1>2, <1>7, <2>2 DEF Quiet
  <2>5. Core(t, backend)
    BY <1>8, <2>3, <2>4, QuietCore
  <2>6. Updating(t, backend)
    <3>1. \A i \in DOMAIN Paths[r] : t.using[r][i] \in {seen.using[r][i], NoId}
                                              \cup DOMAIN seen.counters
      BY <2>2
    <3>2. seen.op.stage # "none" => seen.op.who # r
      BY <1>2, <1>4, <1>7
    <3>3. \A q \in Req \ {r} : t.pc[q] = seen.pc[q] /\ t.todo[q] = seen.todo[q]
                                 /\ t.using[q] = seen.using[q]
      BY <1>2, <1>7, <2>2
    <3>4. Reordered(seen.registry, t.registry)
      BY <1>7, <1>8, <2>2 DEF Reordered, Core, Typed
    <3> QED
      BY <1>8, <1>9, <2>2, <2>3, <3>1, <3>2, <3>3, <3>4, UpdatingStep
  <2>7. Good(t, backend)
    BY <1>9, <2>2, <2>5, <2>6 DEF Good
  <2> QED
    BY <1>1, <2>1, <2>7, BecomeGood
<1> QED
  BY <1>10, <1>11

\* A step of a request that no update works for, and that leaves the registry
\* and the pending unloads alone.
LEMMA RequestStep ==
    ASSUME Inv, NEW r \in Req, op.stage # "none" => op.who # r, NEW t, Typed(t), Become(t),
           backend' = backend, t.registry = registry, t.pending = pending, t.op = op,
           t.todo = todo, DOMAIN t.counters = DOMAIN counters,
           \A q \in Req \ {r} : t.pc[q] = pc[q] /\ t.using[q] = using[q],
           \A i \in DOMAIN Paths[r] : t.using[r][i] \in {using[r][i], NoId},
           Counted(t), Held(t, r), t.pc[r] \in {"running", "done"}
    PROVE  Inv'
<1>1. /\ Core(Here, backend) /\ Updating(Here, backend) /\ Len(registry) <= MaxLoaded
      /\ registry \in Seq(Entry) /\ Distinct(registry)
  BY InvGives
<1>2. Reordered(registry, t.registry)
  BY <1>1 DEF Reordered
<1>3. ASSUME NEW q \in Req
      PROVE  /\ t.pc[q] = "gather" => q \in ListForm
             /\ t.pc[q] = "missing" => q \in ListForm
             /\ Held(t, q)
  <2>1. CASE q = r
    BY <2>1
  <2>2. CASE q # r
    <3>1. /\ pc[q] = "gather" => q \in ListForm
          /\ pc[q] = "missing" => q \in ListForm
          /\ Held(Here, q)
      BY <1>1, HereFields DEF Core, Followed
    <3> QED
      BY <2>2, <3>1, HereFields DEF Held
  <2> QED
    BY <2>1, <2>2
<1>4. Followed(t)
  BY <1>3 DEF Followed
<1>5. Core(t, backend)
  BY <1>1, <1>2, <1>4, HereFields, CoreStep
<1>6. Updating(t, backend)
  <2>1. \A i \in DOMAIN Paths[r] : t.using[r][i] \in {Here.using[r][i], NoId}
                                            \cup DOMAIN Here.counters
    BY HereFields
  <2>2. Here.op.stage # "none" => Here.op.who # r
    BY HereFields
  <2>3. \A q \in Req \ {r} : t.pc[q] = Here.pc[q] /\ t.todo[q] = Here.todo[q]
                               /\ t.using[q] = Here.using[q]
    BY HereFields
  <2> QED
    BY <1>1, <1>2, <2>1, <2>2, <2>3, HereFields, UpdatingStep
<1>7. Good(t, backend)
  BY <1>1, <1>5, <1>6 DEF Good
<1> QED
  BY <1>7, BecomeGood

LEMMA IncrementInv ==
    ASSUME Inv, NEW r \in Req, Increment(r)
    PROVE  Inv'
<1> DEFINE mine(id) == {i \in DOMAIN Paths[r] : using[r][i] = id}
           new == [id \in DOMAIN counters |-> counters[id] + Cardinality(mine(id))]
           t == [Here EXCEPT !.pc[r] = "running", !.counters = new]
<1>1. pc[r] = "gather" /\ backend' = backend
  BY DEF Increment
<1>2. PICK D \in SUBSET Id : counters \in [D -> Nat]
  BY InvGives
<1>3. /\ Here \in [registry : Seq(Entry), counters : UNION {[E -> Nat] : E \in SUBSET Id},
                 pending : [Name -> Id \cup {NoId}], op : Op, pc : [Req -> Progress],
                 todo : [Req -> SUBSET Name],
                 using : [Req -> UNION {[E -> Id \cup {NoId}] : E \in SUBSET Nat}]]
      /\ pc \in [Req -> Progress]
      /\ \A q \in Req : DOMAIN using[q] = DOMAIN Paths[q] /\ todo[q] \subseteq NamesOf(q)
  BY InvGives
<1>4. \A id : IsFiniteSet(mine(id)) /\ Cardinality(mine(id)) \in Nat
  <2>1. Len(Paths[r]) \in Nat /\ DOMAIN Paths[r] = 1 .. Len(Paths[r])
    BY LoRAAssumption
  <2>2. 1 \in Int /\ Len(Paths[r]) \in Int
    BY <2>1
  <2>3. IsFiniteSet(DOMAIN Paths[r])
    BY <2>1, <2>2, FS_Interval
  <2>4. \A id : mine(id) \in SUBSET DOMAIN Paths[r]
    OBVIOUS
  <2> HIDE DEF mine
  <2> QED
    BY <2>3, <2>4, FS_Subset, FS_CardinalityType
<1> HIDE DEF mine
<1>5. new \in [D -> Nat]
  BY <1>2, <1>4
<1> HIDE DEF new
<1>6. /\ t.registry = registry /\ t.pending = pending /\ t.op = op /\ t.todo = todo
      /\ t.using = using /\ t.counters = new /\ t.pc = [pc EXCEPT ![r] = "running"]
  BY <1>3, HereFields
<1>7. Typed(t)
  <2>1. new \in UNION {[E -> Nat] : E \in SUBSET Id}
    BY <1>5
  <2>2. t.pc \in [Req -> Progress]
    BY <1>3, <1>6 DEF Progress
  <2> QED
    BY <1>3, <1>6, <2>1, <2>2, HereFields DEF Typed
<1>8. Become(t)
  BY <1>6 DEF Increment, Become, new, mine
<1> HIDE DEF t
<1>9. Core(Here, backend)
  BY InvGives
<1>10. Held(t, r)
  <2> SUFFICES ASSUME Steady(r), NEW i \in DOMAIN Paths[r]
               PROVE  using[r][i] \in DOMAIN new
    BY <1>3, <1>6 DEF Held
  <2>1. [name |-> Paths[r][i], id |-> using[r][i]] \in Entries(registry)
    BY <1>1, <1>9, HereFields DEF Core, Followed, Held
  <2>2. using[r][i] \in DOMAIN counters
    BY <1>9, <2>1, HereFields DEF Core, Registered
  <2> QED
    BY <1>2, <1>5, <2>2
<1>11. ASSUME NEW id \in DOMAIN new
       PROVE  t.counters[id] = Cardinality(Users(t, id))
  <2> DEFINE old == Users(Here, id)
             more == {r} \X mine(id)
  <2>1. IsFiniteSet(old) /\ old \subseteq SubRequests /\ Cardinality(old) \in Nat
    <3>1. old \subseteq SubRequests
      BY DEF Users
    <3> QED
      BY <3>1, UsersAre
  <2>2. IsFiniteSet(more) /\ Cardinality(more) = Cardinality(mine(id))
    <3>1. IsFiniteSet({r}) /\ Cardinality({r}) = 1
      BY FS_Singleton
    <3>2. IsFiniteSet(more) /\ Cardinality(more) = 1 * Cardinality(mine(id))
      BY <1>4, <3>1, FS_Product
    <3> QED
      BY <1>4, <3>2
  <2>3. old \cap more = {}
    BY <1>1, HereFields, UsersAre DEF mine
  <2>4. Users(t, id) = old \cup more
    <3>1. more \subseteq SubRequests
      BY DEF SubRequests, mine
    <3>2. ASSUME NEW u \in SubRequests
          PROVE  u \in Users(t, id) <=> (u \in old \/ u \in more)
      <4>0. PICK q \in Req : \E i \in DOMAIN Paths[q] : u = <<q, i>>
        BY DEF SubRequests
      <4>1. PICK i \in DOMAIN Paths[q] : u = <<q, i>>
        BY <4>0
      <4>2. CASE q = r
        <5>1. t.pc[r] = "running" /\ t.using = using
          BY <1>3, <1>6
        <5>2. u \in Users(t, id) <=> using[r][i] = id
          BY <4>1, <4>2, <5>1, UsersAre
        <5>3. u \notin old
          BY <1>1, <4>1, <4>2, HereFields, UsersAre
        <5>4. u \in more <=> using[r][i] = id
          BY <4>1, <4>2 DEF mine
        <5> QED
          BY <5>2, <5>3, <5>4
      <4>3. CASE q # r
        <5>1. t.pc[q] = pc[q] /\ t.using = using
          BY <1>3, <1>6, <4>3
        <5>2. u \in Users(t, id) <=> u \in old
          BY <4>1, <5>1, HereFields, UsersAre
        <5>3. u \notin more
          BY <4>1, <4>3
        <5> QED
          BY <5>2, <5>3
      <4> QED
        BY <4>2, <4>3
    <3>3. Users(t, id) \subseteq SubRequests
      BY DEF Users
    <3> QED
      BY <2>1, <3>1, <3>2, <3>3
  <2>5. Cardinality(Users(t, id)) = Cardinality(old) + Cardinality(mine(id))
    <3> HIDE DEF old, more
    <3>1. Cardinality(old \cup more) = Cardinality(old) + Cardinality(more) - Cardinality({})
      BY <2>1, <2>2, <2>3, FS_Union
    <3>2. Cardinality({}) = 0
      BY FS_EmptySet
    <3> QED
      BY <1>4, <2>1, <2>2, <2>4, <3>1, <3>2
  <2>6. id \in DOMAIN counters /\ counters[id] = Cardinality(old)
    BY <1>2, <1>5, <1>9, HereFields DEF Core, Counted
  <2>7. new[id] = counters[id] + Cardinality(mine(id))
    BY <2>6 DEF new
  <2> QED
    BY <1>6, <2>5, <2>6, <2>7
<1>12. Counted(t)
  BY <1>6, <1>11 DEF Counted
<1>13. op.stage # "none" => op.who # r
  BY <1>1, WorksFor
<1>14. /\ \A q \in Req \ {r} : t.pc[q] = pc[q] /\ t.using[q] = using[q]
       /\ \A i \in DOMAIN Paths[r] : t.using[r][i] \in {using[r][i], NoId}
       /\ t.pc[r] \in {"running", "done"}
       /\ DOMAIN t.counters = DOMAIN counters
  BY <1>2, <1>3, <1>5, <1>6
<1> QED
  BY <1>1, <1>6, <1>7, <1>8, <1>10, <1>12, <1>13, <1>14, RequestStep

LEMMA ReleaseInv ==
    ASSUME Inv, NEW r \in Req, NEW j \in DOMAIN Paths[r], Release(r, j)
    PROVE  Inv'
<1> DEFINE freed == [using EXCEPT ![r][j] = NoId]
           new == [id \in DOMAIN counters |->
                     IF id = using[r][j] THEN counters[id] - 1 ELSE counters[id]]
           next == [pc EXCEPT ![r] = IF \A i \in DOMAIN Paths[r] : freed[r][i] = NoId
                                       THEN "done" ELSE @]
           t == [Here EXCEPT !.pc = next, !.counters = new, !.using = freed]
<1>1. pc[r] = "running" /\ using[r][j] # NoId /\ backend' = backend
  BY DEF Release
<1>2. PICK D \in SUBSET Id : counters \in [D -> Nat]
  BY InvGives
<1>3. /\ Here \in [registry : Seq(Entry), counters : UNION {[E -> Nat] : E \in SUBSET Id},
                 pending : [Name -> Id \cup {NoId}], op : Op, pc : [Req -> Progress],
                 todo : [Req -> SUBSET Name],
                 using : [Req -> UNION {[E -> Id \cup {NoId}] : E \in SUBSET Nat}]]
      /\ pc \in [Req -> Progress]
      /\ using \in [Req -> UNION {[E -> Id \cup {NoId}] : E \in SUBSET Nat}]
      /\ \A q \in Req : DOMAIN using[q] = DOMAIN Paths[q] /\ todo[q] \subseteq NamesOf(q)
  BY InvGives
<1>4. Core(Here, backend)
  BY InvGives
<1>5. \A q \in Req : using[q] \in [DOMAIN Paths[q] -> Id \cup {NoId}]
  <2> SUFFICES ASSUME NEW q \in Req
               PROVE  using[q] \in [DOMAIN Paths[q] -> Id \cup {NoId}]
    OBVIOUS
  <2>1. PICK E \in SUBSET Nat : using[q] \in [E -> Id \cup {NoId}]
    BY <1>3
  <2> QED
    BY <1>3, <2>1
<1>6. /\ freed[r] \in [DOMAIN Paths[r] -> Id \cup {NoId}] /\ freed[r][j] = NoId
      /\ \A i \in DOMAIN Paths[r] : i # j => freed[r][i] = using[r][i]
      /\ \A q \in Req \ {r} : freed[q] = using[q]
      /\ DOMAIN freed = Req
  BY <1>3, <1>5
<1>7. freed \in [Req -> UNION {[E -> Id \cup {NoId}] : E \in SUBSET Nat}]
  <2>1. DOMAIN Paths[r] \in SUBSET Nat
    BY LoRAAssumption
  <2>2. freed[r] \in UNION {[E -> Id \cup {NoId}] : E \in SUBSET Nat}
    BY <1>6, <2>1
  <2>3. \A q \in Req : freed[q] \in UNION {[E -> Id \cup {NoId}] : E \in SUBSET Nat}
    BY <1>3, <1>6, <2>2
  <2>4. freed = [q \in Req |-> freed[q]]
    BY <1>3
  <2> HIDE DEF freed
  <2> QED
    BY <2>3, <2>4
<1>8. new \in [D -> Nat]
  <2>1. using[r][j] \in DOMAIN counters => counters[using[r][j]] # 0
    BY <1>1, <1>4, HereFields, UsedCounts DEF Core
  <2> QED
    BY <1>2, <2>1
<1>9. /\ next \in [Req -> Progress] /\ next[r] \in {"running", "done"}
      /\ next[r] = "done" => \A i \in DOMAIN Paths[r] : freed[r][i] = NoId
      /\ \A q \in Req \ {r} : next[q] = pc[q]
  BY <1>1, <1>3 DEF Progress
<1>10. using' = freed /\ counters' = new /\ pc' = next
  <2>1. using' = freed /\ counters' = new
    BY DEF Release
  <2> HIDE DEF freed, new
  <2> QED
    BY <2>1 DEF Release
<1> HIDE DEF freed, next
<1>11. /\ t.registry = registry /\ t.pending = pending /\ t.op = op /\ t.todo = todo
       /\ t.using = freed /\ t.counters = new /\ t.pc = next
  BY <1>3, HereFields
<1>12. Typed(t)
  <2>1. new \in UNION {[E -> Nat] : E \in SUBSET Id}
    BY <1>8
  <2>2. \A q \in Req : DOMAIN freed[q] = DOMAIN Paths[q]
    BY <1>5, <1>6
  <2> HIDE DEF new
  <2> QED
    BY <1>3, <1>7, <1>9, <1>11, <2>1, <2>2, HereFields DEF Typed
<1>13. Become(t)
  BY <1>10, <1>11 DEF Release, Become
<1> HIDE DEF t
<1>14. Held(t, r)
  <2>1. Held(Here, r)
    BY <1>4 DEF Core, Followed
  <2>2. DOMAIN new = DOMAIN counters
    BY <1>2
  <2> QED
    BY <1>1, <1>6, <1>9, <1>11, <2>1, <2>2, HereFields DEF Held
<1>15. ASSUME NEW id \in DOMAIN new
       PROVE  t.counters[id] = Cardinality(Users(t, id))
  <2> DEFINE old == Users(Here, id)
  <2>1. IsFiniteSet(old) /\ Cardinality(old) \in Nat
    BY UsersAre
  <2>2. old \subseteq SubRequests /\ Users(t, id) \subseteq SubRequests
    BY DEF Users
  <2>3. id \in DOMAIN counters /\ counters[id] = Cardinality(old) /\ id \in Id /\ id # NoId
    BY <1>2, <1>4, HereFields, LoRAAssumption DEF Core, Counted
  <2>4. ASSUME NEW u \in SubRequests
        PROVE  u \in Users(t, id) <=> (u \in old /\ u # <<r, j>>)
    <3>0. PICK q \in Req : \E i \in DOMAIN Paths[q] : u = <<q, i>>
      BY DEF SubRequests
    <3>1. PICK i \in DOMAIN Paths[q] : u = <<q, i>>
      BY <3>0
    <3>2. u \in Users(t, id) <=> next[q] = "running" /\ freed[q][i] = id
      BY <1>11, <3>1, UsersAre
    <3>3. u \in old <=> pc[q] = "running" /\ using[q][i] = id
      BY <3>1, HereFields, UsersAre
    <3>4. CASE q # r
      <4>1. u # <<r, j>>
        BY <3>1, <3>4
      <4> QED
        BY <1>6, <1>9, <3>2, <3>3, <3>4, <4>1
    <3>5. CASE q = r /\ i = j
      BY <1>6, <2>3, <3>1, <3>2, <3>5
    <3>6. CASE q = r /\ i # j
      <4>1. u # <<r, j>>
        BY <3>1, <3>6
      <4>2. freed[q][i] = using[q][i]
        BY <1>6, <3>6
      <4>3. freed[q][i] = id => next[q] = "running"
        BY <1>9, <2>3, <3>6
      <4> QED
        BY <1>1, <3>2, <3>3, <3>6, <4>1, <4>2, <4>3
    <3> QED
      BY <3>4, <3>5, <3>6
  <2>5. Users(t, id) = old \ {<<r, j>>}
    <3> HIDE DEF old
    <3> QED
      BY <2>2, <2>4
  <2>6. <<r, j>> \in old <=> id = using[r][j]
    BY <1>1, HereFields, UsersAre
  <2>7. Cardinality(Users(t, id)) = IF id = using[r][j] THEN Cardinality(old) - 1
                                                        ELSE Cardinality(old)
    <3> HIDE DEF old
    <3>1. Cardinality(old \ {<<r, j>>}) = IF <<r, j>> \in old THEN Cardinality(old) - 1
                                                              ELSE Cardinality(old)
      BY <2>1, FS_RemoveElement
    <3> QED
      BY <2>5, <2>6, <3>1
  <2> QED
    BY <1>11, <2>3, <2>7
<1>16. Counted(t)
  BY <1>11, <1>15 DEF Counted
<1>17. op.stage # "none" => op.who # r
  BY <1>1, WorksFor
<1>18. /\ \A q \in Req \ {r} : t.pc[q] = pc[q] /\ t.using[q] = using[q]
       /\ \A i \in DOMAIN Paths[r] : t.using[r][i] \in {using[r][i], NoId}
       /\ t.pc[r] \in {"running", "done"}
       /\ DOMAIN t.counters = DOMAIN counters
  BY <1>2, <1>6, <1>9, <1>11
<1> HIDE DEF new
<1> QED
  BY <1>1, <1>11, <1>12, <1>13, <1>14, <1>16, <1>17, <1>18, RequestStep

\* wait_for_unload returns: nobody runs with the adapter any more.
LEMMA DrainInv ==
    ASSUME Inv, Drain
    PROVE  Inv'
<1> DEFINE new == [id \in DOMAIN counters \ {op.id} |-> counters[id]]
           sent == [op EXCEPT !.stage = "unload"]
           t == [Here EXCEPT !.counters = new, !.op = sent]
<1>1. /\ op.stage = "drain" /\ (op.id \in DOMAIN counters => counters[op.id] = 0)
      /\ backend' = backend
  BY DEF Drain
<1>2. PICK D \in SUBSET Id : counters \in [D -> Nat]
  BY InvGives
<1>3. /\ Here \in [registry : Seq(Entry), counters : UNION {[E -> Nat] : E \in SUBSET Id},
                 pending : [Name -> Id \cup {NoId}], op : Op, pc : [Req -> Progress],
                 todo : [Req -> SUBSET Name],
                 using : [Req -> UNION {[E -> Id \cup {NoId}] : E \in SUBSET Nat}]]
      /\ \A q \in Req : DOMAIN using[q] = DOMAIN Paths[q] /\ todo[q] \subseteq NamesOf(q)
      /\ op \in Op /\ Len(registry) <= MaxLoaded
  BY InvGives
<1>4. Core(Here, backend) /\ Updating(Here, backend)
  BY InvGives
<1>5. new \in [D \ {op.id} -> Nat] /\ D \ {op.id} \in SUBSET Id
      /\ DOMAIN new = DOMAIN counters \ {op.id}
      /\ \A id \in DOMAIN new : new[id] = counters[id]
  BY <1>2
<1>6. /\ sent \in Op /\ sent.stage = "unload" /\ sent.who = op.who /\ sent.wants = op.wants
      /\ sent.result = op.result /\ sent.name = op.name /\ sent.id = op.id
  BY <1>3 DEF Op, Stage
<1>7. /\ t.registry = registry /\ t.pending = pending /\ t.op = sent /\ t.todo = todo
      /\ t.using = using /\ t.counters = new /\ t.pc = pc
  BY <1>3, HereFields
<1>8. Become(t)
  BY <1>7 DEF Drain, Become
<1> HIDE DEF new, sent
<1>9. Typed(t)
  <2>1. new \in UNION {[E -> Nat] : E \in SUBSET Id}
    BY <1>5
  <2> QED
    BY <1>3, <1>6, <1>7, <2>1, HereFields DEF Typed
<1> HIDE DEF t
<1>10. op.name \in Name /\ op.id # NoId /\ pending[op.name] = op.id
  BY <1>1, <1>4, HereFields DEF Updating
<1>11. Registered(t, backend)
  <2>1. \A e \in Entries(registry) : e.id # op.id
    BY <1>4, <1>10, HereFields DEF Core, PendingApart
  <2> QED
    BY <1>4, <1>5, <1>7, <2>1, HereFields DEF Core, Registered
<1>12. PendingApart(t) /\ Owned(t, backend)
  BY <1>4, <1>7, HereFields DEF Core, PendingApart, Owned
<1>13. CountedLoaded(t, backend)
  BY <1>4, <1>5, <1>7, HereFields DEF Core, CountedLoaded
<1>14. Counted(t)
  <2>1. SameUsers(Here, t)
    BY <1>7, HereFields DEF SameUsers
  <2>2. \A id : Users(t, id) = Users(Here, id)
    BY <2>1, UsersStay
  <2> QED
    BY <1>4, <1>5, <1>7, <2>2, HereFields DEF Core, Counted
<1>15. Followed(t)
  <2> SUFFICES ASSUME NEW r \in Req
               PROVE  /\ pc[r] = "gather" => r \in ListForm
                      /\ pc[r] = "missing" => r \in ListForm
                      /\ Held(t, r)
    BY <1>7 DEF Followed
  <2>1. /\ pc[r] = "gather" => r \in ListForm
        /\ pc[r] = "missing" => r \in ListForm
        /\ Held(Here, r)
    BY <1>4, HereFields DEF Core, Followed
  <2>2. ASSUME pc[r] = "running", NEW i \in DOMAIN Paths[r], using[r][i] \in DOMAIN counters
        PROVE  using[r][i] \in DOMAIN new
    <3>1. counters[using[r][i]] # 0
      BY <1>4, <2>2, HereFields, UsedCounts DEF Core
    <3> QED
      BY <1>1, <1>5, <2>2, <3>1
  <2> QED
    BY <1>7, <2>1, <2>2, HereFields DEF Held
<1>16. Core(t, backend)
  BY <1>4, <1>7, <1>9, <1>11, <1>12, <1>13, <1>14, <1>15, HereFields DEF Core
<1>17. Updating(t, backend)
  BY <1>1, <1>4, <1>5, <1>6, <1>7, HereFields DEF Updating, Waiting
<1>18. Good(t, backend)
  BY <1>3, <1>7, <1>16, <1>17 DEF Good
<1> QED
  BY <1>1, <1>8, <1>18, BecomeGood

\* load_lora_adapter is called for a request that waits for it, or by the
\* administrator.
LEMMA BeginLoadInv ==
    ASSUME Inv, NEW who \in Req \cup {Admin}, NEW n \in Name, Waiting(Here, who, n),
           BeginLoad(who, n)
    PROVE  Inv'
<1>1. op = NoOp /\ backend' = backend
  BY DEF BeginLoad
<1>2. Core(Here, backend) /\ Updating(Here, backend) /\ Len(registry) <= MaxLoaded
  BY InvGives
<1>3. CASE pending[n] # NoId
  <2>1. Become(EndLoad(Here, who, n, "error"))
    BY <1>3 DEF BeginLoad
  <2>2. Len(Here.registry) <= MaxLoaded
    BY <1>2, HereFields
  <2>3. Good(EndLoad(Here, who, n, "error"), backend)
    BY <1>2, <2>2, EndLoadGood
  <2> QED
    BY <1>1, <2>1, <2>3, BecomeGood
<1>4. CASE pending[n] = NoId
  <2> DEFINE new == [stage |-> "load", who |-> who, wants |-> n,
                     result |-> "ok", name |-> n, id |-> FreshId]
             t == [Here EXCEPT !.op = new]
  <2>1. UnusedIds # {} /\ Become(t)
    BY <1>4 DEF BeginLoad
  <2>2. FreshId \in UnusedIds
    BY <2>1 DEF FreshId
  <2>3. Unknown(Here, backend, FreshId)
    BY <2>2, HereFields DEF UnusedIds, Unknown
  <2>4. new \in Op
    BY <2>3 DEF Op, Stage, Unknown
  <2>5. /\ new.stage = "load" /\ new.who = who /\ new.wants = n /\ new.name = n
        /\ new.id = FreshId
    OBVIOUS
  <2> HIDE DEF new
  <2>6. /\ t.registry = registry /\ t.pending = pending /\ t.op = new /\ t.todo = todo
        /\ t.using = using /\ t.counters = counters /\ t.pc = pc
    BY InvGives, HereFields
  <2>7. Typed(t)
    BY <2>4, <2>6, InvGives DEF Typed
  <2> HIDE DEF t
  <2>8. Quiet(Here, t)
    BY <2>6, HereFields DEF Quiet
  <2>9. Core(t, backend)
    BY <1>2, <2>7, <2>8, QuietCore
  <2>10. Unknown(t, backend, FreshId) /\ Waiting(t, who, n)
    BY <2>3, <2>6, HereFields DEF Unknown, Waiting
  <2>11. Updating(t, backend)
    BY <1>4, <2>5, <2>6, <2>10 DEF Updating
  <2>12. Good(t, backend)
    BY <1>2, <2>6, <2>9, <2>11 DEF Good
  <2> QED
    BY <1>1, <2>1, <2>12, BecomeGood
<1> QED
  BY <1>3, <1>4

LEMMA AdminUnloadInv ==
    ASSUME Inv, NEW n \in Managed, AdminUnload(n)
    PROVE  Inv'
<1>1. /\ n \in NamesIn(registry) \/ pending[n] # NoId
      /\ Become(BeginUnload(Here, Admin, NoName, "ok", n))
      /\ backend' = backend
  BY DEF AdminUnload
<1>2. /\ Core(Here, backend) /\ Len(registry) <= MaxLoaded
      /\ n \in Name /\ MaxLoaded \in Nat /\ Len(registry) \in Nat
  BY InvGives, LoRAAssumption
<1>3. /\ Waiting(Here, Admin, NoName) /\ Admin \notin Req
      /\ n \in NamesIn(Here.registry) \/ Here.pending[n] # NoId
      /\ Len(Here.registry) <= IF Here.pending[n] # NoId THEN MaxLoaded ELSE MaxLoaded + 1
  BY <1>1, <1>2, HereFields, LoRAAssumption DEF Waiting
<1>4. Good(BeginUnload(Here, Admin, NoName, "ok", n), backend)
  BY <1>2, <1>3, BeginUnloadGood
<1> QED
  BY <1>1, <1>4, BecomeGood

LEMMA ReloadInv ==
    ASSUME Inv, NEW r \in Req, NEW n \in todo[r], Reload(r, n)
    PROVE  Inv'
<1>1. pc[r] = "reloading" /\ op.who # r
  BY DEF Reload
<1>2. Core(Here, backend) /\ Updating(Here, backend) /\ Len(registry) <= MaxLoaded
  BY InvGives
<1>3. n \in Name
  BY InvGives
<1>4. CASE BeginLoad(r, n)
  <2>1. Waiting(Here, r, n)
    BY <1>1, HereFields DEF Waiting
  <2> QED
    BY <1>3, <1>4, <2>1, BeginLoadInv
<1>5. CASE /\ Become([Here EXCEPT !.todo[r] = {}, !.pc[r] = "failed"])
           /\ UNCHANGED <<ref_cache, backend>>
  <2> DEFINE t == [Here EXCEPT !.todo[r] = {}, !.pc[r] = "failed"]
  <2>1. /\ t.registry = registry /\ t.pending = pending /\ t.op = op
        /\ t.using = using /\ t.counters = counters
        /\ t.pc = [pc EXCEPT ![r] = "failed"] /\ t.todo = [todo EXCEPT ![r] = {}]
    BY InvGives, HereFields
  <2>2. Typed(t)
    <3>1. t.pc \in [Req -> Progress] /\ t.todo \in [Req -> SUBSET Name]
          /\ \A q \in Req : t.todo[q] \subseteq NamesOf(q)
      BY <2>1, InvGives DEF Progress
    <3> QED
      BY <2>1, <3>1, InvGives DEF Typed
  <2>3. Become(t) /\ backend' = backend
    BY <1>5
  <2> HIDE DEF t
  <2>4. /\ \A q \in Req \ {r} : t.pc[q] = pc[q] /\ t.todo[q] = todo[q]
        /\ t.pc[r] = "failed"
    BY <2>1, InvGives
  <2>5. Quiet(Here, t)
    BY <1>1, <2>1, <2>4, HereFields DEF Quiet
  <2>6. Core(t, backend)
    BY <1>2, <2>2, <2>5, QuietCore
  <2>7. Updating(t, backend)
    <3>1. \A i \in DOMAIN Paths[r] : t.using[r][i] \in {Here.using[r][i], NoId}
                                              \cup DOMAIN Here.counters
      BY <2>1, HereFields
    <3>2. Here.op.stage # "none" => Here.op.who # r
      BY <1>1, HereFields
    <3>3. \A q \in Req \ {r} : t.pc[q] = Here.pc[q] /\ t.todo[q] = Here.todo[q]
                                 /\ t.using[q] = Here.using[q]
      BY <2>1, <2>4, HereFields
    <3>4. Reordered(Here.registry, t.registry)
      BY <2>1, InvGives, HereFields DEF Reordered
    <3> QED
      BY <1>2, <2>1, <2>2, <3>1, <3>2, <3>3, <3>4, HereFields, UpdatingStep, ZenonT(60)
  <2>8. Good(t, backend)
    BY <1>2, <2>1, <2>6, <2>7 DEF Good
  <2> QED
    BY <2>3, <2>8, BecomeGood
<1> QED
  BY <1>4, <1>5 DEF Reload

\* The ranks have answered an unload.
LEMMA UnloadReplyInv ==
    ASSUME Inv, NEW bad \in SUBSET Rank, UnloadReply(bad)
    PROVE  Inv'
<1> DEFINE b == [k \in Rank |-> IF k \in bad THEN backend[k]
                               ELSE {e \in backend[k] : e.id # op.id}]
           s == IF bad = {} THEN [Here EXCEPT !.pending[op.name] = NoId] ELSE Here
<1>1. /\ op.stage = "unload" /\ backend' = b
      /\ Become(IF op.wants = NoName THEN [s EXCEPT !.op = NoOp]
                ELSE IF bad = {} THEN EvictOrEnd(s, op.who, op.wants, op.result)
                ELSE EndLoad(s, op.who, op.wants, "error"))
  BY DEF UnloadReply
<1>2. Core(Here, backend) /\ Updating(Here, backend) /\ Len(registry) <= MaxLoaded
  BY InvGives
<1>3. /\ op.name \in Name /\ op.id # NoId /\ pending[op.name] = op.id
      /\ op.id \notin DOMAIN counters
      /\ op.who \in Req => op.result # "error" /\ op.wants \in NamesIn(registry)
      /\ Waiting(Here, op.who, op.wants)
  BY <1>1, <1>2, HereFields DEF Updating
<1>4. /\ op.who \in Req \cup {Admin} /\ op.wants \in Name \cup {NoName}
      /\ op.result \in {"ok", "already", "error"}
  BY InvGives DEF Op
<1>5. /\ s.registry = registry /\ s.counters = counters /\ s.pc = pc /\ s.todo = todo
      /\ s.using = using
      /\ s.pending = IF bad = {} THEN [pending EXCEPT ![op.name] = NoId] ELSE pending
      /\ s.op = op
  BY InvGives, HereFields
<1>6. /\ s.pending \in [Name -> Id \cup {NoId}]
      /\ \A n \in Name : s.pending[n] = IF bad = {} /\ n = op.name THEN NoId ELSE pending[n]
  BY <1>3, <1>5, InvGives
<1>7. Typed(s)
  BY <1>5, <1>6, InvGives DEF Typed
<1> HIDE DEF s
<1>8. \A e \in Entries(registry) : e \in Entry /\ e.id # op.id
  <2>1. Entries(registry) \subseteq Entry
    BY InvGives, EntriesTyped
  <2> QED
    BY <1>2, <1>3, <2>1, HereFields DEF Core, PendingApart
<1>9. /\ b \in [Rank -> SUBSET Entry] /\ \A k \in Rank : b[k] \subseteq backend[k]
      /\ \A k \in Rank : \A e \in backend[k] : e.id # op.id => e \in b[k]
      /\ bad = {} => \A k \in Rank : \A e \in b[k] : e.id # op.id
  BY InvGives
<1> HIDE DEF b
<1>10. Core(s, b)
  <2>1. Registered(s, b)
    BY <1>2, <1>5, <1>6, <1>8, <1>9, HereFields DEF Core, Registered, Entry
  <2>2. PendingApart(s)
    BY <1>2, <1>5, <1>6, HereFields DEF Core, PendingApart
  <2>3. Owned(s, b)
    <3> SUFFICES ASSUME NEW k \in Rank, NEW e \in b[k]
                 PROVE  e \in Entries(registry) \/ s.pending[e.name] = e.id
      BY <1>5 DEF Owned
    <3>1. e \in backend[k] /\ e \in Entry /\ e.name \in Name
      BY <1>9 DEF Entry
    <3>2. e \in Entries(registry) \/ pending[e.name] = e.id
      BY <1>2, <3>1, HereFields DEF Core, Owned
    <3>3. bad = {} => e.id # op.id
      BY <1>9
    <3> QED
      BY <1>3, <1>6, <3>1, <3>2, <3>3
  <2>4. CountedLoaded(s, b)
    BY <1>2, <1>3, <1>5, <1>9, HereFields DEF Core, CountedLoaded
  <2>5. Counted(s)
    <3>1. SameUsers(Here, s)
      BY <1>5, HereFields DEF SameUsers
    <3> QED
      BY <1>2, <1>5, <3>1, HereFields, CountsStay DEF Core
  <2>6. Followed(s)
    BY <1>2, <1>5, HereFields DEF Core, Followed, Held
  <2>7. Distinct(s.registry)
    BY <1>5, InvGives
  <2> QED
    BY <1>7, <1>9, <2>1, <2>2, <2>3, <2>4, <2>5, <2>6, <2>7 DEF Core
<1>11. Waiting(s, op.who, op.wants) /\ Len(s.registry) <= MaxLoaded
  BY <1>2, <1>3, <1>5, HereFields DEF Waiting
<1>12. CASE op.wants = NoName
  <2> DEFINE t == [s EXCEPT !.op = NoOp]
  <2>1. Become(t)
    BY <1>1, <1>12
  <2>2. /\ Typed(t) /\ t.registry = s.registry /\ t.counters = s.counters /\ t.pc = s.pc
        /\ t.using = s.using /\ t.pending = s.pending /\ t.op = NoOp
    BY <1>7, NoOpTyped DEF Typed
  <2> HIDE DEF t
  <2>3. Quiet(s, t)
    BY <2>2 DEF Quiet
  <2>4. Core(t, b)
    BY <1>10, <2>2, <2>3, QuietCore
  <2>5. Good(t, b)
    BY <1>11, <2>2, <2>4, NoOpTyped DEF Good, Updating
  <2> QED
    BY <1>1, <2>1, <2>5, BecomeGood
<1>13. CASE op.wants # NoName /\ bad = {}
  <2>1. Become(EvictOrEnd(s, op.who, op.wants, op.result)) /\ op.wants \in Name
    BY <1>1, <1>4, <1>13
  <2>2. /\ op.who \in Req /\ op.result # "error" => op.wants \in NamesIn(s.registry)
        /\ Len(s.registry) <= MaxLoaded + 1
        /\ ~(Len(s.registry) > MaxLoaded)
    <3>1. MaxLoaded \in Nat /\ Len(s.registry) \in Nat
      BY <1>7, LoRAAssumption DEF Typed
    <3> QED
      BY <1>3, <1>5, <1>11, <3>1
  <2>3. Good(EvictOrEnd(s, op.who, op.wants, op.result), b)
    BY <1>4, <1>10, <1>11, <2>1, <2>2, EvictOrEndGood
  <2> QED
    BY <1>1, <2>1, <2>3, BecomeGood
<1>14. CASE op.wants # NoName /\ bad # {}
  <2>1. Become(EndLoad(s, op.who, op.wants, "error"))
    BY <1>1, <1>14
  <2>2. Good(EndLoad(s, op.who, op.wants, "error"), b)
    BY <1>4, <1>10, <1>11, EndLoadGood
  <2> QED
    BY <1>1, <2>1, <2>2, BecomeGood
<1> QED
  BY <1>12, <1>13, <1>14

\* Every rank did the load: the adapter is registered under its new id.
LEMMA RegisterCore ==
    ASSUME Inv, op.stage = "load", NEW new, new = [name |-> op.name, id |-> op.id],
           op.name \notin NamesIn(registry),
           NEW s, s = [Here EXCEPT !.registry = Append(@, new),
                                   !.counters = [id \in DOMAIN @ \cup {op.id} |->
                                                   IF id = op.id THEN 0 ELSE @[id]]],
           NEW b, b = [k \in Rank |-> backend[k] \cup {new}]
    PROVE  /\ Core(s, b) /\ Len(s.registry) = Len(registry) + 1
           /\ s.registry[Len(s.registry)].name = op.name
           /\ op.name \in NamesIn(s.registry)
           /\ s.pc = pc /\ s.todo = todo
<1>1. Core(Here, backend) /\ Updating(Here, backend)
  BY InvGives
<1>2. op.name \in Name /\ pending[op.name] = NoId /\ Unknown(Here, backend, op.id)
  BY <1>1, HereFields DEF Updating
<1>3. PICK D \in SUBSET Id : counters \in [D -> Nat]
  BY InvGives
<1>4. /\ registry \in Seq(Entry) /\ Distinct(registry) /\ Len(registry) \in Nat
      /\ DOMAIN registry = 1 .. Len(registry) /\ backend \in [Rank -> SUBSET Entry]
  BY InvGives
<1>5. /\ op.id \in Id /\ op.id # NoId /\ op.id \notin DOMAIN counters
      /\ new \in Entry /\ new.name = op.name /\ new.id = op.id
  BY <1>2, HereFields, LoRAAssumption DEF Unknown, Entry
<1> DEFINE reg == Append(registry, new)
           cnt == [id \in DOMAIN counters \cup {op.id} |->
                     IF id = op.id THEN 0 ELSE counters[id]]
<1>6. /\ s.registry = reg /\ s.counters = cnt /\ s.pending = pending /\ s.op = op
      /\ s.pc = pc /\ s.todo = todo /\ s.using = using
  BY InvGives, HereFields
<1>7. /\ reg \in Seq(Entry) /\ Len(reg) = Len(registry) + 1
      /\ DOMAIN reg = 1 .. Len(registry) + 1 /\ reg[Len(registry) + 1] = new
      /\ \A i \in 1 .. Len(registry) : reg[i] = registry[i]
  BY <1>4, <1>5
<1> HIDE DEF reg
<1>8. Entries(reg) = Entries(registry) \cup {new}
  BY <1>4, <1>7 DEF Entries
<1>9. \A e \in Entries(registry) : /\ e \in Entry /\ e.name # op.name /\ e.id # op.id
                                   /\ e.id \in DOMAIN counters
  <2>1. Entries(registry) \subseteq Entry /\ NamesIn(registry) = {e.name : e \in Entries(registry)}
    BY <1>4, EntriesTyped
  <2>2. \A e \in Entries(registry) : e.id \in DOMAIN counters
    BY <1>1, HereFields DEF Core, Registered
  <2> QED
    BY <1>5, <2>1, <2>2
<1>10. Distinct(reg)
  <2>1. \A i \in 1 .. Len(registry) : registry[i] \in Entries(registry)
    BY <1>4 DEF Entries
  <2>2. \A i \in 1 .. Len(registry) : reg[i].name # op.name /\ reg[i].id # op.id
    BY <1>7, <1>9, <2>1
  <2> QED
    BY <1>4, <1>7, <2>2 DEF Distinct
<1>11. /\ cnt \in [D \cup {op.id} -> Nat] /\ D \cup {op.id} \in SUBSET Id
       /\ DOMAIN cnt = DOMAIN counters \cup {op.id} /\ cnt[op.id] = 0
       /\ \A id \in DOMAIN counters : cnt[id] = counters[id]
  BY <1>3, <1>5
<1> HIDE DEF cnt
<1>12. Typed(s)
  <2>1. cnt \in UNION {[E -> Nat] : E \in SUBSET Id}
    BY <1>11
  <2> QED
    BY <1>6, <1>7, <2>1, InvGives, HereFields, ZenonT(60) DEF Typed, reg, cnt
<1>13. b \in [Rank -> SUBSET Entry] /\ \A k \in Rank : b[k] = backend[k] \cup {new}
  BY <1>4, <1>5
<1>14. Registered(s, b)
  <2>1. ASSUME NEW e \in Entries(registry)
        PROVE  pending[e.name] = NoId /\ e.id \in DOMAIN cnt /\ \A k \in Rank : e \in b[k]
    BY <1>1, <1>11, <1>13, HereFields DEF Core, Registered
  <2>2. pending[new.name] = NoId /\ new.id \in DOMAIN cnt /\ \A k \in Rank : new \in b[k]
    BY <1>2, <1>11, <1>13
  <2> QED
    BY <1>6, <1>8, <2>1, <2>2 DEF Registered
<1>15. PendingApart(s)
  <2>1. \A n \in Name : pending[n] # op.id
    BY <1>2, HereFields DEF Unknown
  <2> SUFFICES ASSUME NEW n \in Name, pending[n] # NoId
               PROVE  /\ \A e \in Entries(reg) : e.id # pending[n]
                      /\ \A m \in Name : pending[m] = pending[n] => m = n
    BY <1>6, ZenonT(60) DEF PendingApart
  <2>2. /\ \A e \in Entries(registry) : e.id # pending[n]
        /\ \A m \in Name : pending[m] = pending[n] => m = n
    BY <1>1, HereFields DEF Core, PendingApart
  <2> QED
    BY <1>5, <1>8, <2>1, <2>2
<1>16. Owned(s, b)
  BY <1>1, <1>6, <1>8, <1>13, HereFields, ZenonT(60) DEF Core, Owned
<1>17. CountedLoaded(s, b)
  <2> SUFFICES ASSUME NEW id \in DOMAIN cnt, NEW k \in Rank
               PROVE  \E e \in b[k] : e.id = id
    BY <1>6 DEF CountedLoaded
  <2>1. CASE id = op.id
    BY <1>13, <2>1
  <2>2. CASE id \in DOMAIN counters
    BY <1>1, <1>13, <2>2, HereFields DEF Core, CountedLoaded
  <2> QED
    BY <1>11, <2>1, <2>2
<1>18. Counted(s)
  <2>1. SameUsers(Here, s)
    BY <1>6, HereFields DEF SameUsers
  <2>2. \A id : Users(s, id) = Users(Here, id)
    BY <2>1, UsersStay
  <2>3. Users(Here, op.id) = {}
    <3>1. \A r \in Req : \A i \in DOMAIN Paths[r] : Here.using[r][i] # op.id
      BY <1>2 DEF Unknown
    <3> QED
      BY <3>1, UsersAre
  <2>4. \A id \in DOMAIN counters : cnt[id] = Cardinality(Users(Here, id))
    BY <1>1, <1>11, HereFields DEF Core, Counted
  <2>5. cnt[op.id] = Cardinality(Users(Here, op.id))
    BY <1>11, <2>3, FS_EmptySet
  <2>6. \A id \in DOMAIN cnt : cnt[id] = Cardinality(Users(Here, id))
    BY <1>11, <2>4, <2>5
  <2> QED
    BY <1>6, <2>2, <2>6 DEF Counted
<1>19. Followed(s)
  <2> SUFFICES ASSUME NEW r \in Req
               PROVE  /\ pc[r] = "gather" => r \in ListForm
                      /\ pc[r] = "missing" => r \in ListForm
                      /\ Held(s, r)
    BY <1>6 DEF Followed
  <2>1. /\ pc[r] = "gather" => r \in ListForm
        /\ pc[r] = "missing" => r \in ListForm
        /\ Held(Here, r)
    BY <1>1, HereFields DEF Core, Followed
  <2>2. Entries(registry) \subseteq Entries(s.registry) /\ DOMAIN counters \subseteq DOMAIN s.counters
    BY <1>6, <1>8, <1>11
  <2>3. s.pc = Here.pc /\ s.using = Here.using
    BY <1>6, HereFields
  <2> QED
    BY <2>1, <2>2, <2>3, HereFields DEF Held
<1>20. Core(s, b)
  BY <1>6, <1>10, <1>12, <1>13, <1>14, <1>15, <1>16, <1>17, <1>18, <1>19 DEF Core
<1>21. op.name \in NamesIn(reg)
  BY <1>4, <1>7 DEF NamesIn
<1>22. Len(s.registry) = Len(registry) + 1 /\ s.registry[Len(s.registry)].name = op.name
  BY <1>5, <1>6, <1>7
<1> QED
  BY <1>6, <1>20, <1>21, <1>22

\* Some ranks did the load and some did not: its id waits to be unloaded.
LEMMA LeftOverCore ==
    ASSUME Inv, op.stage = "load", NEW new, new = [name |-> op.name, id |-> op.id],
           op.name \notin NamesIn(registry),
           NEW s, s = [Here EXCEPT !.pending[op.name] = op.id],
           NEW good \in SUBSET Rank,
           NEW b, b = [k \in Rank |-> IF k \in good THEN backend[k] \cup {new}
                                                   ELSE backend[k]]
    PROVE  Core(s, b) /\ s.registry = registry /\ s.pc = pc /\ s.todo = todo
<1>1. Core(Here, backend) /\ Updating(Here, backend)
  BY InvGives
<1>2. op.name \in Name /\ pending[op.name] = NoId /\ Unknown(Here, backend, op.id)
  BY <1>1, HereFields DEF Updating
<1>3. op.id \in Id /\ op.id # NoId /\ op.id \notin DOMAIN counters /\ new \in Entry
      /\ \A n \in Name : pending[n] # op.id
  BY <1>2, HereFields, LoRAAssumption DEF Unknown, Entry
<1>4. /\ s.registry = registry /\ s.counters = counters /\ s.op = op
      /\ s.pending = [pending EXCEPT ![op.name] = op.id]
      /\ s.pc = pc /\ s.todo = todo /\ s.using = using
  BY InvGives, HereFields
<1>5. /\ s.pending \in [Name -> Id \cup {NoId}] /\ s.pending[op.name] = op.id
      /\ \A n \in Name \ {op.name} : s.pending[n] = pending[n]
  BY <1>2, <1>3, <1>4, InvGives
<1>6. Typed(s)
  BY <1>4, <1>5, InvGives, HereFields, ZenonT(60) DEF Typed
<1>7. \A e \in Entries(registry) : /\ e \in Entry /\ e.name # op.name /\ e.id # op.id
  <2>1. Entries(registry) \subseteq Entry /\ NamesIn(registry) = {e.name : e \in Entries(registry)}
    BY InvGives, EntriesTyped
  <2>2. \A e \in Entries(registry) : e.id \in DOMAIN counters
    BY <1>1, HereFields DEF Core, Registered
  <2> QED
    BY <1>3, <2>1, <2>2
<1>8. /\ b \in [Rank -> SUBSET Entry]
      /\ \A k \in Rank : backend[k] \subseteq b[k] /\ b[k] \subseteq backend[k] \cup {new}
  BY <1>3, InvGives
<1>9. Registered(s, b)
  BY <1>1, <1>4, <1>5, <1>7, <1>8, HereFields DEF Core, Registered, Entry
<1>10. PendingApart(s)
  BY <1>1, <1>3, <1>4, <1>5, <1>7, HereFields DEF Core, PendingApart
<1>11. Owned(s, b)
  <2> SUFFICES ASSUME NEW k \in Rank, NEW e \in b[k]
               PROVE  e \in Entries(registry) \/ s.pending[e.name] = e.id
    BY <1>4 DEF Owned
  <2>1. CASE e = new
    BY <1>5, <2>1
  <2>2. CASE e \in backend[k]
    <3>1. e \in Entry /\ e.name \in Name /\ e.id # NoId
      BY <2>2, InvGives, LoRAAssumption DEF Entry
    <3>2. e \in Entries(registry) \/ pending[e.name] = e.id
      BY <1>1, <2>2, HereFields DEF Core, Owned
    <3> QED
      BY <1>2, <1>5, <3>1, <3>2
  <2> QED
    BY <1>8, <2>1, <2>2
<1>12. CountedLoaded(s, b)
  BY <1>1, <1>4, <1>8, HereFields DEF Core, CountedLoaded
<1>13. Counted(s)
  <2>1. SameUsers(Here, s)
    BY <1>4, HereFields DEF SameUsers
  <2>2. Counted(Here) /\ s.counters = Here.counters
    BY <1>1, <1>4, HereFields DEF Core
  <2> QED
    BY <2>1, <2>2, CountsStay
<1>14. Followed(s)
  BY <1>1, <1>4, HereFields DEF Core, Followed, Held
<1>15. Distinct(s.registry)
  BY <1>4, InvGives
<1> QED
  BY <1>4, <1>6, <1>8, <1>9, <1>10, <1>11, <1>12, <1>13, <1>14, <1>15 DEF Core

\* The ranks have answered a load.
LEMMA LoadReplyInv ==
    ASSUME Inv, NEW bad \in SUBSET Rank, LoadReply(bad)
    PROVE  Inv'
<1> DEFINE new == [name |-> op.name, id |-> op.id]
           has == {k \in Rank : op.name \in {e.name : e \in backend[k]}}
           good == Rank \ (has \cup bad)
           b == [k \in Rank |-> IF k \in good THEN backend[k] \cup {new} ELSE backend[k]]
           full == [Here EXCEPT !.registry = Append(@, new),
                                !.counters = [id \in DOMAIN @ \cup {op.id} |->
                                                IF id = op.id THEN 0 ELSE @[id]]]
           left == IF op.name \notin NamesIn(registry) /\ good \cup has # {}
                     THEN [Here EXCEPT !.pending[op.name] = op.id] ELSE Here
           result == IF has # {} THEN "already" ELSE "error"
<1>1. /\ op.stage = "load" /\ backend' = b
      /\ Become(IF good = Rank THEN EvictOrEnd(full, op.who, op.name, "ok")
                ELSE EvictOrEnd(left, op.who, op.name, result))
  BY DEF LoadReply
<1>2. Core(Here, backend) /\ Updating(Here, backend) /\ Len(registry) <= MaxLoaded
  BY InvGives
<1>3. /\ op.name \in Name /\ pending[op.name] = NoId /\ op.wants = op.name
      /\ Waiting(Here, op.who, op.name) /\ op.who \in Req \cup {Admin}
  BY <1>1, <1>2, HereFields, InvGives DEF Updating, Op
<1>4. MaxLoaded \in Nat /\ Len(registry) \in Nat
  BY InvGives, LoRAAssumption
<1>5. op.name \in NamesIn(registry) => has = Rank
  <2> SUFFICES ASSUME op.name \in NamesIn(registry), NEW k \in Rank
               PROVE  k \in has
    OBVIOUS
  <2>0. NamesIn(registry) = {e.name : e \in Entries(registry)}
    BY InvGives, EntriesTyped
  <2>1. PICK e \in Entries(registry) : e.name = op.name
    BY <2>0
  <2>2. e \in backend[k]
    BY <1>2, HereFields DEF Core, Registered
  <2> QED
    BY <2>1, <2>2
<1>6. op.name \notin NamesIn(registry) => has = {}
  <2> SUFFICES ASSUME op.name \notin NamesIn(registry), NEW k \in has
               PROVE  FALSE
    OBVIOUS
  <2>1. PICK e \in backend[k] : e.name = op.name
    OBVIOUS
  <2>2. e \in Entry /\ e.id # NoId
    BY InvGives, LoRAAssumption DEF Entry
  <2>3. e \in Entries(registry)
    BY <1>2, <1>3, <2>1, <2>2, HereFields DEF Core, Owned
  <2> QED
    BY <2>1, <2>3, InvGives, EntriesTyped
<1> HIDE DEF has
<1>7. CASE good = Rank
  <2>1. op.name \notin NamesIn(registry)
    BY <1>5, <1>7, LoRAAssumption
  <2>2. b = [k \in Rank |-> backend[k] \cup {new}]
    BY <1>7
  <2> HIDE DEF b, good
  <2>3. /\ Core(full, b) /\ Len(full.registry) = Len(registry) + 1
        /\ full.registry[Len(full.registry)].name = op.name
        /\ op.name \in NamesIn(full.registry)
        /\ full.pc = pc /\ full.todo = todo
    BY <1>1, <2>1, <2>2, RegisterCore
  <2> HIDE DEF full, new
  <2>4. Waiting(full, op.who, op.name)
    BY <1>3, <2>3, HereFields DEF Waiting
  <2>5. Len(full.registry) <= MaxLoaded + 1
    BY <1>2, <1>4, <2>3
  <2>6. Good(EvictOrEnd(full, op.who, op.name, "ok"), b)
    BY <1>3, <2>3, <2>4, <2>5, EvictOrEndGood
  <2>7. Become(EvictOrEnd(full, op.who, op.name, "ok"))
    BY <1>1, <1>7
  <2> QED
    BY <1>1, <2>6, <2>7, BecomeGood
<1>8. CASE good # Rank
  <2>1. Core(left, b) /\ left.registry = registry /\ left.pc = pc /\ left.todo = todo
    <3>1. CASE op.name \notin NamesIn(registry) /\ good \cup has # {}
      <4>1. left = [Here EXCEPT !.pending[op.name] = op.id] /\ good \in SUBSET Rank
        BY <3>1
      <4> HIDE DEF left, good
      <4> QED
        BY <1>1, <3>1, <4>1, LeftOverCore
    <3>2. CASE ~(op.name \notin NamesIn(registry) /\ good \cup has # {})
      <4>1. left = Here
        BY <3>2
      <4>2. good = {}
        BY <1>5, <3>2
      <4>3. b = backend
        BY <4>2, InvGives
      <4> HIDE DEF left, b
      <4> QED
        BY <1>2, <4>1, <4>3, HereFields
    <3> QED
      BY <3>1, <3>2
  <2>2. result \in {"ok", "already", "error"}
        /\ (result # "error" => op.name \in NamesIn(registry))
    BY <1>6
  <2>3. Become(EvictOrEnd(left, op.who, op.name, result))
    BY <1>1, <1>8
  <2> HIDE DEF left, b, good, result
  <2>4. /\ Waiting(left, op.who, op.name)
        /\ op.who \in Req /\ result # "error" => op.name \in NamesIn(left.registry)
        /\ Len(left.registry) <= MaxLoaded + 1
        /\ ~(Len(left.registry) > MaxLoaded)
    BY <1>2, <1>3, <1>4, <2>1, <2>2, HereFields DEF Waiting
  <2>5. Good(EvictOrEnd(left, op.who, op.name, result), b)
    BY <1>3, <2>1, <2>2, <2>4, EvictOrEndGood
  <2> QED
    BY <1>1, <2>3, <2>5, BecomeGood
<1> QED
  BY <1>7, <1>8

-----------------------------------------------------------------------------

LEMMA StutterInv ==
    ASSUME Inv, UNCHANGED vars
    PROVE  Inv'
<1>1. Here' = Here /\ backend' = backend
  BY DEF vars, Here
<1> QED
  BY <1>1 DEF Inv

LEMMA NextInv ==
    ASSUME Inv, [Next]_vars
    PROVE  Inv'
<1>1. CASE Start
  BY <1>1, ResolveInv DEF Start
<1>2. CASE Count
  BY <1>2, IncrementInv DEF Count
<1>3. CASE Complete
  BY <1>3, ReleaseInv DEF Complete
<1>4. CASE ReloadStep
  BY <1>4, ReloadInv DEF ReloadStep
<1>5. CASE AdminStep
  <2>1. PICK n \in Managed : BeginLoad(Admin, n) \/ AdminUnload(n)
    BY <1>5 DEF AdminStep
  <2>2. n \in Name /\ Waiting(Here, Admin, n)
    BY LoRAAssumption DEF Waiting
  <2> QED
    BY <2>1, <2>2, BeginLoadInv, AdminUnloadInv
<1>6. CASE Drain
  BY <1>6, DrainInv
<1>7. CASE RankReply
  BY <1>7, LoadReplyInv, UnloadReplyInv DEF RankReply
<1>8. CASE UNCHANGED vars
  BY <1>8, StutterInv
<1> QED
  BY <1>1, <1>2, <1>3, <1>4, <1>5, <1>6, <1>7, <1>8 DEF Next

\* The inductive invariant holds in every reachable state.
THEOREM Invariance == Spec => []Inv
<1>1. Init => Inv
  BY InitInv
<1>2. Inv /\ [Next]_vars => Inv'
  BY NextInv
<1> QED
  BY <1>1, <1>2, PTL DEF Spec

\* RegisteredIsLoaded: the registry does not drift from the ranks, whichever
\* ranks fail whichever loads and unloads.
THEOREM RegistryMatchesRanks == Spec => []RegisteredIsLoaded
<1>1. Inv => RegisteredIsLoaded
  <2> SUFFICES ASSUME Inv, NEW i \in DOMAIN registry
               PROVE  /\ \A k \in Rank : registry[i] \in backend[k]
                      /\ registry[i].id \in DOMAIN counters
                      /\ \A j \in DOMAIN registry :
                            registry[i].name = registry[j].name => i = j
    BY DEF RegisteredIsLoaded
  <2>1. registry[i] \in Entries(registry)
    BY DEF Entries
  <2> QED
    BY <2>1, InvGives, HereFields DEF Core, Registered, Distinct
<1> QED
  BY <1>1, Invariance, PTL

\* NothingOrphaned: what a rank has loaded is registered or can be unloaded
\* again.
THEOREM RanksAreAccountedFor == Spec => []NothingOrphaned
<1>1. Inv => NothingOrphaned
  BY InvGives, HereFields DEF Core, Owned, Entries, NothingOrphaned
<1> QED
  BY <1>1, Invariance, PTL

\* SingleNeverMissing: between the reload of an adapter and acquire, no other
\* load, eviction or unload takes it away.
THEOREM SingleIsFound == Spec => []SingleNeverMissing
<1>1. Inv => SingleNeverMissing
  BY InvGives, HereFields DEF Core, Followed, SingleNeverMissing
<1> QED
  BY <1>1, Invariance, PTL

\* UsedStaysLoaded: no rank unloads an adapter that a sub-request uses, if the
\* adapters of requests with a list are pinned and left alone by the
\* administrator.  (Without that the list form of acquire breaks it.)
THEOREM UsedAdaptersStay ==
    ASSUME \A r \in Req : Steady(r)
    PROVE  Spec => []UsedStaysLoaded
<1>1. Inv => UsedStaysLoaded
  <2> SUFFICES ASSUME Inv, NEW r \in Req, NEW i \in DOMAIN Paths[r],
                      pc[r] = "running", using[r][i] # NoId
               PROVE  /\ \A k \in Rank : \E e \in backend[k] : e.id = using[r][i]
                      /\ ~(op.stage = "unload" /\ op.id = using[r][i])
    BY DEF UsedStaysLoaded
  <2>1. using[r][i] \in DOMAIN counters
    BY InvGives, HereFields DEF Core, Followed, Held
  <2> QED
    BY <2>1, InvGives, HereFields DEF Core, CountedLoaded, Updating
<1> QED
  BY <1>1, Invariance, PTL

\* CountersExact, under the same condition.
THEOREM CountersCountUsers ==
    ASSUME \A r \in Req : Steady(r)
    PROVE  Spec => []CountersExact
<1>1. Inv => CountersExact
  <2> SUFFICES ASSUME Inv
               PROVE  CountersExact
    OBVIOUS
  <2>1. \A id : Users(Here, id) =
                  {t \in SubRequests : pc[t[1]] = "running" /\ using[t[1]][t[2]] = id}
    BY HereFields DEF Users
  <2>2. \A id \in DOMAIN counters : counters[id] = Cardinality(Users(Here, id))
    BY InvGives, HereFields DEF Core, Counted
  <2>3. ASSUME NEW id \in Id \ DOMAIN counters
        PROVE  Users(Here, id) = {}
    <3> SUFFICES ASSUME NEW u \in Users(Here, id)
                 PROVE  FALSE
      OBVIOUS
    <3>0. PICK r \in Req : \E i \in DOMAIN Paths[r] : u = <<r, i>>
      BY UsersAre
    <3>1. PICK i \in DOMAIN Paths[r] : u = <<r, i>>
      BY <3>0
    <3>2. pc[r] = "running" /\ using[r][i] = id
      BY <3>1, UsersAre, HereFields
    <3>3. id # NoId
      BY LoRAAssumption
    <3>4. id \in DOMAIN counters
      BY <3>2, <3>3, InvGives, HereFields DEF Core, Followed, Held
    <3> QED
      BY <3>4
  <2> QED
    BY <2>1, <2>2, <2>3 DEF CountersExact
<1> QED
  BY <1>1, Invariance, PTL
=============================================================================
