------------------------- MODULE KVHeadroomProofs -------------------------
(***************************************************************************)
(* Why the scheduler's allocations never fail, and why a request alone in  *)
(* the decode batch is never aborted for memory, for every pool, page      *)
(* size, set of prompts, limit and both modes of the loop.                 *)
(*                                                                         *)
(* The pages in use are those of the rows of the requests and of the       *)
(* prefixes they have locked: all others are reclaimable, on the free list *)
(* or behind an eviction.  An eviction either frees what it was asked for  *)
(* or everything reclaimable; no operation but an admission and an         *)
(* allocation takes from the reclaimable pages.  Headroom says that the    *)
(* admission pass has set aside the pages of the whole extend batch, those *)
(* of the rest of a prompt that is prefilled in chunks, and one page more, *)
(* until the batch after next.  The one page more is what the last running *)
(* request decodes into.                                                   *)
(***************************************************************************)
EXTENDS KVMemoryProofs

-----------------------------------------------------------------------------
(* What an eviction leaves *)

\* A node below which a lock lies is locked.
LEMMA LockedUpwards ==
  ASSUME NEW t, NEW S, NEW lock, Sound(t, S, lock), IsFiniteSet(S),
         NEW n \in Nodes(t), NEW c \in Nodes(t), IsPrefixOf(n, c), t.lock_ref[n] = 0
  PROVE  t.lock_ref[c] = 0
<1> DEFINE N == {r \in S : IsPrefixOf(n, lock[r])}
           C == {r \in S : IsPrefixOf(c, lock[r])}
<1>1. WellFormed(t) /\ \A r \in S : lock[r] \in Key
  BY WellFormedKeys, PrefixLen DEF Sound, Anchored
<1>2. n \in Key /\ c \in Key
  BY <1>1, WellFormedKeys
<1>3. C \subseteq N
  BY <1>1, <1>2, PrefixOrder
<1>4. t.lock_ref[n] = Cardinality(N) /\ t.lock_ref[c] = Cardinality(C)
  BY DEF Sound, Counted
<1>5. N \in SUBSET S
  OBVIOUS
<1> HIDE DEF N, C
<1>6. IsFiniteSet(N)
  BY <1>5, FS_Subset
<1>7. N = {}
  BY <1>4, <1>6, FS_EmptySet
<1>8. C = {}
  BY <1>3, <1>7
<1> QED BY <1>4, <1>8, FS_EmptySet

\* An eviction that frees less than it was asked for leaves locked nodes only:
\* the heap refills with every parent whose children have gone.
LEMMA ShortEviction ==
  ASSUME NEW t, NEW S, NEW lock, Sound(t, S, lock), IsFiniteSet(S),
         NEW num \in Int, NEW E \in EvictableSets(t, num), NumTokens(t, E) < num,
         NEW n \in Nodes(t) \ E
  PROVE  t.lock_ref[n] # 0
<1> SUFFICES ASSUME t.lock_ref[n] = 0 PROVE FALSE
  OBVIOUS
<1> DEFINE U == {m \in Nodes(t) \ E : t.lock_ref[m] = 0}
           T == {Cardinality(Descendants(t, m)) : m \in U}
<1>1. WellFormed(t) /\ IsFiniteSet(Nodes(t)) /\ Nodes(t) \subseteq Key
  <2>1. IsFiniteSet(Cached(t)) /\ Nodes(t) \in SUBSET Cached(t) /\ WellFormed(t)
    BY DEF Sound, WellFormed, Shape
  <2> QED BY <2>1, FS_Subset, WellFormedKeys
<1>2. \A m : IsFiniteSet(Descendants(t, m)) /\ Cardinality(Descendants(t, m)) \in Nat
  <2>1. \A m : Descendants(t, m) \in SUBSET Nodes(t)
    BY DEF Descendants
  <2>2. \A m : IsFiniteSet(Descendants(t, m))
    BY <2>1, <1>1, FS_Subset
  <2> QED BY <2>2, FS_CardinalityType
<1>3. num > 0 /\ \A m \in Nodes(t) \ E : ~InHeap(t, m, E)
  <2>1. NumTokens(t, E) \in Nat
    BY <1>1, SegmentsFinite
  <2>2. num > 0
    BY <2>1
  <2> QED BY <2>1, <2>2 DEF EvictableSets
<1>4. T \in SUBSET Nat /\ T # {}
  BY <1>2
<1>5. PICK x \in T : \A y \in T : x <= y
  BY <1>4, LeastNatural
<1>6. PICK m \in U : x = Cardinality(Descendants(t, m))
  BY <1>5
<1>7. m \in Nodes(t) \ E /\ t.lock_ref[m] = 0
  BY <1>6
<1>8. ASSUME NEW c \in Descendants(t, m), c \notin E PROVE FALSE
  <2>1. c \in Nodes(t) /\ IsPrefixOf(m, c) /\ m # c
    BY DEF Descendants, IsProperPrefixOf
  <2>2. t.lock_ref[c] = 0
    BY <2>1, <1>7, LockedUpwards
  <2>3. c \in U
    BY <2>1, <2>2, <1>8
  <2>4. Cardinality(Descendants(t, m)) <= Cardinality(Descendants(t, c))
    BY <2>3, <1>5, <1>6
  <2>5. \A d \in Descendants(t, c) : d \in Descendants(t, m)
    BY <2>1, <1>1, PrefixOrder DEF Descendants, IsProperPrefixOf
  <2>6. Descendants(t, c) \in SUBSET Descendants(t, m)
    BY <2>5
  <2>7. Cardinality(Descendants(t, c)) <= Cardinality(Descendants(t, m))
    BY <2>6, <1>2, FS_Subset
  <2>8. Cardinality(Descendants(t, c)) = Cardinality(Descendants(t, m))
    BY <2>4, <2>7, <1>2
  <2>9. Descendants(t, c) = Descendants(t, m)
    BY <2>6, <2>8, <1>2, FS_Subset
  <2>10. c \notin Descendants(t, c)
    BY DEF Descendants, IsProperPrefixOf
  <2> QED BY <2>9, <2>10
<1>9. Descendants(t, m) \subseteq E
  BY <1>8
<1>10. IsLeaf(t, m) => m \in t.evictable_leaves
  BY <1>7 DEF Sound, Accounts
<1>11. InHeap(t, m, E)
  BY <1>7, <1>9, <1>10 DEF InHeap
<1> QED BY <1>3, <1>7, <1>11

-----------------------------------------------------------------------------
(* The pages in use, and the reclaimable ones *)

\* The pages of a request: its row, or the prefix it was admitted with.
PrefixPages(t, k) == {t.value[Prefix(k, i * PageSize)] : i \in 1 .. Len(k) \div PageSize}

RowPages(q) == {q.row[i] : i \in 1 .. Len(q.row)}

BusyOf(t, q) == IF q.phase = "running" THEN RowPages(q) ELSE PrefixPages(t, q.lock)

Busy(t, rq) == UNION {BusyOf(t, rq[r]) : r \in LockedIn(rq)}

Reclaimable(t, rq) == Page \ Busy(t, rq)

\* The pages cached on the way to k.
PagesTo(t, k) == {t.value[l] : l \in {x \in Cached(t) : IsPrefixOf(x, k)}}

\* A page is in use when it is private to a request or on a locked path.
InUse(t, rq, p) ==
  \/ \E r \in HoldersIn(rq) : p \in Own(rq[r])
  \/ \E r \in LockedIn(rq) : p \in PagesTo(t, rq[r].lock)

\* The pages of a locked path, by their number and by their key.
LEMMA PathPages ==
  ASSUME NEW t, NEW S, NEW lock, Sound(t, S, lock), NEW r \in S
  PROVE  PrefixPages(t, lock[r]) = PagesTo(t, lock[r])
<1>1. WellFormed(t) /\ lock[r] \in Key
  BY WellFormedKeys, PrefixLen DEF Sound, Anchored
<1>2. ASSUME NEW k \in Cached(t), IsPrefixOf(k, lock[r])
      PROVE  \E i \in 1 .. Len(lock[r]) \div PageSize : k = Prefix(lock[r], i * PageSize)
  <2>1. k \in Key /\ k # Root /\ Whole(Len(k)) /\ Len(k) \in Nat /\ Len(lock[r]) \in Nat
    BY <1>1, PrefixLen DEF WellFormed, Shape
  <2>2. Len(k) \in 0 .. Len(lock[r]) /\ k = Prefix(lock[r], Len(k)) /\ Len(k) # 0
    BY <2>1, <1>1, <1>2, PrefixIsCut, PrefixLen
  <2> DEFINE i == Len(k) \div PageSize
  <2>3. i \in Nat /\ Len(k) = i * PageSize
    BY <2>1, WholeMultiple, DivFacts
  <2>4. i <= Len(lock[r]) \div PageSize
    BY <2>1, <2>2, DivMono
  <2>5. Len(lock[r]) \div PageSize \in Nat
    BY <2>1, DivFacts
  <2> HIDE DEF i
  <2>6. i # 0
    <3> SUFFICES ASSUME i = 0 PROVE FALSE
      OBVIOUS
    <3> QED BY <2>2, <2>3, PageSizeAssumption
  <2>7. i \in 1 .. Len(lock[r]) \div PageSize
    BY <2>3, <2>4, <2>5, <2>6
  <2> QED BY <2>2, <2>3, <2>7
<1>3. \A i \in 1 .. Len(lock[r]) \div PageSize :
        /\ Prefix(lock[r], i * PageSize) \in Cached(t)
        /\ IsPrefixOf(Prefix(lock[r], i * PageSize), lock[r])
  BY LockedPath
<1> QED BY <1>2, <1>3 DEF PrefixPages, PagesTo

\* Busy is what is in use.
LEMMA BusyIs ==
  ASSUME NEW t, NEW f, NEW c, NEW rq, Pools(t, f, c, rq)
  PROVE  /\ \A p : p \in Busy(t, rq) <=> InUse(t, rq, p)
         /\ Busy(t, rq) \subseteq Page
<1>1. Sound(t, LockedIn(rq), LockOf(rq)) /\ RowsOK(t, c, rq)
  BY DEF Pools
<1>2. HoldersIn(rq) \subseteq LockedIn(rq) /\ LockedIn(rq) \subseteq Req
  BY LockedFinite
<1>3. \A r \in LockedIn(rq) : LockOf(rq)[r] = rq[r].lock
  BY <1>2 DEF LockOf
<1>4. ASSUME NEW r \in LockedIn(rq)
      PROVE  PrefixPages(t, rq[r].lock) = PagesTo(t, rq[r].lock)
  <2>1. PrefixPages(t, LockOf(rq)[r]) = PagesTo(t, LockOf(rq)[r])
    BY <1>1, PathPages
  <2> QED BY <2>1, <1>3
<1>5. ASSUME NEW r \in HoldersIn(rq)
      PROVE  BusyOf(t, rq[r]) = Own(rq[r]) \cup PagesTo(t, rq[r].lock)
  <2> DEFINE q == rq[r]
             d == q.protected \div PageSize
  <2>1. RowShape(q) /\ Resident(t, q)
    BY <1>1 DEF RowsOK, RowOK
  <2>2. d \in Nat /\ Len(q.row) \in Nat /\ d <= Len(q.row) /\ Len(q.lock) \div PageSize = d
    <3>1. q.protected \in Nat /\ q.committed \in Nat /\ q.protected <= q.committed
          /\ Len(q.row) = CeilPages(q.committed) /\ Len(q.lock) = q.protected
      BY <2>1 DEF RowShape
    <3>2. q.protected \div PageSize <= q.committed \div PageSize
      BY <3>1, DivMono
    <3>3. q.committed \div PageSize <= CeilPages(q.committed) /\ q.committed \div PageSize \in Nat
          /\ q.protected \div PageSize \in Nat /\ CeilPages(q.committed) \in Nat
      BY <3>1, CeilFacts
    <3> QED BY <3>1, <3>2, <3>3
  <2>3. q.phase = "running"
    BY DEF HoldersIn
  <2>4. BusyOf(t, q) = RowPages(q)
    BY <2>3 DEF BusyOf
  <2>5. Own(q) = {q.row[i] : i \in d + 1 .. Len(q.row)}
    BY DEF Own, PrivatePages
  <2>6. PrefixPages(t, q.lock) = {q.row[i] : i \in 1 .. d}
    <3>1. \A i \in 1 .. d : q.row[i] = t.value[Prefix(q.lock, i * PageSize)]
      BY <2>1 DEF Resident
    <3> QED BY <3>1, <2>2 DEF PrefixPages
  <2>8. PrefixPages(t, q.lock) = PagesTo(t, q.lock)
    BY <1>2, <1>4
  <2> HIDE DEF d, q
  <2>7. RowPages(q) = {q.row[i] : i \in 1 .. d} \cup {q.row[i] : i \in d + 1 .. Len(q.row)}
    BY <2>2 DEF RowPages
  <2>9. BusyOf(t, q) = Own(q) \cup PagesTo(t, q.lock)
    BY <2>4, <2>5, <2>6, <2>7, <2>8
  <2> QED BY <2>9 DEF q
<1>6. ASSUME NEW r \in LockedIn(rq) \ HoldersIn(rq)
      PROVE  BusyOf(t, rq[r]) = PagesTo(t, rq[r].lock)
  <2>1. rq[r].phase # "running"
    BY <1>2 DEF HoldersIn
  <2> QED BY <2>1, <1>4 DEF BusyOf
<1>7. \A p : p \in Busy(t, rq) <=> \E r \in LockedIn(rq) : p \in BusyOf(t, rq[r])
  BY DEF Busy
<1>8. \A p : p \in Busy(t, rq) <=> InUse(t, rq, p)
  BY <1>2, <1>5, <1>6, <1>7, ZenonT(60) DEF InUse
<1>9. \A r \in HoldersIn(rq) : Own(rq[r]) \subseteq Page
  BY <1>1, OwnFacts DEF RowsOK, RowOK
<1>10. \A k \in Cached(t) : t.value[k] \in Page
  BY <1>1, TreePagesArePages DEF Sound
<1> QED BY <1>8, <1>9, <1>10 DEF InUse, PagesTo

\* The values of a function on a finite set.
LEMMA ImageSize ==
  ASSUME NEW S, IsFiniteSet(S), NEW g
  PROVE  LET T == {g[x] : x \in S} IN
         /\ IsFiniteSet(T) /\ Cardinality(T) <= Cardinality(S)
         /\ (\A x, y \in S : g[x] = g[y] => x = y) => Cardinality(T) = Cardinality(S)
<1> DEFINE T == {g[x] : x \in S}
           h == [x \in S |-> g[x]]
<1>1. h \in Surjection(S, T)
  BY DEF Surjection
<1>2. (\A x, y \in S : g[x] = g[y] => x = y) => h \in Injection(S, T)
  BY DEF Injection, IsInjective
<1> HIDE DEF T, h
<1>3. IsFiniteSet(T) /\ Cardinality(T) <= Cardinality(S)
      /\ (h \in Injection(S, T) => Cardinality(T) = Cardinality(S))
  BY <1>1, FS_Surjection
<1> QED BY <1>2, <1>3 DEF T

\* A function that is one to one.
LEMMA OneEach ==
  ASSUME NEW S, IsFiniteSet(S), NEW g, \A x, y \in S : g[x] = g[y] => x = y
  PROVE  Cardinality({g[x] : x \in S}) = Cardinality(S)
BY ImageSize

\* The pool is finite.
LEMMA PoolFinite ==
  /\ \A S \in SUBSET Page : IsFiniteSet(S) /\ Cardinality(S) \in Nat
  /\ \A S, T \in SUBSET Page : S \subseteq T => Cardinality(S) <= Cardinality(T)
<1>1. \A S \in SUBSET Page : IsFiniteSet(S)
  BY PageAssumption, FS_Subset
<1>2. \A S \in SUBSET Page : Cardinality(S) \in Nat
  BY <1>1, FS_CardinalityType
<1>3. ASSUME NEW S \in SUBSET Page, NEW T \in SUBSET Page, S \subseteq T
      PROVE  Cardinality(S) <= Cardinality(T)
  <2>1. S \in SUBSET T /\ IsFiniteSet(T)
    BY <1>1, <1>3
  <2> QED BY <2>1, FS_Subset
<1> QED BY <1>1, <1>2, <1>3

\* What admission reckons with, free and evictable, is reclaimable; when no
\* unlocked node is left, what is reclaimable is free.
LEMMA ReclaimFacts ==
  ASSUME NEW t, NEW f, NEW c, NEW rq, Pools(t, f, c, rq)
  PROVE  /\ Reclaimable(t, rq) \in SUBSET Page /\ FreePages(f) \in SUBSET Reclaimable(t, rq)
         /\ AvailableSize(f) + t.evictable_size <= PageSize * Cardinality(Reclaimable(t, rq))
         /\ UnlockedNodes(t) = {} => FreePages(f) = Reclaimable(t, rq)
<1> DEFINE S == LockedIn(rq)
           U == UnlockedNodes(t)
           F == FreePages(f)
           A == PagesIn(t, U)
<1>1. /\ Sound(t, S, LockOf(rq)) /\ WellFormed(t) /\ Accounts(t)
      /\ Apart(t, rq) /\ FreeIs(t, f, rq) /\ Keyed(t, c)
  BY DEF Pools, Sound
<1>2. IsFiniteSet(S) /\ S \subseteq Req /\ HoldersIn(rq) \subseteq S
  BY LockedFinite
<1>3. \A r \in S : LockOf(rq)[r] = rq[r].lock
  BY <1>2 DEF LockOf
<1>4. \A p : p \in Busy(t, rq) <=> InUse(t, rq, p)
  BY BusyIs
<1>5. \A p \in Page : p \in F <=> p \notin Used(t, rq)
  BY <1>1 DEF FreeIs, FreePages
<1>6. \A p : InUse(t, rq, p) => p \in Used(t, rq)
  BY DEF InUse, Used, PagesTo, PagesOf
<1>7. F \subseteq Reclaimable(t, rq)
  <2>1. F \subseteq Page
    BY DEF FreePages
  <2> QED BY <2>1, <1>4, <1>5, <1>6 DEF Reclaimable
<1>8. Removable(t, U)
  <2>1. ASSUME NEW n \in U, NEW x \in Nodes(t), IsPrefixOf(n, x) PROVE x \in U
    <3>1. n \in Nodes(t) /\ t.lock_ref[n] = 0
      BY DEF UnlockedNodes
    <3>2. t.lock_ref[x] = 0
      BY <3>1, <2>1, <1>1, <1>2, LockedUpwards
    <3> QED BY <3>2 DEF UnlockedNodes
  <2> QED BY <2>1 DEF Removable, UnlockedNodes
<1>9. ASSUME NEW r \in S, NEW k \in Cached(t), IsPrefixOf(k, rq[r].lock)
      PROVE  t.node[k] \notin U
  <2>1. IsPrefixOf(k, LockOf(rq)[r])
    BY <1>3, <1>9
  <2> QED BY <2>1, <1>1, <1>2, <1>8, LockedNotRemovable
<1>10. A \subseteq PagesOf(t) /\ PagesOf(t) \subseteq Page
  BY <1>1, TreePagesArePages DEF PagesIn, PagesOf, Segments
<1>11. ASSUME NEW p \in A PROVE p \in Reclaimable(t, rq)
  <2>1. PICK k \in Cached(t) : t.node[k] \in U /\ p = t.value[k]
    BY DEF PagesIn, Segments
  <2>2. \A r \in HoldersIn(rq) : p \notin Own(rq[r])
    BY <1>10, <1>1 DEF Apart
  <2>3. ASSUME NEW r \in S, p \in PagesTo(t, rq[r].lock) PROVE FALSE
    <3>1. PICK l \in Cached(t) : IsPrefixOf(l, rq[r].lock) /\ p = t.value[l]
      BY <2>3 DEF PagesTo
    <3>2. l = k
      BY <3>1, <2>1, <1>1, ValuesApart
    <3> QED BY <3>1, <3>2, <2>1, <1>9
  <2>4. ~InUse(t, rq, p)
    BY <2>2, <2>3 DEF InUse
  <2> QED BY <2>4, <1>4, <1>10 DEF Reclaimable
<1>12. F \cap A = {}
  BY <1>5, <1>10 DEF Used
<1>13. Cardinality(A) = Cardinality(Segments(t, U))
  <2>1. IsFiniteSet(Segments(t, U)) /\ Segments(t, U) \subseteq Cached(t)
    BY <1>1, SegmentsFinite DEF Segments
  <2>2. \A x, y \in Segments(t, U) : t.value[x] = t.value[y] => x = y
    BY <2>1, <1>1, ValuesApart
  <2> QED BY <2>1, <2>2, ImageSize DEF PagesIn
<1>14. t.evictable_size = PageSize * Cardinality(A)
  BY <1>1, <1>13 DEF Accounts, NumTokens
<1>15. Reclaimable(t, rq) \subseteq Page
  BY DEF Reclaimable
<1> HIDE DEF A, F, U
<1>16. F \subseteq Page /\ A \subseteq Page /\ F \cup A \subseteq Reclaimable(t, rq)
  BY <1>7, <1>10, <1>11, <1>15
<1>17. AvailableSize(f) + t.evictable_size = PageSize * Cardinality(F \cup A)
  <2>1. AvailableSize(f) = PageSize * Cardinality(F)
    BY DEF AvailableSize, F
  <2>2. IsFiniteSet(F) /\ IsFiniteSet(A)
    BY <1>16, PoolFinite
  <2> QED BY <2>1, <2>2, <1>12, <1>14, DisjointTokens
<1>18. Cardinality(F \cup A) <= Cardinality(Reclaimable(t, rq))
       /\ Cardinality(F \cup A) \in Nat /\ Cardinality(Reclaimable(t, rq)) \in Nat
  <2>1. F \cup A \in SUBSET Page /\ Reclaimable(t, rq) \in SUBSET Page
    BY <1>15, <1>16
  <2> QED BY <2>1, <1>16, PoolFinite
<1>19. AvailableSize(f) + t.evictable_size <= PageSize * Cardinality(Reclaimable(t, rq))
  BY <1>17, <1>18, PageSizeAssumption
<1>20. ASSUME U = {} PROVE F = Reclaimable(t, rq)
  <2>1. ASSUME NEW p \in Reclaimable(t, rq) PROVE p \in F
    <3>1. p \in Page /\ ~InUse(t, rq, p)
      BY <1>4, <2>1 DEF Reclaimable
    <3>2. ASSUME NEW k \in Cached(t), p = t.value[k] PROVE FALSE
      <4>1. t.node[k] \in Nodes(t) /\ t.lock_ref[t.node[k]] # 0 /\ k \in Key /\ t.node[k] \in Key
            /\ IsPrefixOf(k, t.node[k])
        BY <1>20, <1>1, WellFormedKeys DEF U, UnlockedNodes, WellFormed, Radix
      <4> DEFINE C == {r \in S : IsPrefixOf(t.node[k], LockOf(rq)[r])}
      <4>2. t.lock_ref[t.node[k]] = Cardinality(C)
        BY <4>1, <1>1 DEF Sound, Counted
      <4>3. C # {}
        BY <4>1, <4>2, FS_EmptySet
      <4>4. PICK r \in S : IsPrefixOf(t.node[k], LockOf(rq)[r])
        BY <4>3
      <4>5. LockOf(rq)[r] \in Key
        BY <1>1, WellFormedKeys, PrefixLen DEF Sound, Anchored
      <4>6. IsPrefixOf(k, LockOf(rq)[r])
        BY <4>1, <4>4, <4>5, PrefixTrans
      <4>7. IsPrefixOf(k, rq[r].lock)
        BY <4>6, <1>3
      <4>8. p \in PagesTo(t, rq[r].lock)
        BY <4>7, <3>2 DEF PagesTo
      <4> QED BY <4>8, <3>1 DEF InUse
    <3>3. p \notin PagesOf(t)
      BY <3>2 DEF PagesOf
    <3>4. \A r \in HoldersIn(rq) : p \notin Own(rq[r])
      BY <3>1 DEF InUse
    <3> QED BY <3>1, <3>3, <3>4, <1>5 DEF Used
  <2> QED BY <2>1, <1>16
<1> QED BY <1>15, <1>16, <1>19, <1>20 DEF F, U

\* evict touches no page in use; it frees what was asked for, or all there is.
LEMMA EvictRoom ==
  ASSUME NEW t, NEW f, NEW c, NEW rq, Pools(t, f, c, rq), NEW num \in Int,
         NEW e \in Evictions(t, f, num)
  PROVE  /\ Busy(e.tree, rq) = Busy(t, rq)
         /\ FreePages(f) \subseteq FreePages(e.free)
         /\ \/ AvailableSize(e.free) >= num
            \/ FreePages(e.free) = Reclaimable(t, rq)
         /\ num <= AvailableSize(f) => e.tree.value = t.value /\ e.free = f
<1>1. PICK E \in EvictableSets(t, num - AvailableSize(f)) :
        e = [tree |-> DeleteNodes(t, E), free |-> Release(f, PagesIn(t, E)),
             gone |-> PagesIn(t, E)]
  BY DEF Evictions
<1> DEFINE s == DeleteNodes(t, E)
           gone == PagesIn(t, E)
           S == LockedIn(rq)
<1>2. e.tree = s /\ e.free = Release(f, gone)
  BY <1>1
<1>3. /\ Sound(t, S, LockOf(rq)) /\ WellFormed(t) /\ Accounts(t)
      /\ Apart(t, rq) /\ FreeIs(t, f, rq) /\ Keyed(t, c) /\ RowsOK(t, c, rq)
  BY DEF Pools, Sound
<1>4. IsFiniteSet(S) /\ S \subseteq Req /\ HoldersIn(rq) \subseteq S
  BY LockedFinite
<1>5. \A r \in S : LockOf(rq)[r] = rq[r].lock
  BY <1>4 DEF LockOf
<1>6. Removable(t, E)
  BY <1>3, EvictableRemovable
<1>7. /\ Nodes(s) = Nodes(t) \ E
      /\ Cached(s) = Cached(t) \ Segments(t, E)
      /\ \A k \in Cached(s) : s.value[k] = t.value[k]
      /\ \A n \in Nodes(s) : s.lock_ref[n] = t.lock_ref[n]
  BY <1>3, <1>6, DeleteWellFormed
<1>8. Pools(s, e.free, c, rq) /\ Stable(t, s, S, LockOf(rq))
  BY <1>2, PoolsEvictScrub
<1>9. \A r \in S : PagesTo(s, rq[r].lock) = PagesTo(t, rq[r].lock)
  <2> SUFFICES ASSUME NEW r \in S PROVE PagesTo(s, rq[r].lock) = PagesTo(t, rq[r].lock)
    OBVIOUS
  <2>1. \A k \in Cached(t) : IsPrefixOf(k, rq[r].lock) => k \in Cached(s) /\ s.value[k] = t.value[k]
    BY <1>8, <1>5 DEF Stable
  <2> HIDE DEF s
  <2> QED BY <2>1, <1>7 DEF PagesTo
<1>10. Busy(s, rq) = Busy(t, rq)
  <2>1. \A p : p \in Busy(s, rq) <=> InUse(s, rq, p)
    BY <1>8, BusyIs
  <2>2. \A p : p \in Busy(t, rq) <=> InUse(t, rq, p)
    BY BusyIs
  <2>3. \A p : InUse(s, rq, p) <=> InUse(t, rq, p)
    BY <1>9 DEF InUse
  <2> QED BY <2>1, <2>2, <2>3
<1>11. gone \subseteq PagesOf(t) /\ PagesOf(t) \subseteq Page
  BY <1>3, TreePagesArePages DEF PagesIn, PagesOf, Segments
<1>12. \A p \in Page : f[p] \in {0, 1} /\ (p \in PagesOf(t) => f[p] = 0)
  BY <1>3 DEF FreeIs, Used
<1> HIDE DEF s, gone
<1>13. FreePages(e.free) = FreePages(f) \cup gone /\ FreePages(f) \cap gone = {}
  BY <1>2, <1>11, <1>12 DEF FreePages, Release
<1>14. Cardinality(gone) = Cardinality(Segments(t, E)) /\ IsFiniteSet(gone)
  <2>1. IsFiniteSet(Segments(t, E)) /\ Segments(t, E) \subseteq Cached(t)
    BY <1>3, SegmentsFinite DEF Segments
  <2>2. \A x, y \in Segments(t, E) : t.value[x] = t.value[y] => x = y
    BY <2>1, <1>3, ValuesApart
  <2> QED BY <2>1, <2>2, ImageSize DEF PagesIn, gone
<1>15. AvailableSize(e.free) = AvailableSize(f) + NumTokens(t, E)
       /\ AvailableSize(f) \in Nat /\ NumTokens(t, E) \in Nat
  <2>1. IsFiniteSet(FreePages(f))
    BY PageAssumption, FS_Subset DEF FreePages
  <2> QED BY <2>1, <1>13, <1>14, DisjointTokens DEF AvailableSize, NumTokens
<1>16. AvailableSize(e.free) >= num \/ FreePages(e.free) = Reclaimable(t, rq)
  <2> SUFFICES ASSUME ~(AvailableSize(e.free) >= num)
               PROVE  FreePages(e.free) = Reclaimable(t, rq)
    OBVIOUS
  <2>1. NumTokens(t, E) < num - AvailableSize(f) /\ num - AvailableSize(f) \in Int
    BY <1>15
  <2>2. \A n \in Nodes(t) \ E : t.lock_ref[n] # 0
    BY <2>1, <1>3, <1>4, ShortEviction
  <2>3. UnlockedNodes(s) = {}
    BY <2>2, <1>7 DEF UnlockedNodes
  <2>4. FreePages(e.free) = Reclaimable(s, rq)
    BY <2>3, <1>8, ReclaimFacts
  <2> QED BY <2>4, <1>10 DEF Reclaimable
<1>17. ASSUME num <= AvailableSize(f) PROVE s.value = t.value /\ e.free = f
  <2>1. E = {}
    BY <1>17, <1>15 DEF EvictableSets
  <2>2. Segments(t, E) = {} /\ gone = {}
    BY <2>1 DEF Segments, PagesIn, gone
  <2>3. s.value = t.value
    <3>1. t.value \in [Cached(t) -> Page]
      BY <1>3 DEF WellFormed, Shape
    <3>2. s.value = [k \in Cached(t) \ Segments(t, E) |-> t.value[k]]
      BY DEF s, DeleteNodes
    <3> QED BY <3>1, <3>2, <2>2
  <2>4. e.free = f
    <3>1. f = [p \in Page |-> f[p]]
      BY <1>3 DEF FreeIs
    <3> QED BY <3>1, <2>2, <1>2 DEF Release
  <2> QED BY <2>3, <2>4
<1> QED BY <1>2, <1>10, <1>13, <1>16, <1>17

-----------------------------------------------------------------------------
(* How an operation changes what is reclaimable *)

\* The number of reclaimable pages.
RoomOf(t, rq) == Cardinality(Reclaimable(t, rq))

\* The room is a number.
LEMMA RoomNat ==
  ASSUME NEW t, NEW rq
  PROVE  RoomOf(t, rq) \in Nat /\ Reclaimable(t, rq) \in SUBSET Page
<1>1. Reclaimable(t, rq) \in SUBSET Page
  BY DEF Reclaimable
<1> QED BY <1>1, PoolFinite DEF RoomOf

\* When pages of D are given up for no more pages of X, the room stays.
LEMMA RoomSwap ==
  ASSUME NEW t, NEW rq, NEW s, NEW rq2, NEW D \in SUBSET Busy(t, rq), D \subseteq Page, NEW X,
         Busy(s, rq2) \subseteq (Busy(t, rq) \ D) \cup X,
         IsFiniteSet(X)
  PROVE  RoomOf(s, rq2) + Cardinality(X) >= RoomOf(t, rq) + Cardinality(D)
<1> DEFINE R == Reclaimable(t, rq)
           Q == Reclaimable(s, rq2)
<1>1. R \in SUBSET Page /\ Q \in SUBSET Page /\ D \in SUBSET Page
  BY RoomNat
<1>2. R \cap D = {} /\ R \cup D \subseteq Q \cup X
  BY DEF Reclaimable
<1> HIDE DEF R, Q
<1>3. IsFiniteSet(R) /\ IsFiniteSet(D) /\ IsFiniteSet(Q)
  BY <1>1, PoolFinite
<1>4. Cardinality(R \cup D) = Cardinality(R) + Cardinality(D)
  <2>1. Cardinality(R \cup D) = Cardinality(R) + Cardinality(D) - Cardinality(R \cap D)
    BY <1>3, FS_Union
  <2>2. Cardinality(R \cap D) = 0 /\ Cardinality(R) \in Nat /\ Cardinality(D) \in Nat
    BY <1>2, <1>3, FS_EmptySet, FS_CardinalityType
  <2> QED BY <2>1, <2>2
<1>5. IsFiniteSet(Q \cup X) /\ Cardinality(Q \cup X) <= Cardinality(Q) + Cardinality(X)
  <2>1. IsFiniteSet(Q \cup X)
        /\ Cardinality(Q \cup X) = Cardinality(Q) + Cardinality(X) - Cardinality(Q \cap X)
    BY <1>3, FS_Union
  <2>2. IsFiniteSet(Q \cap X)
    BY <1>3, FS_Intersection
  <2>3. Cardinality(Q \cap X) \in Nat /\ Cardinality(Q) \in Nat /\ Cardinality(X) \in Nat
    BY <2>2, <1>3, FS_CardinalityType
  <2> QED BY <2>1, <2>3
<1>6. Cardinality(R \cup D) <= Cardinality(Q \cup X) /\ Cardinality(R \cup D) \in Nat
  <2>1. R \cup D \in SUBSET (Q \cup X)
    BY <1>2
  <2>2. IsFiniteSet(R \cup D)
    BY <2>1, <1>5, FS_Subset
  <2> QED BY <2>1, <2>2, <1>5, FS_Subset, FS_CardinalityType
<1>7. Cardinality(Q) \in Nat /\ Cardinality(X) \in Nat /\ Cardinality(R) \in Nat /\ Cardinality(D) \in Nat
      /\ Cardinality(Q \cup X) \in Nat
  BY <1>3, <1>5, FS_CardinalityType
<1>8. Cardinality(Q) + Cardinality(X) >= Cardinality(R) + Cardinality(D)
  BY <1>4, <1>5, <1>6, <1>7
<1> QED BY <1>8 DEF RoomOf, R, Q

\* Where fewer pages are in use, the room is no smaller.
LEMMA RoomGrows ==
  ASSUME NEW t, NEW rq, NEW s, NEW rq2, Busy(s, rq2) \subseteq Busy(t, rq)
  PROVE  RoomOf(s, rq2) >= RoomOf(t, rq)
<1>1. Reclaimable(t, rq) \subseteq Reclaimable(s, rq2)
  BY DEF Reclaimable
<1> QED BY <1>1, RoomNat, PoolFinite DEF RoomOf

\* Pages X more in use.
LEMMA RoomShrinks ==
  ASSUME NEW t, NEW rq, NEW s, NEW rq2, NEW X, IsFiniteSet(X),
         Busy(s, rq2) \subseteq Busy(t, rq) \cup X
  PROVE  RoomOf(s, rq2) + Cardinality(X) >= RoomOf(t, rq)
<1>1. RoomOf(s, rq2) + Cardinality(X) >= RoomOf(t, rq) + Cardinality({})
  <2> DEFINE D == {}
  <2>1. D \in SUBSET Busy(t, rq) /\ D \subseteq Page
        /\ Busy(s, rq2) \subseteq (Busy(t, rq) \ D) \cup X
    OBVIOUS
  <2> HIDE DEF D
  <2>2. RoomOf(s, rq2) + Cardinality(X) >= RoomOf(t, rq) + Cardinality(D)
    BY <2>1, RoomSwap
  <2> QED BY <2>2 DEF D
<1> QED BY <1>1, RoomNat, FS_EmptySet, FS_CardinalityType

\* What is in use depends on the rows, the locks and the values of the tree.
LEMMA BusyKeeps ==
  ASSUME NEW t, NEW s, NEW rq, NEW rq2, s.value = t.value, LockedIn(rq2) \subseteq LockedIn(rq),
         \A r \in LockedIn(rq2) : /\ rq2[r].phase = rq[r].phase /\ rq2[r].row = rq[r].row
                                  /\ rq2[r].lock = rq[r].lock
  PROVE  Busy(s, rq2) \subseteq Busy(t, rq)
<1>1. ASSUME NEW r \in LockedIn(rq2) PROVE BusyOf(s, rq2[r]) = BusyOf(t, rq[r])
  <2>1. rq2[r].phase = rq[r].phase /\ rq2[r].row = rq[r].row /\ rq2[r].lock = rq[r].lock
    OBVIOUS
  <2> QED BY <2>1, ZenonT(60) DEF BusyOf, RowPages, PrefixPages
<1>2. ASSUME NEW p \in Busy(s, rq2) PROVE p \in Busy(t, rq)
  <2>1. PICK r \in LockedIn(rq2) : p \in BusyOf(s, rq2[r])
    BY <1>2 DEF Busy
  <2>2. r \in LockedIn(rq) /\ p \in BusyOf(t, rq[r])
    BY <2>1, <1>1
  <2> QED BY <2>2 DEF Busy
<1> QED BY <1>2

\* While no request is admitted and waits for its row, what is in use is in the
\* rows.
LEMMA BusyRows ==
  ASSUME NEW t, NEW rq, LockedIn(rq) \subseteq HoldersIn(rq)
  PROVE  \A p : p \in Busy(t, rq) <=> \E r \in HoldersIn(rq) : p \in RowPages(rq[r])
<1>1. LockedIn(rq) = HoldersIn(rq)
  BY LockedFinite
<1>2. \A r \in HoldersIn(rq) : BusyOf(t, rq[r]) = RowPages(rq[r])
  BY DEF BusyOf, HoldersIn
<1> QED BY <1>1, <1>2 DEF Busy

\* A request that gives up its row puts none of the others' pages in use.
LEMMA BusyRelease ==
  ASSUME NEW t, NEW s, NEW rq, NEW rq2, LockedIn(rq) \subseteq HoldersIn(rq), NEW r,
         OnlyAt(rq, rq2, r), rq2[r].phase \notin {"admitted", "running"}
  PROVE  Busy(s, rq2) \subseteq Busy(t, rq) /\ LockedIn(rq2) \subseteq HoldersIn(rq2)
<1>1. \A x \in LockedIn(rq2) : x # r /\ x \in Req /\ rq2[x] = rq[x]
  BY DEF LockedIn, OnlyAt
<1>2. \A x \in LockedIn(rq2) : x \in HoldersIn(rq) /\ x \in HoldersIn(rq2)
  <2>1. \A x \in LockedIn(rq2) : x \in LockedIn(rq)
    BY <1>1 DEF LockedIn
  <2> QED BY <2>1, <1>1 DEF HoldersIn
<1>3. \A p : p \in Busy(t, rq) <=> \E x \in HoldersIn(rq) : p \in RowPages(rq[x])
  BY BusyRows
<1>4. \A p : p \in Busy(s, rq2) <=> \E x \in HoldersIn(rq2) : p \in RowPages(rq2[x])
  BY <1>2, BusyRows
<1>5. HoldersIn(rq2) \subseteq LockedIn(rq2)
  BY LockedFinite
<1> QED BY <1>1, <1>2, <1>3, <1>4, <1>5

\* A checkpoint exchanges the duplicates of a row for as many pages of the tree.
LEMMA RoomCheckpointKey ==
  ASSUME NEW t, NEW f, NEW c, NEW rq, NEW r, NEW q, NEW key, NEW rq2, NEW c2,
         CheckpointCase(t, f, c, rq, r, q, key, rq2, c2), LockedIn(rq) \subseteq HoldersIn(rq), NEW s
  PROVE  RoomOf(s, rq2) >= RoomOf(t, rq) /\ LockedIn(rq2) \subseteq HoldersIn(rq2)
<1> DEFINE m == LongestMatch(t, key)
           t1 == Publish(t, q, key)
           a == CheckpointKey(t, q, key)
           new == NewPaths(key, Len(m))
           P == q.protected \div PageSize
           M == Len(m) \div PageSize
           K == Len(key) \div PageSize
           L == Len(q.row)
           row2 == [i \in DOMAIN q.row |-> IF i \in P + 1 .. K
                                           THEN t1.value[Prefix(key, i * PageSize)] ELSE q.row[i]]
           dup == {q.row[i] : i \in P + 1 .. M}
           val == [i \in P + 1 .. M |-> t1.value[Prefix(key, i * PageSize)]]
           X == {val[i] : i \in P + 1 .. M}
<1>0. r \in Req /\ r \in LockedIn(rq) /\ r \in HoldersIn(rq)
  BY DEF HoldersIn, LockedIn, CheckpointCase
<1>1. /\ Sound(t, LockedIn(rq), LockOf(rq)) /\ WellFormed(t) /\ RowsOK(t, c, rq) /\ Apart(t, rq)
      /\ Pools(t, f, c, rq)
  BY DEF Pools, Sound, CheckpointCase
<1>2. RowShape(q) /\ Resident(t, q) /\ Written(c, q) /\ Own(q) = Own(rq[r]) /\ q.row = rq[r].row
      /\ q.lock = rq[r].lock
  BY <1>0, <1>1, SameRowFacts DEF RowsOK, RowOK, CheckpointCase, SameRow
<1>3. rq2[r].row = row2 /\ rq2[r].phase = "running" /\ OnlyAt(rq, rq2, r) /\ DOMAIN q = ReqFields
  <2>1. a.req = [q EXCEPT !.row = row2, !.protected = Len(key), !.lock = key]
    BY DEF CheckpointKey, Adopt
  <2> HIDE DEF a, row2
  <2>2. DOMAIN q = ReqFields /\ SameRow(rq2[r], a.req)
    BY DEF CheckpointCase, a
  <2>3. a.req.row = row2
    BY <2>1, <2>2 DEF ReqFields
  <2> QED BY <2>2, <2>3 DEF SameRow, CheckpointCase
<1>4. key \in Key /\ Whole(Len(key)) /\ q.protected <= Len(key) /\ Len(key) <= q.committed
      /\ IsPrefixOf(key, q.dev) /\ q.prompt \in Key
      /\ (Len(PageAligned(q.prompt)) < Len(key) => IsPrefixOf(PageAligned(q.prompt), key))
  BY DEF CheckpointCase
<1>5. m \in Cached(t) \cup {Root} /\ m \in Key /\ IsPrefixOf(m, key) /\ Whole(Len(m))
      /\ \A l \in Cached(t) : IsPrefixOf(l, key) => Len(l) <= Len(m)
  BY <1>1, <1>4, LongestMatchFacts
<1>6. q.lock \in Key /\ q.dev \in Key /\ IsPrefixOf(q.lock, q.dev) /\ Len(q.lock) = q.protected
      /\ q.protected \in Nat /\ q.committed \in Nat
      /\ L = CeilPages(q.committed) /\ q.row \in Seq(Page)
  BY <1>2 DEF RowShape
<1>7. Len(m) \in Nat /\ Len(key) \in Nat /\ Len(m) <= Len(key) /\ q.protected <= Len(m)
  <2>1. Len(m) \in Nat /\ Len(key) \in Nat /\ Len(m) <= Len(key)
    BY <1>4, <1>5, PrefixLen
  <2>2. q.lock \in Nodes(t) \cup {Root}
    BY <1>0, <1>1, <1>2 DEF Sound, Anchored, LockOf
  <2>3. CASE q.lock = Root
    BY <2>3, <1>6, <2>1, PrefixLen
  <2>4. CASE q.lock # Root
    <3>1. q.lock \in Cached(t)
      BY <2>2, <2>4, <1>1 DEF WellFormed, Shape
    <3>2. IsPrefixOf(q.lock, key)
      BY <1>4, <1>6, PrefixChain
    <3>3. Len(q.lock) <= Len(m)
      BY <3>1, <3>2, <1>5
    <3> QED BY <3>3, <1>6, <2>1
  <2> QED BY <2>1, <2>3, <2>4
<1>8. P \in Nat /\ M \in Nat /\ K \in Nat /\ L \in Nat /\ P <= M /\ M <= K /\ K <= L
  <2>1. P \in Nat /\ M \in Nat /\ K \in Nat
    BY <1>6, <1>7, DivFacts
  <2>2. P <= M /\ M <= K
    BY <1>6, <1>7, DivMono
  <2>3. K <= q.committed \div PageSize
    BY <1>4, <1>6, <1>7, DivMono
  <2>4. q.committed \div PageSize <= L /\ L \in Nat /\ q.committed \div PageSize \in Nat
    BY <1>6, CeilFacts
  <2> QED BY <2>1, <2>2, <2>3, <2>4
<1>9. RowCovers(q.row, key)
  BY <1>6, <1>8 DEF RowCovers
<1>10. \A l \in new : t1.value[l] = q.row[Len(l) \div PageSize]
  BY <1>1, <1>4, <1>9, PublishSound
<1>11. \A i \in M + 1 .. K : t1.value[Prefix(key, i * PageSize)] = q.row[i]
  <2> SUFFICES ASSUME NEW i \in M + 1 .. K
               PROVE  t1.value[Prefix(key, i * PageSize)] = q.row[i]
    OBVIOUS
  <2>1. i \in Nat /\ i <= K
    BY <1>8
  <2>2. i * PageSize <= K * PageSize /\ i * PageSize \in Nat /\ (i * PageSize) \div PageSize = i
    BY <2>1, <1>8, MulFacts
  <2>3. K * PageSize <= Len(key) /\ K * PageSize \in Nat
    BY <1>7, DivFacts
  <2>4. i * PageSize \in 0 .. Len(key)
    BY <2>2, <2>3, <1>7
  <2>5. Len(Prefix(key, i * PageSize)) = i * PageSize
    BY <2>4, <1>4, PrefixFacts
  <2>6. Prefix(key, i * PageSize) \in new
    BY DEF NewPaths
  <2> QED BY <2>2, <2>5, <2>6, <1>10
<1> HIDE DEF t1, m, new, P, M, K, a, dup, val
<1>12. DOMAIN q.row = 1 .. L
  BY <1>6
<1> HIDE DEF L
<1>13. \A i \in 1 .. L : row2[i] = IF i \in P + 1 .. M THEN val[i] ELSE q.row[i]
  <2> SUFFICES ASSUME NEW i \in 1 .. L
               PROVE  row2[i] = IF i \in P + 1 .. M THEN val[i] ELSE q.row[i]
    OBVIOUS
  <2>1. row2[i] = IF i \in P + 1 .. K THEN t1.value[Prefix(key, i * PageSize)] ELSE q.row[i]
    BY <1>12
  <2>2. CASE i \in P + 1 .. M
    <3>1. i \in P + 1 .. K
      BY <2>2, <1>8
    <3> QED BY <2>1, <2>2, <3>1 DEF val
  <2>3. CASE i \in M + 1 .. K
    <3>1. i \in P + 1 .. K /\ i \notin P + 1 .. M
      BY <2>3, <1>8
    <3> QED BY <2>1, <2>3, <3>1, <1>11
  <2>4. CASE i \notin P + 1 .. M /\ i \notin M + 1 .. K
    <3>1. i \notin P + 1 .. K
      BY <2>4, <1>8
    <3> QED BY <2>1, <2>4, <3>1
  <2> QED BY <2>2, <2>3, <2>4
<1>14. \A i, j \in P + 1 .. L : q.row[i] = q.row[j] => i = j
  BY <1>2, OwnOnce DEF P, L
<1>15. \A p : p \in Own(q) <=> \E i \in P + 1 .. L : p = q.row[i]
  BY <1>2, OwnFacts DEF P, L
<1>16. \A i \in P + 1 .. M : i \in P + 1 .. L /\ i \in 1 .. L
  BY <1>8
<1>17. dup \subseteq Own(q) /\ Own(q) \subseteq Page
  BY <1>15, <1>16, <1>2, OwnFacts DEF dup
<1>18. \A p : p \in Busy(t, rq) <=> \E x \in HoldersIn(rq) : p \in RowPages(rq[x])
  BY BusyRows
<1>19. HoldersIn(rq2) = HoldersIn(rq) /\ LockedIn(rq2) \subseteq HoldersIn(rq2)
  <2>1. \A x \in Req : x # r => rq2[x] = rq[x]
    BY <1>3 DEF OnlyAt
  <2>2. \A x \in Req : rq2[x].phase = "running" <=> rq[x].phase = "running"
    BY <2>1, <1>3, <1>0 DEF HoldersIn
  <2>3. \A x \in Req : rq2[x].phase = "admitted" => x \notin {r} /\ rq[x].phase = "admitted"
    BY <2>1, <1>3
  <2>4. \A x \in Req : rq[x].phase # "admitted"
    BY DEF LockedIn, HoldersIn
  <2> QED BY <2>2, <2>3, <2>4 DEF LockedIn, HoldersIn
<1>20. \A p : p \in Busy(s, rq2) <=> \E x \in HoldersIn(rq) : p \in RowPages(rq2[x])
  BY <1>19, BusyRows
\* A page of another row, or of the protected part of this one, is no duplicate.
<1>21. ASSUME NEW x \in HoldersIn(rq), x # r, NEW p \in RowPages(rq[x]) PROVE p \notin dup
  <2>1. x \in LockedIn(rq) /\ RowShape(rq[x]) /\ Resident(t, rq[x])
    BY <1>1, LockedFinite DEF RowsOK, RowOK
  <2>2. PICK i \in 1 .. Len(rq[x].row) : p = rq[x].row[i]
    BY <1>21 DEF RowPages
  <2>3. rq[x].protected \div PageSize \in Nat /\ Len(rq[x].row) \in Nat
        /\ \A y : y \in Own(rq[x]) <=> \E j \in (rq[x].protected \div PageSize) + 1 .. Len(rq[x].row) : y = rq[x].row[j]
    BY <2>1, OwnFacts
  <2>4. CASE i \in (rq[x].protected \div PageSize) + 1 .. Len(rq[x].row)
    <3>1. p \in Own(rq[x])
      BY <2>2, <2>3, <2>4
    <3> QED BY <3>1, <1>17, <1>2, <1>1, <1>21, <1>0 DEF Apart
  <2>5. CASE i \in 1 .. rq[x].protected \div PageSize
    <3>1. p \in PagesOf(t)
      <4>1. p = t.value[Prefix(rq[x].lock, i * PageSize)]
        BY <2>1, <2>2, <2>5 DEF Resident
      <4>2. Len(rq[x].lock) = rq[x].protected /\ LockOf(rq)[x] = rq[x].lock
        BY <2>1 DEF RowShape, LockOf, LockedIn
      <4>3. i \in 1 .. Len(LockOf(rq)[x]) \div PageSize
        BY <4>2, <2>5
      <4>4. Prefix(LockOf(rq)[x], i * PageSize) \in Cached(t)
        BY <4>3, <2>1, <1>1, LockedPath
      <4> QED BY <4>1, <4>2, <4>4 DEF PagesOf
    <3> QED BY <3>1, <1>17, <1>2, <1>1, <1>0 DEF Apart
  <2> QED BY <2>2, <2>3, <2>4, <2>5
<1>22. ASSUME NEW i \in 1 .. P PROVE q.row[i] \in PagesOf(t)
  <2>1. q.row[i] = t.value[Prefix(q.lock, i * PageSize)]
    BY <1>2 DEF Resident, P
  <2>2. LockOf(rq)[r] = q.lock /\ i \in 1 .. Len(LockOf(rq)[r]) \div PageSize
    BY <1>2, <1>6, <1>0 DEF LockOf, P
  <2>3. Prefix(LockOf(rq)[r], i * PageSize) \in Cached(t)
    BY <2>2, <1>0, <1>1, LockedPath
  <2> QED BY <2>1, <2>2, <2>3 DEF PagesOf
<1>23. ASSUME NEW i \in 1 .. L, i \notin P + 1 .. M PROVE q.row[i] \notin dup
  <2>1. CASE i \in 1 .. P
    BY <2>1, <1>22, <1>17, <1>2, <1>1, <1>0 DEF Apart
  <2>2. CASE i \in M + 1 .. L
    <3> SUFFICES ASSUME NEW j \in P + 1 .. M, q.row[i] = q.row[j] PROVE FALSE
      BY DEF dup
    <3>1. i \in P + 1 .. L /\ j \in P + 1 .. L /\ i # j
      BY <1>8, <2>2
    <3> QED BY <3>1, <1>14
  <2> QED BY <1>23, <1>8, <2>1, <2>2
<1>24. Busy(s, rq2) \subseteq (Busy(t, rq) \ dup) \cup X
  <2> SUFFICES ASSUME NEW p \in Busy(s, rq2) PROVE p \in (Busy(t, rq) \ dup) \cup X
    OBVIOUS
  <2>1. PICK x \in HoldersIn(rq) : p \in RowPages(rq2[x])
    BY <1>20
  <2>2. CASE x # r
    <3>1. p \in RowPages(rq[x])
      BY <2>1, <2>2, <1>3 DEF OnlyAt, HoldersIn
    <3> QED BY <3>1, <2>2, <1>18, <1>21
  <2>3. CASE x = r
    <3>1. PICK i \in 1 .. L : p = row2[i]
      <4>1. DOMAIN row2 = 1 .. L /\ Len(row2) = L
        <5>1. DOMAIN row2 = 1 .. L
          BY <1>12
        <5> HIDE DEF row2
        <5>2. row2 \in Seq({row2[i] : i \in 1 .. L})
          <6>1. row2 = [i \in 1 .. L |-> row2[i]]
            BY <5>1 DEF row2
          <6>2. row2 \in [1 .. L -> {row2[i] : i \in 1 .. L}]
            BY <6>1
          <6> QED BY <6>2, <1>8
        <5> QED BY <5>1, <5>2, <1>8, LenProperties
      <4> QED BY <2>1, <2>3, <1>3, <4>1 DEF RowPages
    <3>2. CASE i \in P + 1 .. M
      <4>1. p = val[i]
        BY <3>1, <3>2, <1>13
      <4> QED BY <4>1, <3>2
    <3>3. CASE i \notin P + 1 .. M
      <4>1. p = q.row[i] /\ p \notin dup
        BY <3>1, <3>3, <1>13, <1>23
      <4>2. p \in RowPages(rq[r])
        BY <4>1, <1>2 DEF RowPages, L
      <4> QED BY <4>1, <4>2, <1>0, <1>18
    <3> QED BY <3>2, <3>3
  <2> QED BY <2>2, <2>3
<1>25. dup \in SUBSET Busy(t, rq) /\ dup \subseteq Page
  <2>1. ASSUME NEW p \in dup PROVE p \in Busy(t, rq)
    <3>1. PICK i \in P + 1 .. M : p = q.row[i]
      BY DEF dup
    <3>2. p \in RowPages(rq[r])
      BY <3>1, <1>16, <1>2 DEF RowPages, L
    <3> QED BY <3>2, <1>0, <1>18
  <2> QED BY <2>1, <1>17
<1>26. IsFiniteSet(X) /\ Cardinality(X) <= Cardinality(P + 1 .. M) /\ Cardinality(dup) = Cardinality(P + 1 .. M)
  <2> DEFINE I == P + 1 .. M
  <2>1. IsFiniteSet(I)
    BY <1>8, FS_Interval
  <2>2. \A i, j \in I : q.row[i] = q.row[j] => i = j
    BY <1>14, <1>16
  <2> HIDE DEF I
  <2>3. IsFiniteSet({val[i] : i \in I}) /\ Cardinality({val[i] : i \in I}) <= Cardinality(I)
    BY <2>1, ImageSize
  <2>4. Cardinality({q.row[i] : i \in I}) = Cardinality(I)
    BY <2>1, <2>2, ImageSize
  <2> QED BY <2>3, <2>4 DEF I, dup
<1> HIDE DEF X
<1>27. RoomOf(s, rq2) + Cardinality(X) >= RoomOf(t, rq) + Cardinality(dup)
  BY <1>24, <1>25, <1>26, RoomSwap
<1>28. Cardinality(X) \in Nat /\ Cardinality(P + 1 .. M) \in Nat
  <2>1. IsFiniteSet(P + 1 .. M)
    BY <1>8, FS_Interval
  <2> QED BY <2>1, <1>26, FS_CardinalityType
<1> QED BY <1>19, <1>26, <1>27, <1>28, RoomNat

\* A checkpoint takes nothing from the reclaimable pages.
LEMMA RoomCheckpoint ==
  ASSUME NEW t, NEW f, NEW c, NEW rq, NEW r, NEW q, NEW n, NEW rq2,
         CheckpointMade(t, f, c, rq, r, q, n, rq2), LockedIn(rq) \subseteq HoldersIn(rq), NEW s
  PROVE  RoomOf(s, rq2) >= RoomOf(t, rq) /\ LockedIn(rq2) \subseteq HoldersIn(rq2)
<1> DEFINE key == PageAligned(Truncated(q.prompt \o q.out, n))
           b == CheckpointKey(t, q, key)
           c2 == Scrub(c, b.dup)
<1>1. /\ r \in HoldersIn(rq) /\ ControlOK(q) /\ SameRow(q, rq[r])
      /\ IsPrefixOf(q.prompt \o q.out, q.dev) /\ q.protected <= Len(q.prompt \o q.out)
      /\ n \in Nat /\ q.protected <= n /\ n <= q.committed /\ Pools(t, f, c, rq)
      /\ OnlyAt(rq, rq2, r) /\ SameRow(rq2[r], Checkpoint(t, q, n).req)
      /\ rq2[r].phase = "running"
  BY DEF MayCheckpoint, CheckpointMade
<1>2. RowShape(q)
  BY <1>1, SameRowFacts DEF Pools, RowsOK, RowOK
<1>3. q.prompt \in Key /\ q.out \in Key /\ q.dev \in Key /\ DOMAIN q = ReqFields
      /\ q.protected \in Nat /\ Whole(q.protected) /\ q.committed \in Nat
  BY <1>1, <1>2 DEF ControlOK, RowShape
<1>4. /\ key \in Key /\ Whole(Len(key)) /\ Len(key) \in Nat
      /\ q.protected <= Len(key) /\ Len(key) <= n
      /\ IsPrefixOf(key, q.dev)
      /\ Len(PageAligned(q.prompt)) < Len(key) => IsPrefixOf(PageAligned(q.prompt), key)
  BY <1>1, <1>3, CheckpointKeyFacts
<1>5. Checkpoint(t, q, n) = b
  BY DEF Checkpoint
<1>6. \A p \in Page \ b.dup : c2[p] = c[p]
  BY DEF Scrub
<1>7. Len(key) <= q.committed
  BY <1>1, <1>3, <1>4
<1> HIDE DEF key, c2
<1>8. CheckpointCase(t, f, c, rq, r, q, key, rq2, c2)
  BY <1>1, <1>3, <1>4, <1>5, <1>6, <1>7 DEF CheckpointCase
<1> QED BY <1>8, RoomCheckpointKey

\* A forward puts the pages it takes in use, and no others.
LEMMA RoomGrow ==
  ASSUME NEW t, NEW f, NEW c, NEW rq, NEW r, NEW held, NEW from, NEW to, NEW text, NEW new,
         NEW need, NEW rq2, GrowCase(t, f, c, rq, r, held, from, to, text, new, need, rq2)
  PROVE  RoomOf(t, rq2) + need >= RoomOf(t, rq) /\ LockedIn(rq2) = LockedIn(rq) /\ need \in Nat
<1> DEFINE X == {new[i] : i \in 1 .. need}
           H == CeilPages(from)
           P == rq[r].protected \div PageSize
<1>1. /\ Pools(t, f, c, rq) /\ r \in LockedIn(rq) /\ OnlyAt(rq, rq2, r) /\ rq2[r].phase = "running"
      /\ from \in Nat /\ to \in Nat /\ from <= to /\ Len(rq[r].lock) = rq[r].protected
      /\ rq[r].protected \in Nat /\ Whole(rq[r].protected)
      /\ held \in Seq(Page) /\ Len(held) = H
      /\ \A i \in 1 .. P : held[i] = t.value[Prefix(rq[r].lock, i * PageSize)]
      /\ r \in HoldersIn(rq) => held = rq[r].row
      /\ r \notin HoldersIn(rq) => from = rq[r].protected
      /\ need = CeilPages(to) - H /\ new \in [1 .. need -> FreePages(f)]
      /\ rq2[r].row = held \o new
  BY DEF GrowCase
<1>2. need \in Nat /\ H \in Nat
  <2>1. CeilPages(to) \in Nat /\ H \in Nat
    BY <1>1, CeilFacts
  <2>2. H <= CeilPages(to)
    BY <1>1, CeilMono
  <2> HIDE DEF H
  <2>3. need = CeilPages(to) - H
    BY <1>1
  <2> QED BY <2>1, <2>2, <2>3
<1>3. r \notin HoldersIn(rq) => H = P
  BY <1>1, CeilFacts
<1> HIDE DEF H, P
<1>4. new \in Seq(Page) /\ Len(new) = need
  <2>1. FreePages(f) \subseteq Page
    BY DEF FreePages
  <2>2. new \in [1 .. need -> Page]
    BY <2>1, <1>1
  <2> QED BY <2>2, <1>2
<1>5. RowPages(rq2[r]) \subseteq {held[i] : i \in 1 .. H} \cup X
  <2> DEFINE row == rq2[r].row
  <2>0. held \in Seq(Page) /\ new \in Seq(Page) /\ row = held \o new
        /\ Len(held) = H /\ Len(new) = need
    BY <1>1, <1>4
  <2> HIDE DEF row
  <2>1. /\ Len(row) = H + need
        /\ \A i \in 1 .. H + need : row[i] = IF i <= H THEN held[i] ELSE new[i - H]
    <3>1. held \in Seq(Page) /\ new \in Seq(Page) /\ row = held \o new
      BY <2>0
    <3>2. /\ Len(row) = Len(held) + Len(new)
          /\ \A i \in 1 .. Len(held) + Len(new) :
               row[i] = IF i <= Len(held) THEN held[i] ELSE new[i - Len(held)]
      BY <3>1, ConcatProperties
    <3> QED BY <3>2, <2>0
  <2> SUFFICES ASSUME NEW i \in 1 .. H + need PROVE row[i] \in {held[j] : j \in 1 .. H} \cup X
    BY <2>1 DEF RowPages, row
  <2>2. CASE i \in 1 .. H
    <3>1. row[i] = held[i]
      BY <2>1, <2>2, <1>2
    <3> QED BY <3>1, <2>2
  <2>3. CASE i \in H + 1 .. H + need
    <3>1. i - H \in 1 .. need /\ i > H
      BY <2>3, <1>2
    <3>2. row[i] = new[i - H]
      <4>1. i \in 1 .. H + need /\ ~(i <= H)
        BY <3>1, <1>2
      <4> QED BY <4>1, <2>1, <1>2
    <3> QED BY <3>1, <3>2
  <2> QED BY <2>2, <2>3, <1>2
<1>6. {held[i] : i \in 1 .. H} \subseteq BusyOf(t, rq[r])
  <2>1. CASE r \in HoldersIn(rq)
    BY <2>1, <1>1 DEF BusyOf, HoldersIn, RowPages
  <2>2. CASE r \notin HoldersIn(rq)
    <3>1. rq[r].phase # "running"
      BY <2>2, <1>1 DEF LockedIn, HoldersIn
    <3>2. Len(rq[r].lock) \div PageSize = P
      BY <1>1 DEF P
    <3> QED BY <3>1, <3>2, <2>2, <1>1, <1>3 DEF BusyOf, PrefixPages
  <2> QED BY <2>1, <2>2
<1>7. LockedIn(rq2) = LockedIn(rq)
  <2>1. \A x \in Req : x # r => rq2[x] = rq[x]
    BY <1>1 DEF OnlyAt
  <2> QED BY <2>1, <1>1 DEF LockedIn
<1> HIDE DEF X
<1>8. Busy(t, rq2) \subseteq Busy(t, rq) \cup X
  <2> SUFFICES ASSUME NEW x \in LockedIn(rq), NEW p \in BusyOf(t, rq2[x])
               PROVE  p \in Busy(t, rq) \cup X
    BY <1>7 DEF Busy
  <2>1. CASE x # r
    <3>1. rq2[x] = rq[x]
      BY <2>1, <1>1 DEF OnlyAt, LockedIn
    <3> QED BY <3>1 DEF Busy
  <2>2. CASE x = r
    <3>1. p \in RowPages(rq2[r])
      BY <2>2, <1>1 DEF BusyOf
    <3>2. p \in X \/ p \in BusyOf(t, rq[r])
      BY <3>1, <1>5, <1>6
    <3> QED BY <3>2, <1>1 DEF Busy
  <2> QED BY <2>1, <2>2
<1>9. IsFiniteSet(X) /\ Cardinality(X) <= need /\ Cardinality(X) \in Nat
  <2> DEFINE I == 1 .. need
  <2>1. IsFiniteSet(I) /\ Cardinality(I) = need
    BY <1>2, FS_Interval
  <2> HIDE DEF I
  <2>2. IsFiniteSet({new[i] : i \in I}) /\ Cardinality({new[i] : i \in I}) <= Cardinality(I)
    BY <2>1, ImageSize
  <2> QED BY <2>1, <2>2, FS_CardinalityType DEF I, X
<1>10. RoomOf(t, rq2) + Cardinality(X) >= RoomOf(t, rq)
  BY <1>8, <1>9, RoomShrinks
<1> QED BY <1>2, <1>7, <1>9, <1>10, RoomNat

-----------------------------------------------------------------------------
(* The pages of an extend batch *)

\* The pages the requests of S are still to be given, each as a request and a
\* number.
PagesFor(rq, S) ==
  UNION {{r} \X (CeilPages(rq[r].prefix) + 1 .. CeilPages(rq[r].extend_end)) : r \in S}

\* The union of a block for each member of S, kept apart.
Blocks(g, S) == UNION {{r} \X g[r] : r \in S}

\* One block more.
LEMMA AnotherBlock ==
  ASSUME NEW S, NEW x, x \notin S, NEW g, IsFiniteSet(Blocks(g, S)),
         IsFiniteSet(g[x]), NEW T, T = S \cup {x}
  PROVE  /\ IsFiniteSet(Blocks(g, T))
         /\ Cardinality(Blocks(g, T))
              = Cardinality(Blocks(g, S)) + Cardinality(g[x])
<1> DEFINE A == Blocks(g, S)
           B == {x} \X g[x]
<1>1. Blocks(g, T) = A \cup B
  BY DEF Blocks
<1>2. A \cap B = {}
  BY DEF Blocks
<1>3. IsFiniteSet(B) /\ Cardinality(B) = Cardinality(g[x])
  <2>1. IsFiniteSet({x}) /\ Cardinality({x}) = 1
    BY FS_Singleton
  <2>2. IsFiniteSet(B) /\ Cardinality(B) = Cardinality({x}) * Cardinality(g[x])
    BY <2>1, FS_Product
  <2> QED BY <2>1, <2>2, FS_CardinalityType
<1> HIDE DEF A, B
<1>4. IsFiniteSet(A)
  BY DEF A
<1>5. IsFiniteSet(A \cup B)
      /\ Cardinality(A \cup B) = Cardinality(A) + Cardinality(B) - Cardinality(A \cap B)
  BY <1>3, <1>4, FS_Union
<1>6. Cardinality(A \cap B) = 0 /\ Cardinality(A) \in Nat /\ Cardinality(B) \in Nat
  BY <1>2, <1>3, <1>4, FS_EmptySet, FS_CardinalityType
<1>7. IsFiniteSet(A \cup B) /\ Cardinality(A \cup B) = Cardinality(A) + Cardinality(g[x])
  BY <1>3, <1>5, <1>6
<1> QED BY <1>1, <1>7 DEF A

\* Finitely many finite blocks.
LEMMA BlocksFinite ==
  ASSUME NEW S, IsFiniteSet(S), NEW g, \A x \in S : IsFiniteSet(g[x])
  PROVE  IsFiniteSet(Blocks(g, S))
<1> DEFINE h == [r \in S |-> {r} \X g[r]]
           H == {h[r] : r \in S}
<1>1. IsFiniteSet(H)
  <2> HIDE DEF h
  <2> QED BY ImageSize
<1>2. ASSUME NEW B \in H PROVE IsFiniteSet(B)
  <2>1. PICK x \in S : B = {x} \X g[x]
    BY <1>2
  <2>2. IsFiniteSet({x}) /\ IsFiniteSet(g[x])
    BY FS_Singleton
  <2> QED BY <2>1, <2>2, FS_Product
<1>3. UNION H = Blocks(g, S)
  BY DEF Blocks
<1> HIDE DEF H
<1>4. IsFiniteSet(UNION H)
  BY <1>1, <1>2, FS_UNION
<1> QED BY <1>3, <1>4

\* A bound on each block, up to k, is one on all of them, up to k for each.
LEMMA BlocksBound ==
  ASSUME NEW S, IsFiniteSet(S), NEW g, NEW h, NEW k \in Nat, NEW w \in Nat,
         \A x \in S : /\ IsFiniteSet(g[x]) /\ IsFiniteSet(h[x])
                      /\ w * Cardinality(g[x]) <= Cardinality(h[x]) + k
  PROVE  w * Cardinality(Blocks(g, S))
           <= Cardinality(Blocks(h, S)) + k * Cardinality(S)
<1> DEFINE G(T) == Blocks(g, T)
           H(T) == Blocks(h, T)
           Bad == {T \in SUBSET S : ~(w * Cardinality(G(T)) <= Cardinality(H(T)) + k * Cardinality(T))}
           N == {Cardinality(T) : T \in Bad}
<1>1. \A T \in SUBSET S : IsFiniteSet(T) /\ Cardinality(T) \in Nat
  BY FS_Subset, FS_CardinalityType
<1>2. ASSUME NEW T \in SUBSET S
      PROVE  IsFiniteSet(G(T)) /\ IsFiniteSet(H(T)) /\ Cardinality(G(T)) \in Nat /\ Cardinality(H(T)) \in Nat
  <2>1. IsFiniteSet(T) /\ \A x \in T : IsFiniteSet(g[x]) /\ IsFiniteSet(h[x])
    BY <1>1
  <2>2. IsFiniteSet(G(T)) /\ IsFiniteSet(H(T))
    BY <2>1, BlocksFinite
  <2> QED BY <2>2, FS_CardinalityType
<1> SUFFICES ASSUME S \in Bad PROVE FALSE
  OBVIOUS
<1>3. N \in SUBSET Nat /\ N # {}
  BY <1>1
<1> HIDE DEF N
<1>4. PICK z \in N : \A y \in N : z <= y
  BY <1>3, LeastNatural
<1>5. PICK T \in Bad : z = Cardinality(T)
  BY <1>4 DEF N
<1>6. T \in SUBSET S /\ IsFiniteSet(T) /\ ~(w * Cardinality(G(T)) <= Cardinality(H(T)) + k * Cardinality(T))
  BY <1>5, <1>1
<1>7. T # {}
  <2> SUFFICES ASSUME T = {} PROVE FALSE
    OBVIOUS
  <2>1. G(T) = {} /\ H(T) = {}
    BY DEF Blocks
  <2> HIDE DEF G, H
  <2>2. Cardinality(G(T)) = 0 /\ Cardinality(H(T)) = 0 /\ Cardinality(T) = 0
    BY <2>1, FS_EmptySet
  <2> QED BY <2>2, <1>6
<1>8. PICK x \in T : TRUE
  BY <1>7
<1> DEFINE U == T \ {x}
<1>9. U \in SUBSET S /\ x \notin U /\ T = U \cup {x} /\ x \in S
  BY <1>6
<1> HIDE DEF U
<1>10. IsFiniteSet(U) /\ Cardinality(T) = Cardinality(U) + 1 /\ Cardinality(U) \in Nat
  <2>1. IsFiniteSet(U) /\ Cardinality(U) \in Nat
    BY <1>9, <1>1
  <2>2. Cardinality(U \cup {x}) = IF x \in U THEN Cardinality(U) ELSE Cardinality(U) + 1
    BY <2>1, FS_AddElement
  <2> QED BY <2>1, <2>2, <1>9
<1>11. U \notin Bad
  <2> SUFFICES ASSUME U \in Bad PROVE FALSE
    OBVIOUS
  <2>1. Cardinality(U) \in N
    BY DEF N
  <2>2. Cardinality(T) <= Cardinality(U)
    BY <2>1, <1>4, <1>5
  <2> QED BY <2>2, <1>10
<1>12. w * Cardinality(G(U)) <= Cardinality(H(U)) + k * Cardinality(U)
  BY <1>9, <1>11
<1>13. Cardinality(G(T)) = Cardinality(G(U)) + Cardinality(g[x])
  <2>1. IsFiniteSet(Blocks(g, U)) /\ IsFiniteSet(g[x])
    BY <1>2, <1>9
  <2> QED BY <2>1, <1>9, AnotherBlock
<1>14. Cardinality(H(T)) = Cardinality(H(U)) + Cardinality(h[x])
  <2>1. IsFiniteSet(Blocks(h, U)) /\ IsFiniteSet(h[x])
    BY <1>2, <1>9
  <2> QED BY <2>1, <1>9, AnotherBlock
<1>15. Cardinality(G(U)) \in Nat /\ Cardinality(H(U)) \in Nat
  BY <1>2, <1>9
<1>16. Cardinality(g[x]) \in Nat /\ Cardinality(h[x]) \in Nat
       /\ w * Cardinality(g[x]) <= Cardinality(h[x]) + k
  BY <1>9, FS_CardinalityType
<1> HIDE DEF G, H, Bad
<1>17. w * Cardinality(G(T)) = w * Cardinality(G(U)) + w * Cardinality(g[x])
       /\ k * Cardinality(T) = k * Cardinality(U) + k
  BY <1>10, <1>13, <1>15, <1>16
<1>18. /\ w * Cardinality(G(U)) \in Nat /\ w * Cardinality(g[x]) \in Nat /\ k * Cardinality(U) \in Nat
  BY <1>10, <1>15, <1>16
<1> QED BY <1>6, <1>12, <1>14, <1>15, <1>16, <1>17, <1>18

\* The lengths of a record that is extended.
SpanOK(q) == q.prefix \in Nat /\ q.extend_end \in Nat /\ q.prefix <= q.extend_end

PagesOfSpan(q) == CeilPages(q.prefix) + 1 .. CeilPages(q.extend_end)

\* The pages and the tokens of one request's span.
LEMMA SpanSize ==
  ASSUME NEW q, SpanOK(q)
  PROVE  /\ IsFiniteSet(PagesOfSpan(q))
         /\ Cardinality(PagesOfSpan(q)) = CeilPages(q.extend_end) - CeilPages(q.prefix)
         /\ CeilPages(q.extend_end) \in Nat /\ CeilPages(q.prefix) \in Nat
         /\ CeilPages(q.prefix) <= CeilPages(q.extend_end)
         /\ IsFiniteSet(q.prefix + 1 .. q.extend_end)
         /\ PageSize * Cardinality(PagesOfSpan(q))
              <= Cardinality(q.prefix + 1 .. q.extend_end) + (IF PageSize = 1 THEN 0 ELSE PageSize)
<1> DEFINE e == CeilPages(q.extend_end)
           p == CeilPages(q.prefix)
<1>1. /\ e \in Nat /\ q.extend_end <= e * PageSize /\ e * PageSize < q.extend_end + PageSize
      /\ p \in Nat /\ q.prefix <= p * PageSize /\ p * PageSize < q.prefix + PageSize
      /\ q.prefix \in Nat /\ q.extend_end \in Nat /\ q.prefix <= q.extend_end
  BY CeilFacts DEF SpanOK
<1>2. p <= e
  BY CeilMono DEF SpanOK
<1> HIDE DEF e, p
<1>3. IsFiniteSet(p + 1 .. e) /\ Cardinality(p + 1 .. e) = e - p
  <2>1. p + 1 \in Int /\ e \in Int
    BY <1>1
  <2>2. IsFiniteSet(p + 1 .. e)
        /\ Cardinality(p + 1 .. e) = IF p + 1 > e THEN 0 ELSE e - (p + 1) + 1
    BY <2>1, FS_Interval
  <2> QED BY <2>2, <1>1, <1>2
<1>4. IsFiniteSet(q.prefix + 1 .. q.extend_end)
      /\ Cardinality(q.prefix + 1 .. q.extend_end) = q.extend_end - q.prefix
  <2> DEFINE u == q.prefix
             v == q.extend_end
  <2>0. u \in Nat /\ v \in Nat /\ u <= v
    BY <1>1
  <2> HIDE DEF u, v
  <2>1. u + 1 \in Int /\ v \in Int
    BY <2>0
  <2>2. IsFiniteSet(u + 1 .. v)
        /\ Cardinality(u + 1 .. v) = IF u + 1 > v THEN 0 ELSE v - (u + 1) + 1
    BY <2>1, FS_Interval
  <2>3. Cardinality(u + 1 .. v) = v - u
    BY <2>0, <2>2
  <2> QED BY <2>2, <2>3 DEF u, v
<1>5. PageSize * (e - p) <= (q.extend_end - q.prefix) + (IF PageSize = 1 THEN 0 ELSE PageSize)
  <2>1. PageSize * (e - p) = e * PageSize - p * PageSize /\ e * PageSize \in Nat /\ p * PageSize \in Nat
    BY <1>1, PageSizeAssumption
  <2> QED BY <2>1, <1>1, PageSizeAssumption
<1> QED BY <1>1, <1>2, <1>3, <1>4, <1>5 DEF PagesOfSpan, e, p

\* The pages of no request, and of one more.
LEMMA PagesForFacts ==
  ASSUME NEW rq, NEW S \in SUBSET Req, \A x \in S : SpanOK(rq[x])
  PROVE  /\ IsFiniteSet(PagesFor(rq, S)) /\ Cardinality(PagesFor(rq, S)) \in Nat
         /\ S = {} => Cardinality(PagesFor(rq, S)) = 0
         /\ \A r \in Req : r \notin S /\ SpanOK(rq[r]) =>
              Cardinality(PagesFor(rq, S \cup {r}))
                = Cardinality(PagesFor(rq, S)) + (CeilPages(rq[r].extend_end) - CeilPages(rq[r].prefix))
         /\ \A r \in S : Cardinality(PagesFor(rq, S))
                = Cardinality(PagesFor(rq, S \ {r})) + (CeilPages(rq[r].extend_end) - CeilPages(rq[r].prefix))
<1> DEFINE g == [r \in Req |-> PagesOfSpan(rq[r])]
<1>1. \A T \in SUBSET Req : PagesFor(rq, T) = Blocks(g, T)
  BY DEF PagesFor, PagesOfSpan, Blocks
<1>2. \A x \in Req : SpanOK(rq[x]) => /\ IsFiniteSet(g[x])
                                      /\ Cardinality(g[x]) = CeilPages(rq[x].extend_end) - CeilPages(rq[x].prefix)
  BY SpanSize
<1> HIDE DEF g
<1>3. ASSUME NEW T \in SUBSET Req, \A x \in T : SpanOK(rq[x])
      PROVE  IsFiniteSet(PagesFor(rq, T)) /\ Cardinality(PagesFor(rq, T)) \in Nat
  <2>1. IsFiniteSet(T) /\ \A x \in T : IsFiniteSet(g[x])
    BY <1>2, <1>3, ReqAssumption, FS_Subset
  <2>2. IsFiniteSet(Blocks(g, T))
    BY <2>1, BlocksFinite
  <2>3. IsFiniteSet(PagesFor(rq, T))
    BY <2>2, <1>1
  <2> QED BY <2>3, FS_CardinalityType
<1>4. ASSUME NEW T \in SUBSET Req, \A x \in T : SpanOK(rq[x]), NEW r \in Req, r \notin T, SpanOK(rq[r])
      PROVE  Cardinality(PagesFor(rq, T \cup {r}))
                = Cardinality(PagesFor(rq, T)) + (CeilPages(rq[r].extend_end) - CeilPages(rq[r].prefix))
  <2>1. IsFiniteSet(Blocks(g, T)) /\ IsFiniteSet(g[r])
    BY <1>1, <1>2, <1>3, <1>4
  <2>2. Cardinality(Blocks(g, T \cup {r}))
          = Cardinality(Blocks(g, T)) + Cardinality(g[r])
    BY <2>1, <1>4, AnotherBlock
  <2>3. T \cup {r} \in SUBSET Req
    OBVIOUS
  <2>4. Cardinality(PagesFor(rq, T \cup {r})) = Cardinality(PagesFor(rq, T)) + Cardinality(g[r])
    BY <2>2, <2>3, <1>1
  <2> QED BY <2>4, <1>2, <1>4
<1>5. S = {} => Cardinality(PagesFor(rq, S)) = 0
  <2>1. S = {} => PagesFor(rq, S) = {}
    BY DEF PagesFor
  <2> QED BY <2>1, FS_EmptySet
<1>6. ASSUME NEW r \in S
      PROVE  Cardinality(PagesFor(rq, S))
                = Cardinality(PagesFor(rq, S \ {r})) + (CeilPages(rq[r].extend_end) - CeilPages(rq[r].prefix))
  <2>1. S \ {r} \in SUBSET Req /\ (S \ {r}) \cup {r} = S /\ r \in Req /\ r \notin S \ {r} /\ SpanOK(rq[r])
    OBVIOUS
  <2>2. \A x \in S \ {r} : SpanOK(rq[x])
    OBVIOUS
  <2>3. Cardinality(PagesFor(rq, (S \ {r}) \cup {r}))
                = Cardinality(PagesFor(rq, S \ {r})) + (CeilPages(rq[r].extend_end) - CeilPages(rq[r].prefix))
    BY <2>1, <2>2, <1>4
  <2> QED BY <2>1, <2>3
<1> QED BY <1>3, <1>4, <1>5, <1>6

\* The demand of an extend batch covers its pages.
LEMMA DemandCovers ==
  ASSUME todo \in SUBSET Req, \A x \in todo : SpanOK(req[x]), ReqsOf(batch) = {}
  PROVE  /\ ExtendDemand \in Nat
         /\ ExtendDemand >= PageSize * Cardinality(PagesFor(req, todo))
<1> DEFINE g == [r \in Req |-> PagesOfSpan(req[r])]
           h == [r \in Req |-> req[r].prefix + 1 .. req[r].extend_end]
           k == IF PageSize = 1 THEN 0 ELSE PageSize
<1>1. PagesFor(req, todo) = Blocks(g, todo)
  BY DEF PagesFor, PagesOfSpan, Blocks
<1>2. ExtendTokens(todo) = Blocks(h, todo)
  BY DEF ExtendTokens, Blocks
<1>3. \A x \in todo : /\ IsFiniteSet(g[x]) /\ IsFiniteSet(h[x])
                      /\ PageSize * Cardinality(g[x]) <= Cardinality(h[x]) + k
  BY SpanSize
<1> HIDE DEF g, h
<1>4. IsFiniteSet(todo) /\ Cardinality(todo) \in Nat
  BY ReqAssumption, FS_Subset, FS_CardinalityType
<1>5. PageSize * Cardinality(Blocks(g, todo))
        <= Cardinality(Blocks(h, todo)) + k * Cardinality(todo)
  <2>1. k \in Nat /\ PageSize \in Nat
    BY PageSizeAssumption
  <2>2. \A x \in todo : /\ IsFiniteSet(g[x]) /\ IsFiniteSet(h[x])
                        /\ PageSize * Cardinality(g[x]) <= Cardinality(h[x]) + k
    BY <1>3
  <2> DEFINE w == PageSize
             S == todo
  <2> HIDE DEF k, w, S
  <2>3. w \in Nat /\ \A x \in S : /\ IsFiniteSet(g[x]) /\ IsFiniteSet(h[x])
                                 /\ w * Cardinality(g[x]) <= Cardinality(h[x]) + k
    BY <2>1, <2>2 DEF w, S
  <2>4. IsFiniteSet(S)
    BY <1>4 DEF S
  <2>5. w * Cardinality(Blocks(g, S))
          <= Cardinality(Blocks(h, S)) + k * Cardinality(S)
    BY <2>1, <2>3, <2>4, BlocksBound
  <2> QED BY <2>5 DEF w, S
<1>6. Cardinality(ExtendTokens(todo)) \in Nat
  <2>1. IsFiniteSet(Blocks(h, todo))
    BY <1>3, <1>4, BlocksFinite
  <2> QED BY <2>1, <1>2, FS_CardinalityType
<1>7. k * Cardinality(todo) = (IF PageSize = 1 THEN 0 ELSE PageSize * Cardinality(todo))
      /\ k * Cardinality(todo) \in Nat
  BY <1>4, PageSizeAssumption
<1> HIDE DEF k
<1>8. ExtendDemand = Cardinality(ExtendTokens(todo)) + k * Cardinality(todo)
  BY <1>7 DEF ExtendDemand
<1> QED BY <1>1, <1>2, <1>5, <1>6, <1>7, <1>8

-----------------------------------------------------------------------------
(* The invariant *)

Building == pc \in {"admit", "extend"}

PagesToGive == IF Building THEN Cardinality(PagesFor(req, todo)) ELSE 0

\* The pages of the part of a chunked prompt that no pass has added yet.
ChunkRest ==
  IF chunked = NoReq THEN 0
  ELSE CeilPages(Len(Fill(chunked))) - CeilPages(req[chunked].extend_end)

\* An extend batch is put together or launched, or was the last one, or will
\* be: a prompt is in chunks.
Promised ==
  \/ chunked # NoReq
  \/ Building /\ todo # {}
  \/ pc \in {"recv", "admit", "decode", "retract"} /\ last_batch.kind = "extend"
  \/ pc \in {"extend", "process"} /\ batch.kind = "extend"

PromiseKept == Promised => RoomOf(tree, req) >= PagesToGive + ChunkRest + 1

\* total_offset covers the pages of the requests added so far.
PassCharged == pc = "admit" => offset >= PageSize * Cardinality(PagesFor(req, todo))

\* Once a batch is being allocated the free list has the rest of its pages.
BatchServed ==
  /\ pc = "extend" /\ ReqsOf(batch) # {} =>
       Cardinality(FreePages(free)) >= Cardinality(PagesFor(req, todo))
  /\ pc = "alloc_decode" => AvailableSize(free) >= DecodeNeed(todo)

RowsFit == Cardinality(LockedIn(req)) <= ReqRows

\* What a request may generate fits into an empty pool.
ClippedTo(q) ==
  q.phase \in {"waiting", "admitted", "running"} => Len(q.prompt) + q.max_new < Capacity

Clipped == \A r \in Req : ClippedTo(req[r])

\* The requests of a decode batch that hold KV are still in the running batch.
DecodingStays ==
  /\ pc \in {"recv", "admit", "decode", "retract"} /\ last_batch.kind = "decode" =>
       \A x \in ReqsOf(last_batch) : HoldsKV(x) => x \in running
  /\ batch.kind = "decode" => \A x \in ReqsOf(batch) : HoldsKV(x) => x \in running

\* retract_decode runs when everything reclaimable is free and is not enough,
\* and no result in flight is the last of a running request.
Squeezed ==
  pc = "retract" =>
    /\ FreePages(free) = Reclaimable(tree, req)
    /\ AvailableSize(free) < DecodeNeed(running)
    /\ running # {}
    /\ Overlap => \A x \in running \cap ReqsOf(last_batch) : ~NextOutputFinishesByLength(x)

Headroom ==
  /\ AllocationNeverFails
  /\ PromiseKept /\ PassCharged /\ BatchServed
  /\ RowsFit /\ Clipped /\ DecodingStays /\ Squeezed

-----------------------------------------------------------------------------
(* Parts that most steps leave alone *)

\* r is not locked anew, and keeps its text and limit.
NarrowAt(r) ==
  /\ OnlyAt(req, req', r)
  /\ req'[r].phase \in {"admitted", "running"} => req[r].phase \in {"admitted", "running"}
  /\ req'[r].phase \in {"waiting", "admitted", "running"} =>
       /\ req[r].phase \in {"waiting", "admitted", "running"}
       /\ req'[r].prompt = req[r].prompt /\ req'[r].max_new = req[r].max_new

\* Fewer requests hold rows.
LEMMA RowsKeep ==
  ASSUME RowsFit, LockedIn(req') \subseteq LockedIn(req)
  PROVE  RowsFit'
<1> DEFINE A == LockedIn(req')
           B == LockedIn(req)
<1>1. IsFiniteSet(B) /\ A \in SUBSET B
  BY LockedFinite
<1> HIDE DEF A, B
<1>2. Cardinality(A) <= Cardinality(B) /\ Cardinality(A) \in Nat /\ Cardinality(B) \in Nat
  BY <1>1, FS_Subset, FS_CardinalityType
<1> QED BY <1>2, BoundsAssumption DEF RowsFit, LockedIn, A, B

\* Such a step takes no row and changes no limit.
LEMMA NarrowKeeps ==
  ASSUME NEW r \in Req, NarrowAt(r), RowsFit, Clipped
  PROVE  RowsFit' /\ Clipped' /\ LockedIn(req') \subseteq LockedIn(req)
<1>1. \A x \in Req : x # r => req'[x] = req[x]
  BY DEF NarrowAt, OnlyAt
<1>2. LockedIn(req') \subseteq LockedIn(req)
  BY <1>1 DEF NarrowAt, LockedIn
<1>3. ASSUME NEW x \in Req PROVE ClippedTo(req'[x])
  BY <1>1 DEF NarrowAt, Clipped, ClippedTo
<1> QED BY <1>2, <1>3, RowsKeep DEF Clipped, ClippedTo

\* The chunked request, if there is one, has as much to go.
LEMMA ChunkRestKeeps ==
  ASSUME chunked' = chunked,
         chunked # NoReq => /\ req'[chunked].prompt = req[chunked].prompt
                            /\ req'[chunked].out = req[chunked].out
                            /\ req'[chunked].extend_end = req[chunked].extend_end
  PROVE  ChunkRest' = ChunkRest
BY DEF ChunkRest, Fill

\* It has a natural number of pages to go.
LEMMA ChunkRestNat ==
  ASSUME Control, Memory
  PROVE  ChunkRest \in Nat
<1>1. CASE chunked = NoReq
  BY <1>1 DEF ChunkRest
<1>2. CASE chunked # NoReq
  <2>1. chunked \in Req /\ req[chunked].phase \in {"admitted", "running"}
    BY <1>2 DEF Control, LoopInv, TypeOK, Placed, ChunkIs, HoldsKV
  <2>2. req[chunked].extend_end \in Nat /\ Len(Fill(chunked)) \in Nat
        /\ req[chunked].extend_end <= Len(Fill(chunked))
    BY <2>1, LockedRecord
  <2> DEFINE a == CeilPages(Len(Fill(chunked)))
             b == CeilPages(req[chunked].extend_end)
  <2>3. a \in Nat /\ b \in Nat
    BY <2>2, CeilFacts
  <2>4. b <= a
    BY <2>2, CeilMono
  <2>5. ChunkRest = a - b
    BY <1>2 DEF ChunkRest
  <2> HIDE DEF a, b
  <2> QED BY <2>3, <2>4, <2>5
<1> QED BY <1>1, <1>2

\* The requests that decode stay in the running batch.
LEMMA DecodingKeeps ==
  ASSUME Control, DecodingStays, UNCHANGED <<batch, last_batch>>,
         pc' \in {"recv", "admit", "decode", "retract"} => pc \in {"recv", "admit", "decode", "retract"},
         pc' \in {"recv", "admit", "decode", "retract"} \/ batch.kind = "decode" =>
           \A x \in Req : HoldsKV(x)' => HoldsKV(x) /\ (x \in running => x \in running')
  PROVE  DecodingStays'
<1>1. ReqsOf(batch) \subseteq Req /\ ReqsOf(last_batch) \subseteq Req
  BY BatchReqs DEF Control
<1>2. ReqsOf(batch)' = ReqsOf(batch) /\ ReqsOf(last_batch)' = ReqsOf(last_batch)
  BY DEF ReqsOf
<1> QED BY <1>1, <1>2 DEF DecodingStays

\* A step at which everything that is promised was promised before.
LEMMA PromiseKeeps ==
  ASSUME Control, Memory, PromiseKept, Promised' => Promised, ChunkRest' = ChunkRest,
         Promised => PagesToGive' = PagesToGive,
         RoomOf(tree', req') >= RoomOf(tree, req)
  PROVE  PromiseKept'
<1>1. ChunkRest \in Nat /\ RoomOf(tree, req) \in Nat /\ RoomOf(tree', req') \in Nat
  BY ChunkRestNat, RoomNat
<1> SUFFICES ASSUME Promised' PROVE RoomOf(tree', req') >= PagesToGive' + ChunkRest' + 1
  BY DEF PromiseKept, RoomOf, Reclaimable, Busy, BusyOf, LockedIn, RowPages, PrefixPages
<1>2. RoomOf(tree, req) >= PagesToGive + ChunkRest + 1
  BY DEF PromiseKept
<1>3. PagesToGive + ChunkRest + 1 = PagesToGive' + ChunkRest' + 1
  OBVIOUS
<1>4. PagesToGive \in Nat
  <2>1. CASE ~Building
    BY <2>1 DEF PagesToGive
  <2>2. CASE Building
    <3>1. todo \in SUBSET Req /\ \A x \in todo : req[x].phase \in {"admitted", "running"}
      BY <2>2 DEF Building, Control, LoopInv, TypeOK, Placed, TodoIs, ToExtend, HoldsKV
    <3>2. \A x \in todo : SpanOK(req[x])
      BY <3>1 DEF Memory, Sizes, RecordOK, SpanOK
    <3> QED BY <3>1, <3>2, <2>2, PagesForFacts DEF PagesToGive
  <2> QED BY <2>1, <2>2
<1> QED BY <1>1, <1>2, <1>3, <1>4

\* Outside a pass, an allocation and a retraction these parts are left.
LEMMA Elsewhere ==
  ASSUME pc' \in {"recv", "decode", "process"}, PromiseKept', RowsFit', Clipped', DecodingStays'
  PROVE  Headroom'
BY DEF Headroom, AllocationNeverFails, PassCharged, BatchServed, Squeezed

-----------------------------------------------------------------------------
(* Clients *)

\* A client's step puts no page in use.
LEMMA RecvHeadroom ==
  ASSUME Control, Memory, Headroom, pc = "recv", Clipped',
         UNCHANGED <<tree, free, pc, todo, running, chunked, batch, last_batch>>,
         \A x \in Req : \/ SameMemory(req'[x], req[x])
                        \/ /\ req[x].phase \notin {"admitted", "running"}
                           /\ req'[x].phase \notin {"admitted", "running"}
  PROVE  Headroom'
<1>0. \A x \in Req : req'[x].phase \in {"admitted", "running"} => SameMemory(req'[x], req[x])
  OBVIOUS
<1>1. /\ LockedIn(req') \subseteq LockedIn(req)
      /\ \A x \in LockedIn(req') : /\ req'[x].phase = req[x].phase /\ req'[x].row = req[x].row
                                   /\ req'[x].lock = req[x].lock
  BY <1>0 DEF LockedIn, SameMemory, SameRow
<1>2. RoomOf(tree', req') >= RoomOf(tree, req)
  BY <1>1, BusyKeeps, RoomGrows
<1>3. RowsFit'
  BY <1>1, RowsKeep DEF Headroom
<1>4. DecodingStays'
  <2>1. \A x \in Req : HoldsKV(x)' => HoldsKV(x)
    BY <1>0 DEF HoldsKV, SameMemory
  <2> QED BY <2>1, DecodingKeeps DEF Headroom
<1>5. ChunkRest' = ChunkRest
  <2>1. ASSUME chunked # NoReq PROVE SameMemory(req'[chunked], req[chunked])
    <3>1. chunked \in Req /\ req[chunked].phase \in {"admitted", "running"}
      BY <2>1 DEF Control, LoopInv, TypeOK, Placed, ChunkIs, HoldsKV
    <3> QED BY <3>1
  <2> QED BY <2>1, ChunkRestKeeps DEF SameMemory
<1>6. PromiseKept'
  <2>1. Promised' => Promised
    BY DEF Promised, Building
  <2>2. PagesToGive' = 0 /\ PagesToGive = 0
    BY DEF PagesToGive, Building
  <2> QED BY <2>1, <2>2, <1>2, <1>5, PromiseKeeps DEF Headroom
<1> QED BY <1>3, <1>4, <1>6, Elsewhere

\* The smallest of three integers is at most the second.
LEMMA MinThreeBound ==
  ASSUME NEW a \in Int, NEW b \in Int, NEW c \in Int
  PROVE  Min({a, b, c}) <= b
<1>1. \E x \in {a, b, c} : \A y \in {a, b, c} : x <= y
  OBVIOUS
<1> QED BY <1>1 DEF Min

\* A clipped integer is 0 or that integer.
LEMMA MaxZeroIs ==
  ASSUME NEW a \in Int
  PROVE  Max({0, a}) \in {0, a}
<1>1. \E x \in {0, a} : \A y \in {0, a} : x >= y
  OBVIOUS
<1> QED BY <1>1 DEF Max

\* A new request's output is clipped to the pool.
LEMMA NewReqClipped ==
  ASSUME NEW p \in Prompts
  PROVE  ClippedTo(NewReq(p))
<1>1. p \in Key /\ Len(p) \in Nat
  BY PromptsAssumption, PrefixLen
<1>2. Cardinality(Page) \in Nat
  BY PageAssumption, FS_CardinalityType
<1>3. Capacity \in Int
  BY <1>2, PageSizeAssumption DEF Capacity
<1>4. PagedTokens(Len(p)) \in Int
  <2>1. CeilPages(Len(p)) \in Nat
    BY <1>1, CeilFacts
  <2> QED BY <2>1, PageSizeAssumption DEF PagedTokens
<1>5. Len(p) + MaxNew(p) < Capacity
  <2> DEFINE b == (Capacity - 1) - Len(p) - 1
             c == Capacity - PagedTokens(Len(p)) - PageSize - 1
             m == Min({MaxNewTokens, b, c})
  <2>1. b \in Int /\ c \in Int /\ MaxNewTokens \in Int
    BY <1>1, <1>3, <1>4, PageSizeAssumption, BoundsAssumption
  <2>2. m \in Int /\ m <= b
    <3> HIDE DEF b, c
    <3> QED BY <2>1, MinThree, MinThreeBound
  <2>3. MaxNew(p) = Max({0, m})
    BY DEF MaxNew
  <2>4. Len(p) < Capacity
    BY <1>1, <1>3, PromptsAssumption, BoundsAssumption DEF Capacity
  <2>5. Len(p) + m < Capacity
    <3> HIDE DEF m, c
    <3> QED BY <2>2, <1>1, <1>3
  <2> HIDE DEF m
  <2>6. MaxNew(p) \in {0, m}
    BY <2>2, <2>3, MaxZeroIs
  <2> QED BY <2>4, <2>5, <2>6, <1>1
<1> HIDE DEF MaxNew
<1> QED BY <1>5 DEF NewReq, ClippedTo

\* An arriving request keeps the headroom.
LEMMA ArriveHeadroom ==
  ASSUME Control, Memory, Headroom, NEW r \in Req, Arrive(r)
  PROVE  Headroom'
<1>1. PICK p \in Prompts : req' = [req EXCEPT ![r] = NewReq(p)]
  BY DEF Arrive
<1>2. DOMAIN req = Req
  BY DEF Control, LoopInv, TypeOK
<1>3. NewReq(p).phase = "waiting" /\ ClippedTo(NewReq(p))
  BY NewReqRecord, NewReqClipped
<1>4. req[r].phase \notin {"admitted", "running"}
  BY DEF Arrive, Finished
<1>5. \A x \in Req : \/ SameMemory(req'[x], req[x])
                     \/ /\ req[x].phase \notin {"admitted", "running"}
                        /\ req'[x].phase \notin {"admitted", "running"}
  BY <1>1, <1>2, <1>3, <1>4 DEF SameMemory, SameRow
<1>6. Clipped'
  <2>1. \A x \in Req : ClippedTo(req'[x])
    BY <1>1, <1>2, <1>3 DEF Headroom, Clipped
  <2> QED BY <2>1 DEF Clipped, ClippedTo
<1> QED BY <1>5, <1>6, RecvHeadroom DEF Arrive, treeVars, loopVars, passVars, batchVars

\* So does a waiting request that is dropped.
LEMMA AbortWaitingHeadroom ==
  ASSUME Control, Memory, Headroom, NEW r \in Req, AbortWaiting(r)
  PROVE  Headroom'
<1>1. req' = [req EXCEPT ![r] = Finish(req[r])]
  BY DEF AbortWaiting
<1>2. DOMAIN req = Req
  BY DEF Control, LoopInv, TypeOK
<1>3. Finish(req[r]).phase = "finished"
  BY FinishedRecord
<1>4. req[r].phase \notin {"admitted", "running"}
  BY DEF AbortWaiting, Waiting
<1>5. \A x \in Req : \/ SameMemory(req'[x], req[x])
                     \/ /\ req[x].phase \notin {"admitted", "running"}
                        /\ req'[x].phase \notin {"admitted", "running"}
  BY <1>1, <1>2, <1>3, <1>4 DEF SameMemory, SameRow
<1>6. Clipped'
  <2>1. \A x \in Req : ClippedTo(req'[x])
    BY <1>1, <1>2, <1>3 DEF Headroom, Clipped, ClippedTo
  <2> QED BY <2>1 DEF Clipped, ClippedTo
<1> QED BY <1>5, <1>6, RecvHeadroom DEF AbortWaiting, treeVars, loopVars, passVars, batchVars

\* So does the mark of an abort.
LEMMA AbortInflightHeadroom ==
  ASSUME Control, Memory, Headroom, NEW r \in Req, AbortInflight(r)
  PROVE  Headroom'
<1>1. req' = [req EXCEPT ![r].to_finish = TRUE] /\ DOMAIN req = Req /\ DOMAIN req[r] = ReqFields
  BY DEF AbortInflight, Control, LoopInv, TypeOK, RequestsOK, ControlOK
<1>2. \A x \in Req : SameMemory(req'[x], req[x])
  BY <1>1 DEF SameMemory, SameRow, ReqFields
<1>3. Clipped'
  <2>1. \A x \in Req : ClippedTo(req'[x])
    BY <1>2 DEF Headroom, Clipped, ClippedTo, SameMemory
  <2> QED BY <2>1 DEF Clipped, ClippedTo
<1> QED BY <1>2, <1>3, RecvHeadroom DEF AbortInflight, treeVars, loopVars, passVars, batchVars

\* After flush_cache nothing is promised.
LEMMA FlushCacheHeadroom ==
  ASSUME Control, Memory, Headroom, FlushCache
  PROVE  Headroom'
<1>0. pc = "recv" /\ chunked = NoReq /\ req' = req /\ pc' = "recv" /\ chunked' = NoReq
      /\ last_batch' = NoBatch /\ batch' = batch /\ batch.kind = "none"
  BY AtRecv DEF FlushCache, FullyIdle, loopVars
<1>1. ~Promised'
  BY <1>0 DEF Promised, Building, NoBatch
<1>2. PromiseKept'
  BY <1>1 DEF PromiseKept
<1>3. RowsFit' /\ Clipped'
  BY <1>0 DEF Headroom, RowsFit, Clipped, ClippedTo, LockedIn
<1>4. DecodingStays'
  BY <1>0 DEF DecodingStays, NoBatch
<1> QED BY <1>0, <1>2, <1>3, <1>4, Elsewhere

-----------------------------------------------------------------------------
(* A scheduling pass begins *)

\* Between batches and while results are processed the locked requests have
\* their rows.
LEMMA LockedHaveRows ==
  ASSUME Control, pc \in {"recv", "decode", "retract", "alloc_decode", "process"}
  PROVE  LockedIn(req) \subseteq HoldersIn(req)
BY DEF LockedIn, HoldersIn, Control, Placed, Members

\* The pass begins with what was promised.
LEMMA BeginHeadroom ==
  ASSUME Control, Memory, Headroom, pc = "recv", BeginPass(req', chunked'),
         chunked' \in {chunked, NoReq}, ChunkRest' \in {ChunkRest, 0}, RowsFit', Clipped',
         RoomOf(tree', req') >= RoomOf(tree, req), \A x \in Req : HoldsKV(x)' => HoldsKV(x)
  PROVE  Headroom'
<1>1. /\ pc' = "admit" /\ UNCHANGED <<todo, batch, last_batch>>
      /\ running' = Merged(req', chunked') /\ offset' \in Int /\ offset' >= 0
  BY DEF BeginPass, batchVars
<1>2. /\ todo = {} /\ batch.kind = "none" /\ todo' = {}
  BY <1>1, AtRecv
<1>3. Cardinality(PagesFor(req', todo')) = 0
  BY <1>2, PagesForFacts
<1>4. Cardinality(PagesFor(req, todo))' = 0
  BY <1>3 DEF PagesFor
<1>5. PagesToGive' = 0 /\ PagesToGive = 0
  BY <1>1, <1>4 DEF PagesToGive, Building
<1>6. PassCharged'
  BY <1>1, <1>4, PageSizeAssumption DEF PassCharged
<1>7. PromiseKept'
  <2> SUFFICES ASSUME Promised' PROVE RoomOf(tree', req') >= PagesToGive' + ChunkRest' + 1
    BY DEF PromiseKept, RoomOf, Reclaimable, Busy, BusyOf, LockedIn, RowPages, PrefixPages
  <2>1. Promised
    BY <1>1, <1>2 DEF Promised, Building
  <2>2. RoomOf(tree, req) >= ChunkRest + 1
    BY <2>1, <1>5, ChunkRestNat DEF Headroom, PromiseKept
  <2>3. ChunkRest \in Nat /\ RoomOf(tree, req) \in Nat /\ RoomOf(tree', req') \in Nat
    BY ChunkRestNat, RoomNat
  <2> QED BY <2>2, <2>3, <1>5
<1>8. DecodingStays'
  <2> SUFFICES ASSUME last_batch.kind = "decode", NEW x \in ReqsOf(last_batch), HoldsKV(x)'
               PROVE  x \in running'
    BY <1>1, <1>2 DEF DecodingStays, ReqsOf
  <2>1. x \in Req
    BY BatchReqs DEF Control
  <2>2. x \in running
    BY <2>1 DEF Headroom, DecodingStays
  <2>3. req'[x].phase # "finished"
    BY DEF HoldsKV
  <2> QED BY <2>2, <2>3, <1>1 DEF Merged
<1> QED BY <1>1, <1>6, <1>7, <1>8 DEF Headroom, AllocationNeverFails, BatchServed, Squeezed

\* A pass without a chunked request keeps the headroom.
LEMMA ScheduleHeadroom ==
  ASSUME Control, Memory, Headroom, Schedule
  PROVE  Headroom'
<1>1. /\ pc = "recv" /\ chunked = NoReq /\ BeginPass(req, NoReq)
      /\ UNCHANGED <<tree, free, content, req, chunked>>
  BY DEF Schedule, treeVars
<1>2. BeginPass(req', chunked')
  BY <1>1
<1>3. RowsFit' /\ Clipped' /\ \A x \in Req : HoldsKV(x)' => HoldsKV(x)
  BY <1>1 DEF Headroom, RowsFit, Clipped, ClippedTo, LockedIn, HoldsKV
<1>4. RoomOf(tree', req') >= RoomOf(tree, req)
  BY <1>1, RoomNat
<1>5. ChunkRest' = ChunkRest
  BY <1>1, ChunkRestKeeps
<1> QED BY <1>1, <1>2, <1>3, <1>4, <1>5, BeginHeadroom

\* So does one that stashes the last chunk first.
LEMMA StashChunkHeadroom ==
  ASSUME Control, Memory, Headroom, StashChunk
  PROVE  Headroom'
<1> DEFINE q == req[chunked]
           n == q.extend_end
           a == Checkpoint(tree, q, n)
<1>1. /\ pc = "recv" /\ chunked # NoReq /\ BeginPass(req', chunked) /\ chunked' = chunked
      /\ IF q.extend_end > q.prefix THEN Effect(chunked, a, Resume(a.req))
         ELSE UNCHANGED <<treeVars, req>>
  BY DEF StashChunk
<1>2. DOMAIN req = Req /\ chunked \in Req /\ HoldsKV(chunked) /\ q.phase = "running"
  BY <1>1, AtRecv DEF Control, LoopInv, TypeOK, HoldsKV
<1>3. RecordOK(q) /\ ControlOK(q) /\ q.committed = q.extend_end
  <2>1. ~Extending(chunked)
    BY <1>1 DEF Extending
  <2> QED BY <1>1, <1>2, <2>1 DEF Memory, Sizes, StageOK, Control, RequestsOK
<1>4. n \in Nat /\ q.protected <= n /\ n <= q.committed
  BY <1>2, <1>3 DEF RecordOK
<1>5. BeginPass(req', chunked')
  BY <1>1
<1>6. CASE n > q.prefix
  <2>1. Effect(chunked, a, Resume(a.req))
    BY <1>1, <1>6
  <2>2. req'[chunked] = Resume(a.req) /\ OnlyAt(req, req', chunked)
    BY <2>1, <1>2 DEF Effect, OnlyAt
  <2>3. DOMAIN q = ReqFields
    BY <1>3 DEF ControlOK
  <2>4. MayCheckpoint(req, chunked, q, n)
    BY <1>2, <1>4, HolderMayCheckpoint
  <2>5. SameControl(a.req, q) /\ SameControl(Resume(a.req), q)
    BY <2>3, CheckpointControl
  <2>6. SameRow(Resume(a.req), Checkpoint(tree, q, n).req)
    <3>1. DOMAIN a.req = ReqFields
      BY <2>5 DEF SameControl
    <3> HIDE DEF a
    <3>2. SameRow(Resume(a.req), a.req)
      BY <3>1 DEF Resume, SameRow, ReqFields
    <3> QED BY <3>2 DEF a
  <2>7. req'[chunked].phase = "running"
    BY <2>2, <2>5, <1>2 DEF SameControl
  <2>8. CheckpointMade(tree, free, content, req, chunked, q, n, req')
    BY <2>2, <2>4, <2>6, <2>7 DEF CheckpointMade, Memory, PoolsOK
  <2>9. CheckpointRecord(q, n, Checkpoint(tree, q, n))
    BY <2>8, CheckpointStep
  <2> HIDE DEF a
  <2>10. CheckpointRecord(q, n, a)
    BY <2>9 DEF a
  <2>11. /\ Resume(a.req).extend_end = q.extend_end /\ Resume(a.req).out = q.out
         /\ Resume(a.req).max_new = q.max_new /\ Resume(a.req).prompt = q.prompt
    BY <2>10, <1>2, <1>3, <1>4, ResumedRecord
  <2>12. NarrowAt(chunked)
    BY <2>2, <2>7, <2>11, <1>2 DEF NarrowAt
  <2>13. RowsFit' /\ Clipped'
    BY <2>12, <1>2, NarrowKeeps DEF Headroom
  <2>14. RoomOf(tree', req') >= RoomOf(tree, req)
    BY <2>8, <1>1, LockedHaveRows, RoomCheckpoint
  <2>15. ChunkRest' = ChunkRest
    BY <2>2, <2>11, <1>1, ChunkRestKeeps
  <2>16. \A x \in Req : HoldsKV(x)' => HoldsKV(x)
    BY <2>2, <1>2 DEF OnlyAt, HoldsKV
  <2> QED BY <1>1, <1>5, <2>13, <2>14, <2>15, <2>16, BeginHeadroom
<1>7. CASE ~(n > q.prefix)
  <2>1. UNCHANGED <<tree, free, content, req>>
    BY <1>1, <1>7 DEF treeVars
  <2>2. RowsFit' /\ Clipped' /\ \A x \in Req : HoldsKV(x)' => HoldsKV(x)
    BY <2>1 DEF Headroom, RowsFit, Clipped, ClippedTo, LockedIn, HoldsKV
  <2>3. RoomOf(tree', req') >= RoomOf(tree, req)
    BY <2>1, RoomNat
  <2>4. ChunkRest' = ChunkRest
    BY <2>1, <1>1, ChunkRestKeeps
  <2> QED BY <1>1, <1>5, <2>2, <2>3, <2>4, BeginHeadroom
<1> QED BY <1>6, <1>7

\* So does one that tears down the chunked request first.
LEMMA AbortChunkHeadroom ==
  ASSUME Control, Memory, Headroom, AbortChunk
  PROVE  Headroom'
<1> DEFINE q == req[chunked]
<1>1. /\ pc = "recv" /\ chunked # NoReq /\ BeginPass(req', NoReq) /\ chunked' = NoReq
      /\ req' = [req EXCEPT ![chunked] = Finish(q)]
  BY DEF AbortChunk, Effect
<1>2. DOMAIN req = Req /\ chunked \in Req
  BY <1>1 DEF Control, LoopInv, TypeOK
<1>3. req'[chunked].phase = "finished" /\ OnlyAt(req, req', chunked)
  BY <1>1, <1>2, FinishedRecord DEF OnlyAt
<1>4. BeginPass(req', chunked')
  BY <1>1
<1>5. RoomOf(tree', req') >= RoomOf(tree, req)
  <2>1. LockedIn(req) \subseteq HoldersIn(req)
    BY <1>1, LockedHaveRows
  <2>2. req'[chunked].phase \notin {"admitted", "running"}
    BY <1>3
  <2>3. Busy(tree', req') \subseteq Busy(tree, req)
    BY <2>1, <2>2, <1>3, BusyRelease
  <2> QED BY <2>3, RoomGrows
<1>6. RowsFit' /\ Clipped'
  <2>1. NarrowAt(chunked)
    BY <1>3 DEF NarrowAt
  <2> QED BY <2>1, <1>2, NarrowKeeps DEF Headroom
<1>7. ChunkRest' = 0
  BY <1>1 DEF ChunkRest
<1>8. \A x \in Req : HoldsKV(x)' => HoldsKV(x)
  BY <1>3 DEF OnlyAt, HoldsKV
<1> QED BY <1>1, <1>4, <1>5, <1>6, <1>7, <1>8, BeginHeadroom

-----------------------------------------------------------------------------
(* The admission pass *)

\* The tokens of some pages.
LEMMA PageProducts ==
  ASSUME NEW i \in Int, NEW j \in Int
  PROVE  /\ PageSize * i \in Int
         /\ PageSize * (i + j) = PageSize * i + PageSize * j
         /\ PageSize * (i - j) = PageSize * i - PageSize * j
         /\ i <= j => PageSize * i <= PageSize * j
         /\ PageSize * i < PageSize * j => i < j
<1>1. PageSize \in Nat /\ PageSize > 0
  BY PageSizeAssumption
<1>2. PageSize * i \in Int /\ PageSize * j \in Int
      /\ PageSize * (i + j) = PageSize * i + PageSize * j
      /\ PageSize * (i - j) = PageSize * i - PageSize * j
  BY <1>1
<1>3. ASSUME i <= j PROVE PageSize * i <= PageSize * j
  BY <1>1, <1>3
<1>4. ASSUME PageSize * i < PageSize * j PROVE i < j
  <2> SUFFICES ASSUME j <= i PROVE FALSE
    OBVIOUS
  <2>1. PageSize * j <= PageSize * i
    BY <1>1
  <2> QED BY <2>1, <1>2, <1>4
<1> QED BY <1>2, <1>3, <1>4

\* Two texts together need no more pages than apart.
LEMMA CeilSum ==
  ASSUME NEW m \in Nat, NEW n \in Nat
  PROVE  CeilPages(m + n) <= CeilPages(m) + CeilPages(n)
<1> DEFINE a == CeilPages(m)
           b == CeilPages(n)
           c == CeilPages(m + n)
<1>1. a \in Nat /\ b \in Nat /\ m <= a * PageSize /\ n <= b * PageSize
  BY CeilFacts
<1>2. c \in Nat /\ c * PageSize < (m + n) + PageSize
  <2>1. m + n \in Nat
    OBVIOUS
  <2> QED BY <2>1, CeilFacts
<1> HIDE DEF a, b, c
<1>3. a * PageSize \in Nat /\ b * PageSize \in Nat /\ c * PageSize \in Nat
      /\ (a + b + 1) * PageSize = a * PageSize + b * PageSize + PageSize
  BY <1>1, <1>2, PageSizeAssumption
<1>4. c * PageSize < (a + b + 1) * PageSize
  BY <1>1, <1>2, <1>3, PageSizeAssumption
<1>5. c < a + b + 1
  <2>1. a + b + 1 \in Nat
    BY <1>1
  <2> QED BY <2>1, <1>2, <1>4, MulFacts
<1>6. c <= a + b
  BY <1>1, <1>2, <1>5
<1> QED BY <1>6 DEF a, b, c

\* The pages of a batch depend on how far its requests are extended.
LEMMA PagesForSame ==
  ASSUME NEW rq, NEW rq2, NEW S,
         \A x \in S : rq2[x].prefix = rq[x].prefix /\ rq2[x].extend_end = rq[x].extend_end
  PROVE  PagesFor(rq2, S) = PagesFor(rq, S)
<1>1. \A x \in S : {x} \X (CeilPages(rq2[x].prefix) + 1 .. CeilPages(rq2[x].extend_end))
                     = {x} \X (CeilPages(rq[x].prefix) + 1 .. CeilPages(rq[x].extend_end))
  OBVIOUS
<1> QED BY <1>1 DEF PagesFor

\* The requests of the batch that is put together.
LEMMA TodoSpans ==
  ASSUME Control, Memory, Building
  PROVE  /\ todo \in SUBSET Req /\ \A x \in todo : req[x].phase \in {"admitted", "running"}
         /\ \A x \in todo : SpanOK(req[x])
<1>1. todo \in SUBSET Req /\ \A x \in todo : req[x].phase \in {"admitted", "running"}
  BY DEF Building, Control, LoopInv, TypeOK, Placed, TodoIs, ToExtend, HoldsKV
<1> QED BY <1>1 DEF Memory, Sizes, RecordOK, SpanOK

\* What a step of the pass has to show.
LEMMA PassHeadroom ==
  ASSUME Control, Control', Headroom, pc = "admit", pc' = "admit", UNCHANGED <<running, last_batch>>,
         PromiseKept', PassCharged', RowsFit', Clipped', \A x \in Req : HoldsKV(x)' => HoldsKV(x)
  PROVE  Headroom'
<1>1. batch'.kind = "none"
  BY DEF Control, Placed, BatchesAre
<1>2. ReqsOf(last_batch) \subseteq Req /\ ReqsOf(last_batch)' = ReqsOf(last_batch)
  BY BatchReqs DEF Control, ReqsOf
<1>3. DecodingStays'
  BY <1>1, <1>2 DEF Headroom, DecodingStays
<1> QED BY <1>3 DEF Headroom, AllocationNeverFails, BatchServed, Squeezed

\* The next chunk takes its pages from what is left of its prompt.
LEMMA AddChunkedReqHeadroom ==
  ASSUME Control, Memory, Control', Headroom, AddChunkedReq
  PROVE  Headroom'
<1>0. PICK r : r = chunked
  OBVIOUS
<1> DEFINE q == req[r]
           left == Len(Fill(r)) - q.prefix
           room == RemTotal(tree, offset)
           rem == IF room <= 0 THEN rem_chunk ELSE Min({rem_chunk, room})
           new == Min({left, rem})
<1>1. /\ pc = "admit" /\ r \notin todo \cup {NoReq} /\ pc' = "admit"
      /\ req' = [req EXCEPT ![r].extend_end = q.prefix + new]
      /\ todo' = todo \cup {r}
      /\ offset' = offset + PagedTokens(new) + PageSize
                     + (IF left <= rem THEN MaxNewEstimate(q.max_new) ELSE 0)
      /\ chunked' = IF left <= rem THEN NoReq ELSE r
      /\ UNCHANGED <<tree, free, content, running, last_batch>>
  BY <1>0 DEF AddChunkedReq, treeVars
<1>2. DOMAIN req = Req /\ r \in Req /\ ControlOK(q) /\ DOMAIN q = ReqFields
  BY <1>0, <1>1 DEF Control, LoopInv, TypeOK, RequestsOK, ControlOK
<1>3. HoldsKV(r) /\ q.phase = "running"
  <2>1. q.phase # "admitted"
    BY <1>1, <1>2, AtAdmit
  <2> QED BY <2>1, <1>0, <1>1 DEF Control, Placed, ChunkIs, HoldsKV
<1>4. todo = {} /\ rem_chunk = ChunkSize /\ rem_chunk \in Nat /\ rem_chunk > 0 /\ offset \in Int
  BY <1>0, <1>1, BoundsAssumption DEF Memory, Budget
<1>5. /\ q.prefix \in Nat /\ q.prefix <= Len(Fill(r)) /\ q.max_new \in Nat
      /\ q.prefix = q.extend_end /\ Len(Fill(r)) \in Nat
  <2>1. RecordOK(q) /\ StageOK(r) /\ ~Extending(r)
    BY <1>1, <1>2 DEF Memory, Sizes, Extending
  <2>2. q.prefix = q.extend_end
    BY <2>1, <1>0, <1>1, <1>3 DEF StageOK
  <2>3. q.prefix \in Nat /\ q.extend_end <= Len(Fill(r)) /\ Len(Fill(r)) \in Nat
    BY <1>2, <1>3, LockedRecord
  <2> QED BY <2>1, <2>2, <2>3, <1>3 DEF RecordOK
<1>6. left \in Nat /\ q.prefix + left = Len(Fill(r))
  <2>1. \A a, b \in Nat : b <= a => a - b \in Nat /\ b + (a - b) = a
    OBVIOUS
  <2> QED BY <1>5, <2>1
<1>7. room \in Int
  BY <1>4, RemTotalFacts
<1> HIDE DEF left, room
<1>8. rem \in Nat
  <2>1. room > 0 => Min({rem_chunk, room}) = IF rem_chunk <= room THEN rem_chunk ELSE room
    BY <1>4, <1>7, MinTwo
  <2> QED BY <1>4, <1>7, <2>1
<1> HIDE DEF rem
<1>9. new = IF left <= rem THEN left ELSE rem
  BY <1>6, <1>8, MinTwo
<1> HIDE DEF new
<1>10. new \in Nat /\ new <= left
  BY <1>6, <1>8, <1>9
<1> DEFINE w == req'[r]
<1>11. w = [q EXCEPT !.extend_end = q.prefix + new] /\ \A x \in Req : x # r => req'[x] = req[x]
  BY <1>1, <1>2
<1>12. /\ w.phase = q.phase /\ w.prompt = q.prompt /\ w.out = q.out /\ w.row = q.row
       /\ w.max_new = q.max_new /\ w.prefix = q.prefix /\ w.extend_end = q.prefix + new
       /\ w.lock = q.lock
  <2> HIDE DEF q
  <2> QED BY <1>11, <1>2 DEF ReqFields
<1>13. RowsFit' /\ Clipped' /\ LockedIn(req') \subseteq LockedIn(req)
  <2>1. NarrowAt(r)
    BY <1>11, <1>12, <1>3 DEF NarrowAt, OnlyAt
  <2> QED BY <2>1, <1>2, NarrowKeeps DEF Headroom
<1>14. RoomOf(tree', req') >= RoomOf(tree, req)
  <2>1. \A x \in LockedIn(req') : /\ req'[x].phase = req[x].phase /\ req'[x].row = req[x].row
                                  /\ req'[x].lock = req[x].lock
    BY <1>11, <1>12 DEF LockedIn
  <2>0. tree'.value = tree.value /\ LockedIn(req') \subseteq LockedIn(req)
    BY <1>1, <1>13
  <2>2. Busy(tree', req') \subseteq Busy(tree, req)
    BY <2>0, <2>1, BusyKeeps
  <2> QED BY <2>2, RoomGrows
<1> DEFINE C0 == CeilPages(q.prefix)
           C1 == CeilPages(q.prefix + new)
           C2 == CeilPages(Len(Fill(r)))
<1>15. C0 \in Nat /\ C1 \in Nat /\ C2 \in Nat
  <2>1. q.prefix + new \in Nat
    BY <1>5, <1>10
  <2> QED BY <2>1, <1>5, CeilFacts
<1>16. CeilPages(new) \in Nat /\ C1 <= C0 + CeilPages(new)
  BY <1>5, <1>10, CeilSum, CeilFacts
<1>17. Cardinality(PagesFor(req', todo')) = C1 - C0 /\ Cardinality(PagesFor(req, todo)) = 0
  <2>1. SpanOK(req'[r])
    BY <1>12, <1>5, <1>10 DEF SpanOK, w
  <2> DEFINE E == {}
             rq2 == req'
  <2>2. todo' = E \cup {r} /\ E \in SUBSET Req /\ r \notin E /\ \A x \in E : SpanOK(rq2[x])
    BY <1>1, <1>4
  <2>3. Cardinality(PagesFor(rq2, E)) = 0
    BY <2>2, PagesForFacts
  <2>4. Cardinality(PagesFor(rq2, E \cup {r}))
          = Cardinality(PagesFor(rq2, E)) + (CeilPages(rq2[r].extend_end) - CeilPages(rq2[r].prefix))
    <3>1. SpanOK(rq2[r])
      BY <2>1
    <3> HIDE DEF rq2, E
    <3> QED BY <3>1, <2>2, <1>2, PagesForFacts
  <2>5. CeilPages(rq2[r].extend_end) - CeilPages(rq2[r].prefix) = C1 - C0
    BY <1>12 DEF w
  <2>6. Cardinality(PagesFor(req, todo)) = 0
    BY <1>4, PagesForFacts
  <2> HIDE DEF rq2, C0, C1
  <2>7. Cardinality(PagesFor(rq2, E \cup {r})) = C1 - C0
    BY <2>3, <2>4, <2>5, <1>15
  <2> QED BY <2>2, <2>6, <2>7 DEF rq2
<1>18. Cardinality(PagesFor(req, todo))' = C1 - C0
  BY <1>17 DEF PagesFor
<1>19. PassCharged'
  <2>1. MaxNewEstimate(q.max_new) \in Int /\ MaxNewEstimate(q.max_new) >= 0
    <3>1. q.max_new \in Int /\ q.max_new >= 0
      BY <1>5
    <3> HIDE DEF q
    <3> QED BY <3>1, EstimateFacts
  <2>2. offset >= 0
    BY <1>1, <1>17, PageSizeAssumption DEF Headroom, PassCharged
  <2>3. PagedTokens(new) \in Nat /\ PagedTokens(new) = PageSize * CeilPages(new)
    BY <1>10, <1>16, PagedFacts, PageSizeAssumption DEF PagedTokens
  <2>4. offset' >= PagedTokens(new) /\ offset' \in Int
    BY <2>1, <2>2, <2>3, <1>1, <1>4, PageSizeAssumption
  <2>5. PageSize * (C1 - C0) <= PageSize * CeilPages(new)
    <3> HIDE DEF C0, C1
    <3>1. C1 - C0 <= CeilPages(new) /\ C1 - C0 \in Int /\ CeilPages(new) \in Int
      BY <1>15, <1>16
    <3> QED BY <3>1, PageProducts
  <2>6. PageSize * (C1 - C0) \in Int
    BY <1>15, PageSizeAssumption
  <2>7. offset' >= PageSize * (C1 - C0)
    <3> HIDE DEF C0, C1
    <3> QED BY <2>3, <2>4, <2>5, <2>6
  <2> QED BY <2>7, <1>18 DEF PassCharged
<1>20. ChunkRest = C2 - C0
  BY <1>0, <1>1, <1>5 DEF ChunkRest
<1>21. ChunkRest' = C2 - C1
  <2>1. CASE left <= rem
    BY <2>1, <1>1, <1>6, <1>9, <1>15 DEF ChunkRest
  <2>2. CASE ~(left <= rem)
    <3>1. chunked' = r /\ r # NoReq
      BY <2>2, <1>1
    <3>2. Fill(r)' = Fill(r)
      BY <1>12 DEF Fill, w
    <3>3. ChunkRest' = CeilPages(Len(Fill(r)')) - CeilPages(w.extend_end)
      BY <3>1 DEF ChunkRest, Fill, w
    <3> QED BY <3>2, <3>3, <1>12
  <2> QED BY <2>1, <2>2
<1>22. PromiseKept'
  <2> SUFFICES ASSUME Promised' PROVE RoomOf(tree', req') >= PagesToGive' + ChunkRest' + 1
    BY DEF PromiseKept, RoomOf, Reclaimable, Busy, BusyOf, LockedIn, RowPages, PrefixPages
  <2>1. PagesToGive' = C1 - C0 /\ PagesToGive = 0
    BY <1>1, <1>17, <1>18 DEF PagesToGive, Building
  <2>2. Promised
    BY <1>0, <1>1 DEF Promised
  <2>3. RoomOf(tree, req) >= C2 - C0 + 1
    BY <2>1, <2>2, <1>15, <1>20 DEF Headroom, PromiseKept
  <2>4. RoomOf(tree, req) \in Nat /\ RoomOf(tree', req') \in Nat
    BY RoomNat
  <2> HIDE DEF C0, C1, C2
  <2> QED BY <2>1, <2>3, <2>4, <1>14, <1>15, <1>21
<1>23. \A x \in Req : HoldsKV(x)' => HoldsKV(x)
  BY <1>11, <1>3 DEF HoldsKV
<1> QED BY <1>1, <1>13, <1>19, <1>22, <1>23, PassHeadroom

\* Admission leaves a row for every request of the pass.
LEMMA AdmitRows ==
  ASSUME Control, NEW r \in Req, PassOpen, LockedIn(req') \subseteq LockedIn(req) \cup {r}
  PROVE  RowsFit'
<1> DEFINE H == {x \in Req \ todo : HoldsKV(x)}
           A == LockedIn(req)
           B == LockedIn(req')
<1>1. pc = "admit" /\ Cardinality(todo) < NumAllocatableReqs
  BY DEF PassOpen
<1>2. IsFiniteSet(todo) /\ todo \in SUBSET Req
  <2>1. todo \in SUBSET Req
    BY DEF Control, LoopInv, TypeOK
  <2> QED BY <2>1, ReqAssumption, FS_Subset
<1>3. IsFiniteSet(H) /\ H \in SUBSET Req
  <2>1. H \in SUBSET Req
    OBVIOUS
  <2> HIDE DEF H
  <2> QED BY <2>1, ReqAssumption, FS_Subset
<1>4. A \subseteq todo \cup H
  BY <1>1, AtAdmit DEF LockedIn, HoldsKV
<1>5. Cardinality(todo) < ReqRows - Cardinality(H)
  <2>1. MaxRunning - Cardinality(running) \in Int /\ ReqRows - Cardinality(H) \in Int
        /\ Cardinality(todo) \in Nat
    <3>1. IsFiniteSet(running)
      <4>1. running \in SUBSET Req
        BY DEF Control, LoopInv, TypeOK
      <4> QED BY <4>1, ReqAssumption, FS_Subset
    <3>2. Cardinality(running) \in Nat /\ Cardinality(H) \in Nat /\ Cardinality(todo) \in Nat
      BY <3>1, <1>2, <1>3, FS_CardinalityType
    <3> HIDE DEF H
    <3> QED BY <3>2, BoundsAssumption
  <2>2. NumAllocatableReqs = Min({MaxRunning - Cardinality(running), ReqRows - Cardinality(H)})
    BY DEF NumAllocatableReqs
  <2> HIDE DEF H
  <2>3. NumAllocatableReqs \in Int /\ NumAllocatableReqs <= ReqRows - Cardinality(H)
    BY <2>1, <2>2, MinTwo
  <2> QED BY <1>1, <2>1, <2>3
<1> HIDE DEF H, A, B
<1>6. IsFiniteSet(todo \cup H) /\ Cardinality(todo \cup H) <= Cardinality(todo) + Cardinality(H)
      /\ Cardinality(todo) \in Nat /\ Cardinality(H) \in Nat
  <2>1. IsFiniteSet(todo \cup H)
        /\ Cardinality(todo \cup H) = Cardinality(todo) + Cardinality(H) - Cardinality(todo \cap H)
    BY <1>2, <1>3, FS_Union
  <2>2. IsFiniteSet(todo \cap H)
    BY <1>2, FS_Intersection
  <2>3. Cardinality(todo) \in Nat /\ Cardinality(H) \in Nat /\ Cardinality(todo \cap H) \in Nat
    BY <2>2, <1>2, <1>3, FS_CardinalityType
  <2> QED BY <2>1, <2>3
<1>7. IsFiniteSet((todo \cup H) \cup {r}) /\ Cardinality((todo \cup H) \cup {r}) <= Cardinality(todo \cup H) + 1
  <2>1. IsFiniteSet((todo \cup H) \cup {r})
        /\ \/ Cardinality((todo \cup H) \cup {r}) = Cardinality(todo \cup H)
           \/ Cardinality((todo \cup H) \cup {r}) = Cardinality(todo \cup H) + 1
    BY <1>6, FS_AddElement
  <2>2. Cardinality(todo \cup H) \in Nat
    BY <1>6, FS_CardinalityType
  <2> QED BY <2>1, <2>2
<1>8. B \in SUBSET ((todo \cup H) \cup {r})
  BY <1>4 DEF A, B
<1>9. Cardinality(B) <= Cardinality((todo \cup H) \cup {r})
      /\ Cardinality(B) \in Nat /\ Cardinality((todo \cup H) \cup {r}) \in Nat
      /\ Cardinality(todo \cup H) \in Nat
  <2>1. IsFiniteSet(B) /\ Cardinality(B) <= Cardinality((todo \cup H) \cup {r})
    BY <1>7, <1>8, FS_Subset
  <2> QED BY <2>1, <1>6, <1>7, FS_CardinalityType
<1>10. Cardinality(B) <= ReqRows
  BY <1>5, <1>6, <1>7, <1>9, BoundsAssumption
<1> QED BY <1>10 DEF RowsFit, LockedIn, B

\* Admission charges a request for the pages of its whole prompt, beyond what
\* the requests before it were charged, and keeps a page.
LEMMA AdmitHeadroom ==
  ASSUME Control, Memory, Control', Memory', Headroom, NEW r \in Req, Admit(r)
  PROVE  Headroom'
<1> DEFINE m == MatchedPrefix(r)
           all == Len(Fill(r)) - Len(m)
           n == ExtendLen(r, m)
           est == MaxNewEstimate(req[r].max_new - Len(req[r].out))
<1>1. PassOpen /\ req[r].phase = "waiting" /\ Admitted(r, m, Pinned(m))
  BY DEF Admit, Waiting
<1>2. /\ m \in Cached(tree) \cup {Root} /\ m \in Key /\ Len(m) \in Nat
      /\ Len(Fill(r)) \in Nat /\ Len(m) < Len(Fill(r))
  BY <1>1, MatchFacts
<1>3. chunked = NoReq
  BY AdmitMemory
<1> HIDE DEF m
<1>4. /\ pc = "admit" /\ pc' = "admit" /\ n > 0 /\ FitsBudget(Pinned(m), r, m)
      /\ tree' = Pinned(m)
      /\ req' = [req EXCEPT ![r] =
                   [@ EXCEPT !.phase = "admitted", !.prefix = Len(m),
                             !.protected = Len(m), !.lock = m,
                             !.extend_end = Len(m) + n]]
      /\ offset' = offset + PagedTokens(n) + PageSize
                     + (IF n < all THEN 0 ELSE MaxNewEstimate(req[r].max_new))
      /\ chunked' = IF n < all THEN r ELSE NoReq
      /\ todo' = todo \cup {r}
      /\ UNCHANGED <<free, content, running, last_batch>>
  BY <1>1, <1>3 DEF Admitted, PassOpen
<1>5. all \in Nat /\ all > 0 /\ Len(m) + all = Len(Fill(r))
  <2>1. \A a, b \in Nat : a < b => b - a \in Nat /\ b - a > 0 /\ a + (b - a) = b
    OBVIOUS
  <2> QED BY <1>2, <2>1
<1>6. rem_chunk \in Int /\ offset \in Int
  BY DEF Memory, Budget
<1>7. n = IF PagedTokens(all) <= rem_chunk THEN all ELSE AlignDown(rem_chunk)
  BY DEF ExtendLen
<1> HIDE DEF all, n
<1>8. n \in Nat /\ n <= all
  BY <1>4, <1>5, <1>6, <1>7, ExtendLenFacts
<1>9. DOMAIN req = Req /\ DOMAIN req[r] = ReqFields
  BY DEF Control, LoopInv, TypeOK, RequestsOK, ControlOK
<1> DEFINE w == req'[r]
<1>10. /\ w.phase = "admitted" /\ w.prompt = req[r].prompt /\ w.out = req[r].out
       /\ w.max_new = req[r].max_new /\ w.prefix = Len(m) /\ w.extend_end = Len(m) + n
       /\ \A x \in Req : x # r => req'[x] = req[x]
  BY <1>4, <1>9 DEF ReqFields
<1> HIDE DEF w
<1>11. todo \in SUBSET Req /\ r \notin todo /\ \A x \in todo : SpanOK(req[x])
  <2>1. Building
    BY <1>4 DEF Building
  <2> QED BY <2>1, <1>1, TodoSpans
<1> DEFINE G == Cardinality(PagesFor(req, todo))
           C0 == CeilPages(Len(m))
           C1 == CeilPages(Len(m) + n)
           C2 == CeilPages(Len(Fill(r)))
<1>12. G \in Nat
  BY <1>11, PagesForFacts
<1>13. C0 \in Nat /\ C1 \in Nat /\ C2 \in Nat /\ Len(m) + n \in Nat
  <2>1. Len(m) + n \in Nat
    BY <1>2, <1>8
  <2> QED BY <2>1, <1>2, CeilFacts
<1>14. Cardinality(PagesFor(req', todo')) = G + (C1 - C0)
  <2> DEFINE rq2 == req'
  <2>1. \A x \in todo : rq2[x] = req[x]
    BY <1>10, <1>11
  <2>2. PagesFor(rq2, todo) = PagesFor(req, todo)
    <3>1. \A x \in todo : rq2[x].prefix = req[x].prefix /\ rq2[x].extend_end = req[x].extend_end
      BY <2>1
    <3> HIDE DEF rq2
    <3> QED BY <3>1, PagesForSame
  <2>3. SpanOK(rq2[r]) /\ CeilPages(rq2[r].extend_end) = C1 /\ CeilPages(rq2[r].prefix) = C0
    BY <1>10, <1>2, <1>8 DEF SpanOK, w
  <2>4. \A x \in todo : SpanOK(rq2[x])
    BY <2>1, <1>11
  <2> HIDE DEF rq2
  <2>5. Cardinality(PagesFor(rq2, todo \cup {r}))
          = Cardinality(PagesFor(rq2, todo)) + (CeilPages(rq2[r].extend_end) - CeilPages(rq2[r].prefix))
    BY <2>3, <2>4, <1>11, PagesForFacts
  <2> QED BY <2>2, <2>3, <2>5, <1>4 DEF rq2
<1>15. Cardinality(PagesFor(req, todo))' = G + (C1 - C0)
  BY <1>14 DEF PagesFor
<1>16. ChunkRest' = C2 - C1
  <2>1. CASE ~(n < all)
    <3>1. n = all
      BY <2>1, <1>5, <1>8
    <3>2. chunked' = NoReq /\ C2 = C1
      BY <2>1, <3>1, <1>4, <1>5
    <3> QED BY <3>2, <1>13 DEF ChunkRest
  <2>2. CASE n < all
    <3>1. chunked' = r /\ r # NoReq
      BY <2>2, <1>4, ReqAssumption
    <3>2. Fill(r)' = Fill(r)
      BY <1>10 DEF Fill, w
    <3>3. ChunkRest' = CeilPages(Len(Fill(r)')) - CeilPages(w.extend_end)
      BY <3>1 DEF ChunkRest, Fill, w
    <3> QED BY <3>2, <3>3, <1>10
  <2> QED BY <2>1, <2>2
<1>17. est \in Int /\ est >= 0 /\ MaxNewEstimate(req[r].max_new) \in Int /\ MaxNewEstimate(req[r].max_new) >= 0
  <2>1. req[r].max_new \in Nat /\ Len(req[r].out) \in Nat /\ Len(req[r].out) <= req[r].max_new
    <3>1. req[r].out \in Key
      BY DEF Control, RequestsOK, ControlOK
    <3> QED BY <3>1, <1>1, PrefixLen DEF Memory, Sizes, RecordOK
  <2>2. req[r].max_new - Len(req[r].out) \in Int /\ req[r].max_new - Len(req[r].out) >= 0
    BY <2>1
  <2>3. est \in Int /\ est >= 0
    BY <2>2, EstimateFacts
  <2>4. req[r].max_new \in Int /\ req[r].max_new >= 0
    BY <2>1
  <2> QED BY <2>3, <2>4, EstimateFacts
<1>18. offset >= PageSize * G
  BY <1>4 DEF Headroom, PassCharged
<1>19. PageSize * RoomOf(tree', req') > all + est + PageSize + offset
  <2>1. Pools(tree', free', content', req')
    BY DEF Memory, PoolsOK
  <2>2. AvailableSize(free') + tree'.evictable_size <= PageSize * Cardinality(Reclaimable(tree', req'))
    BY <2>1, ReclaimFacts
  <2>3. all + est + PageSize < AvailableSize(free) + tree'.evictable_size - offset
    BY <1>4 DEF FitsBudget, RemTotal, all
  <2>4. free' = free
    BY <1>4
  <2>5. AvailableSize(free) \in Nat /\ tree'.evictable_size \in Int
    BY <1>2, <1>4, PinnedSize, RemTotalFacts
  <2>6. PageSize * RoomOf(tree', req') \in Int
    <3>1. RoomOf(tree', req') \in Int
      BY RoomNat
    <3> QED BY <3>1, PageSizeAssumption
  <2> HIDE DEF est
  <2>7. AvailableSize(free) + tree'.evictable_size <= PageSize * RoomOf(tree', req')
    BY <2>2, <2>4 DEF RoomOf
  <2> QED BY <2>3, <2>5, <2>6, <2>7, <1>5, <1>6, <1>17, PageSizeAssumption
<1> HIDE DEF est, G, C0, C1, C2
<1>20. RoomOf(tree', req') > G + (C2 - C0)
  <2>1. PageSize * C2 < Len(Fill(r)) + PageSize
    <3>1. CeilPages(Len(Fill(r))) * PageSize < Len(Fill(r)) + PageSize
      BY <1>2, CeilFacts
    <3> QED BY <3>1, <1>13, PageSizeAssumption DEF C2
  <2>2. PageSize * C0 >= Len(m)
    <3>1. Len(m) <= CeilPages(Len(m)) * PageSize
      BY <1>2, CeilFacts
    <3> QED BY <3>1, <1>13, PageSizeAssumption DEF C0
  <2>3. C2 - C0 \in Int /\ G + (C2 - C0) \in Int /\ RoomOf(tree', req') \in Int
    BY <1>12, <1>13, RoomNat
  <2>4. /\ PageSize * (C2 - C0) = PageSize * C2 - PageSize * C0
        /\ PageSize * C2 \in Int /\ PageSize * C0 \in Int /\ PageSize * G \in Int
        /\ PageSize * (G + (C2 - C0)) = PageSize * G + PageSize * (C2 - C0)
        /\ PageSize * RoomOf(tree', req') \in Int
    <3> DEFINE d == C2 - C0
    <3>1. C0 \in Int /\ C2 \in Int /\ G \in Int /\ d \in Int
      BY <2>3, <1>12, <1>13
    <3>2. PageSize * d = PageSize * C2 - PageSize * C0 /\ PageSize * C2 \in Int /\ PageSize * C0 \in Int
      BY <3>1, PageProducts
    <3> HIDE DEF d
    <3>3. PageSize * G \in Int /\ PageSize * (G + d) = PageSize * G + PageSize * d
      BY <3>1, PageProducts
    <3>4. PageSize * RoomOf(tree', req') \in Int
      BY <2>3, PageProducts
    <3> QED BY <3>2, <3>3, <3>4 DEF d
  <2>5. PageSize * (G + (C2 - C0)) < PageSize * RoomOf(tree', req')
    BY <2>1, <2>2, <2>4, <1>2, <1>5, <1>6, <1>17, <1>18, <1>19, PageSizeAssumption
  <2> QED BY <2>3, <2>5, PageProducts
<1>21. PromiseKept'
  <2> SUFFICES RoomOf(tree', req') >= PagesToGive' + ChunkRest' + 1
    BY DEF PromiseKept, RoomOf, Reclaimable, Busy, BusyOf, LockedIn, RowPages, PrefixPages
  <2>1. PagesToGive' = G + (C1 - C0)
    BY <1>4, <1>15 DEF PagesToGive, Building
  <2> QED BY <2>1, <1>12, <1>13, <1>16, <1>20, RoomNat
<1>22. PassCharged'
  <2>1. CeilPages(n) \in Nat /\ C1 - C0 <= CeilPages(n)
    <3>1. CeilPages(n) \in Nat /\ C1 <= C0 + CeilPages(n)
      BY <1>2, <1>8, CeilSum, CeilFacts DEF C0, C1
    <3> QED BY <3>1, <1>13
  <2>2. PagedTokens(n) \in Nat /\ PagedTokens(n) = PageSize * CeilPages(n)
    BY <1>8, <2>1, PagedFacts, PageSizeAssumption DEF PagedTokens
  <2>3. offset' \in Int /\ offset' >= offset + PagedTokens(n)
    BY <2>2, <1>4, <1>6, <1>17, PageSizeAssumption
  <2>4. C1 - C0 \in Int
    BY <1>13
  <2>5. /\ PageSize * (C1 - C0) <= PageSize * CeilPages(n)
        /\ PageSize * (G + (C1 - C0)) = PageSize * G + PageSize * (C1 - C0)
        /\ PageSize * (C1 - C0) \in Int /\ PageSize * G \in Int
    <3> DEFINE d == C1 - C0
    <3>1. G \in Int /\ d \in Int /\ d <= CeilPages(n) /\ CeilPages(n) \in Int
      BY <2>1, <2>4, <1>12
    <3> HIDE DEF d
    <3>2. PageSize * d <= PageSize * CeilPages(n) /\ PageSize * d \in Int
      BY <3>1, PageProducts
    <3>3. PageSize * G \in Int /\ PageSize * (G + d) = PageSize * G + PageSize * d
      BY <3>1, PageProducts
    <3> QED BY <3>2, <3>3 DEF d
  <2>6. offset' >= PageSize * (G + (C1 - C0))
    BY <2>2, <2>3, <2>5, <1>6, <1>18
  <2> QED BY <2>6, <1>15 DEF PassCharged
<1>23. RowsFit'
  <2>1. LockedIn(req') \subseteq LockedIn(req) \cup {r}
    BY <1>10 DEF LockedIn
  <2> QED BY <2>1, <1>1, AdmitRows
<1>24. Clipped'
  <2>1. \A x \in Req : ClippedTo(req'[x])
    BY <1>1, <1>10 DEF Headroom, Clipped, ClippedTo, w
  <2> QED BY <2>1 DEF Clipped, ClippedTo
<1>25. \A x \in Req : HoldsKV(x)' => HoldsKV(x)
  BY <1>10 DEF HoldsKV, w
<1> QED BY <1>4, <1>21, <1>22, <1>23, <1>24, <1>25, PassHeadroom

\* The end of the pass keeps what it has charged.
LEMMA EndPassHeadroom ==
  ASSUME Control, Memory, Headroom, pc = "admit", chunked \in todo \cup {NoReq}, EndPass(todo),
         UNCHANGED <<todo, running, chunked, batch, last_batch>>, tree'.value = tree.value,
         \A x \in Req : req[x].phase # "waiting" => req'[x] = req[x],
         \A x \in Req : /\ req'[x].phase = req[x].phase /\ req'[x].prompt = req[x].prompt
                        /\ req'[x].max_new = req[x].max_new
  PROVE  Headroom'
<1>1. pc' = (IF todo = {} THEN "decode" ELSE "extend") /\ ReqsOf(batch) = {} /\ batch.kind = "none"
  BY AtAdmit DEF EndPass
<1>2. /\ todo \in SUBSET Req
      /\ \A x \in todo : req[x].phase \in {"admitted", "running"} /\ SpanOK(req[x])
  BY TodoSpans DEF Building
<1>3. /\ LockedIn(req') \subseteq LockedIn(req)
      /\ \A x \in LockedIn(req') : req'[x] = req[x]
  BY DEF LockedIn
<1>4. RoomOf(tree', req') >= RoomOf(tree, req)
  <2>1. Busy(tree', req') \subseteq Busy(tree, req)
    BY <1>3, BusyKeeps
  <2> QED BY <2>1, RoomGrows
<1>5. RowsFit'
  BY <1>3, RowsKeep DEF Headroom
<1>6. Clipped'
  <2>1. \A x \in Req : ClippedTo(req'[x])
    BY DEF Headroom, Clipped, ClippedTo
  <2> QED BY <2>1 DEF Clipped, ClippedTo
<1>7. DecodingStays'
  <2>1. \A x \in Req : HoldsKV(x)' => HoldsKV(x)
    BY DEF HoldsKV
  <2> QED BY <2>1, DecodingKeeps DEF Headroom
<1>8. ChunkRest' = ChunkRest
  <2>1. chunked # NoReq => chunked \in Req /\ req[chunked].phase # "waiting"
    BY <1>2
  <2>2. chunked # NoReq => req'[chunked] = req[chunked]
    BY <2>1
  <2> QED BY <2>2, ChunkRestKeeps
<1>9. PagesToGive' = PagesToGive
  <2>1. \A x \in todo : req'[x] = req[x]
    BY <1>2
  <2>2. PagesFor(req', todo) = PagesFor(req, todo)
    BY <2>1, PagesForSame
  <2>3. PagesFor(req, todo)' = PagesFor(req, todo)
    BY <2>2 DEF PagesFor
  <2>4. CASE todo = {}
    <3>1. Cardinality(PagesFor(req, todo)) = 0
      BY <2>4, <1>2, PagesForFacts
    <3> QED BY <3>1, <2>4, <1>1 DEF PagesToGive, Building
  <2>5. CASE todo # {}
    BY <2>3, <2>5, <1>1 DEF PagesToGive, Building
  <2> QED BY <2>4, <2>5
<1>10. Promised' => Promised
  BY <1>1 DEF Promised, Building
<1>11. PromiseKept'
  BY <1>4, <1>8, <1>9, <1>10, PromiseKeeps DEF Headroom
<1>12. PassCharged' /\ Squeezed' /\ AllocationNeverFails'
  BY <1>1 DEF PassCharged, Squeezed, AllocationNeverFails
<1>13. BatchServed'
  BY <1>1 DEF BatchServed, ReqsOf
<1> QED BY <1>5, <1>6, <1>7, <1>11, <1>12, <1>13 DEF Headroom

\* A pass that ends at a request it rejects keeps the headroom.
LEMMA RejectHeadroom ==
  ASSUME Control, Memory, Headroom, NEW r \in Req, Reject(r)
  PROVE  Headroom'
<1>1. PICK m \in {MatchedPrefix(r)} :
        /\ tree' = SplitNode(tree, m)
        /\ req' = [req EXCEPT ![r].prefix = Len(m), ![r].protected = Len(m)]
  BY DEF Reject
<1>2. /\ pc = "admit" /\ chunked \in todo \cup {NoReq} /\ EndPass(todo) /\ req[r].phase = "waiting"
      /\ UNCHANGED <<free, content, todo, running, chunked, batch, last_batch>>
  BY DEF Reject, PassOpen, Waiting, batchVars
<1>3. DOMAIN req = Req /\ DOMAIN req[r] = ReqFields
  BY DEF Control, LoopInv, TypeOK, RequestsOK, ControlOK
<1>4. req'[r].phase = "waiting" /\ req'[r].prompt = req[r].prompt /\ req'[r].max_new = req[r].max_new
      /\ \A x \in Req : x # r => req'[x] = req[x]
  BY <1>1, <1>2, <1>3 DEF ReqFields
<1>5. m \in Cached(tree) \cup {Root}
  BY <1>2, MatchFacts
<1>6. tree'.value = tree.value
  BY <1>1, <1>5, PoolsSplit DEF Memory, PoolsOK
<1> QED BY <1>2, <1>4, <1>6, EndPassHeadroom

\* So does a pass that runs out of requests.
LEMMA ClosePassHeadroom ==
  ASSUME Control, Memory, Headroom, ClosePass
  PROVE  Headroom'
<1>1. /\ pc = "admit" /\ chunked \in todo \cup {NoReq} /\ EndPass(todo)
      /\ UNCHANGED <<tree, free, content, req, todo, running, chunked, batch, last_batch>>
  BY DEF ClosePass, treeVars, batchVars
<1> QED BY <1>1, EndPassHeadroom

-----------------------------------------------------------------------------
(* Allocation *)

\* The allocator takes the pages it hands out off the free list.
LEMMA TakeFacts ==
  ASSUME NEW t, NEW f, NEW c, NEW rq, Pools(t, f, c, rq), NEW need \in Nat,
         NEW new \in [1 .. need -> FreePages(f)],
         \A i, j \in 1 .. need : new[i] = new[j] => i = j
  PROVE  /\ Cardinality(FreePages(Take(f, {new[i] : i \in 1 .. need})))
              = Cardinality(FreePages(f)) - need
         /\ Cardinality(FreePages(f)) \in Nat
<1> DEFINE I == 1 .. need
           S == {new[i] : i \in I}
           F == FreePages(f)
<1>1. IsFiniteSet(I) /\ Cardinality(I) = need
  BY FS_Interval
<1>2. IsFiniteSet(S) /\ Cardinality(S) = Cardinality(I)
  <2>1. \A i, j \in I : new[i] = new[j] => i = j
    OBVIOUS
  <2>2. IsFiniteSet(I)
    BY <1>1
  <2> HIDE DEF I
  <2>3. IsFiniteSet({new[i] : i \in I})
    BY <2>2, ImageSize
  <2>4. Cardinality({new[i] : i \in I}) = Cardinality(I)
    BY <2>1, <2>2, OneEach
  <2> QED BY <2>3, <2>4 DEF S
<1>3. S \subseteq F /\ F \subseteq Page
  BY DEF FreePages
<1>4. \A p \in Page : f[p] \in {0, 1}
  BY DEF Pools, FreeIs
<1>5. FreePages(Take(f, S)) = F \ S
  <2> HIDE DEF S
  <2>1. \A p \in Page : Take(f, S)[p] = IF p \in S THEN f[p] - 1 ELSE f[p]
    BY DEF Take
  <2>2. \A p \in Page : Take(f, S)[p] > 0 <=> f[p] > 0 /\ p \notin S
    BY <2>1, <1>4
  <2> QED BY <2>2 DEF FreePages
<1>6. IsFiniteSet(F) /\ Cardinality(F) \in Nat
  BY <1>3, PoolFinite
<1> HIDE DEF S, F, I
<1>7. F \cap S = S
  BY <1>3
<1>8. Cardinality(F \ S) = Cardinality(F) - Cardinality(S)
  BY <1>6, <1>7, FS_Difference
<1>9. Cardinality(FreePages(Take(f, S))) = Cardinality(F) - need
  BY <1>1, <1>2, <1>5, <1>8
<1> QED BY <1>6, <1>9 DEF S, F, I

\* The free list has the pages of the rest of the extend batch.
LEMMA ExtendSupply ==
  ASSUME Control, Memory, Headroom, pc = "extend", todo # {},
         NEW e \in Evictions(tree, free, ExtendDemand)
  PROVE  /\ Cardinality(FreePages(e.free)) \in Nat
         /\ Cardinality(FreePages(e.free)) >= Cardinality(PagesFor(req, todo))
         /\ RoomOf(e.tree, req) = RoomOf(tree, req)
         /\ RoomOf(tree, req) >= Cardinality(PagesFor(req, todo)) + ChunkRest + 1
         /\ RoomOf(tree, req) \in Nat /\ Cardinality(PagesFor(req, todo)) \in Nat /\ ChunkRest \in Nat
<1> DEFINE G == Cardinality(PagesFor(req, todo))
           A == FreePages(free)
           B == FreePages(e.free)
<1>1. /\ todo \in SUBSET Req
      /\ \A x \in todo : req[x].phase \in {"admitted", "running"} /\ SpanOK(req[x])
  BY TodoSpans DEF Building
<1>2. G \in Nat /\ ChunkRest \in Nat /\ RoomOf(tree, req) \in Nat
  BY <1>1, PagesForFacts, ChunkRestNat, RoomNat
<1>3. RoomOf(tree, req) >= G + ChunkRest + 1
  BY DEF Headroom, PromiseKept, Promised, Building, PagesToGive
<1>4. ExtendDemand \in Int
  <2>1. CASE ReqsOf(batch) = {}
    BY <2>1, <1>1, DemandCovers
  <2>2. CASE ReqsOf(batch) # {}
    BY <2>2 DEF ExtendDemand
  <2> QED BY <2>1, <2>2
<1>5. Pools(tree, free, content, req)
  BY DEF Memory, PoolsOK
<1>6. /\ Busy(e.tree, req) = Busy(tree, req) /\ A \subseteq B
      /\ AvailableSize(e.free) >= ExtendDemand \/ B = Reclaimable(tree, req)
  BY <1>4, <1>5, EvictRoom
<1>7. RoomOf(e.tree, req) = RoomOf(tree, req)
  BY <1>6 DEF RoomOf, Reclaimable
<1>8. A \in SUBSET Page /\ B \in SUBSET Page
  BY DEF FreePages
<1>9. Cardinality(A) \in Nat /\ Cardinality(B) \in Nat /\ Cardinality(A) <= Cardinality(B)
  <2> HIDE DEF A, B
  <2> QED BY <1>6, <1>8, PoolFinite
<1>10. Cardinality(B) >= G
  <2>1. CASE ReqsOf(batch) # {}
    <3>1. Cardinality(A) >= G
      BY <2>1 DEF Headroom, BatchServed
    <3> HIDE DEF A, B, G
    <3> QED BY <3>1, <1>2, <1>9
  <2>2. CASE ReqsOf(batch) = {} /\ B = Reclaimable(tree, req)
    <3>1. Cardinality(B) = RoomOf(tree, req)
      BY <2>2 DEF RoomOf
    <3> HIDE DEF B, G
    <3> QED BY <3>1, <1>2, <1>3
  <2>3. CASE ReqsOf(batch) = {} /\ AvailableSize(e.free) >= ExtendDemand
    <3>1. ExtendDemand \in Nat /\ ExtendDemand >= PageSize * G
      BY <2>3, <1>1, DemandCovers
    <3>2. AvailableSize(e.free) = PageSize * Cardinality(B)
      BY DEF AvailableSize
    <3> HIDE DEF B, G
    <3>3. Cardinality(B) \in Int /\ G \in Int /\ Cardinality(B) + 1 \in Int
      BY <1>2, <1>9
    <3>4. PageSize * Cardinality(B) \in Int /\ PageSize * G \in Int
      BY <3>3, PageProducts
    <3>5. PageSize * (Cardinality(B) + 1) = PageSize * Cardinality(B) + PageSize
      <4>1. PageSize * (Cardinality(B) + 1) = PageSize * Cardinality(B) + PageSize * 1
        BY <3>3, PageProducts
      <4> QED BY <4>1, PageSizeAssumption
    <3>6. PageSize * G < PageSize * (Cardinality(B) + 1)
      BY <3>1, <3>2, <3>4, <3>5, <2>3, PageSizeAssumption
    <3>7. G < Cardinality(B) + 1
      BY <3>3, <3>6, PageProducts
    <3> QED BY <3>3, <3>7
  <2> QED BY <2>1, <2>2, <2>3, <1>6
<1> HIDE DEF A, B, G
<1> QED BY <1>2, <1>3, <1>7, <1>9, <1>10 DEF A, B, G

\* A request of the extend batch takes the pages that were set aside for it.
LEMMA ExtendHeadroom ==
  ASSUME Control, Memory, Headroom, NEW r \in Req, Extend(r)
  PROVE  Headroom'
<1> DEFINE q == req[r]
           F == Fill(r)
           need == CeilPages(q.extend_end) - CeilPages(q.prefix)
           held == HeldBy(r)
           num == ExtendDemand
           rows == {x \in Req : HoldsKV(x)} \cup {r}
<1>1. pc = "extend" /\ r \in todo
  BY DEF Extend
<1>2. PICK e \in Evictions(tree, free, num) :
        /\ tree' = e.tree
        /\ \/ need > Cardinality(FreePages(e.free))
           \/ Cardinality(rows) > ReqRows
           \/ \E new \in {AllocPages(e.free, need)}, tok \in Sampled :
                /\ free' = Take(e.free, {new[i] : i \in 1 .. need})
                /\ req' = [req EXCEPT ![r] =
                     [@ EXCEPT !.phase = "running", !.row = held \o new, !.committed = q.extend_end,
                               !.retracted = FALSE,
                               !.middle = IF r = chunked THEN q.middle + 1 ELSE q.middle,
                               !.dev = IF r = chunked THEN F ELSE Append(F, tok)]]
                /\ AddToBatch("extend", r, tok)
                /\ UNCHANGED <<loopVars, passVars, last_batch>>
  BY DEF Extend, HeldBy
<1> DEFINE G == Cardinality(PagesFor(req, todo))
           N == Cardinality(FreePages(e.free))
           R == RoomOf(tree, req)
<1>3. /\ N \in Nat /\ N >= G /\ RoomOf(e.tree, req) = R /\ R >= G + ChunkRest + 1
      /\ R \in Nat /\ G \in Nat /\ ChunkRest \in Nat
  BY <1>1, ExtendSupply
<1> HIDE DEF num
<1>4. /\ todo \in SUBSET Req
      /\ \A x \in todo : req[x].phase \in {"admitted", "running"} /\ SpanOK(req[x])
  BY <1>1, TodoSpans DEF Building
<1>5. q.phase \in {"admitted", "running"}
  BY <1>1, <1>4
<1>6. /\ F \in Key /\ Len(F) \in Nat /\ F = q.prompt \o q.out
      /\ q.protected \in Nat /\ q.prefix \in Nat /\ q.extend_end \in Nat
      /\ Whole(q.protected) /\ q.protected <= q.prefix
      /\ q.prefix <= q.extend_end /\ q.extend_end <= Len(F)
      /\ q.lock \in Key /\ Len(q.lock) = q.protected /\ IsPrefixOf(q.lock, F)
      /\ r \in LockedIn(req) /\ DOMAIN req = Req /\ DOMAIN q = ReqFields
  BY <1>5, LockedRecord
<1> DEFINE T == todo \ {r}
           H == Cardinality(PagesFor(req, T))
<1>7. G = H + need
  BY <1>1, <1>4, PagesForFacts
<1>8. H \in Nat
  <2>1. T \in SUBSET Req /\ \A x \in T : SpanOK(req[x])
    BY <1>4
  <2> HIDE DEF T
  <2> QED BY <2>1, PagesForFacts
<1>9. need \in Nat
  <2>1. CeilPages(q.extend_end) \in Nat /\ CeilPages(q.prefix) \in Nat
    BY <1>6, CeilFacts
  <2>2. CeilPages(q.prefix) <= CeilPages(q.extend_end)
    BY <1>6, CeilMono
  <2> QED BY <2>1, <2>2
<1> HIDE DEF need, G, H, N, R
<1>10. need <= N /\ ~(need > N)
  BY <1>3, <1>7, <1>8, <1>9
<1>11. ~(Cardinality(rows) > ReqRows)
  <2> DEFINE A == LockedIn(req)
  <2>1. rows \in SUBSET A /\ IsFiniteSet(A)
    BY <1>6, LockedFinite DEF HoldsKV, LockedIn
  <2>2. Cardinality(A) <= ReqRows
    BY DEF Headroom, RowsFit
  <2> HIDE DEF A, rows
  <2>3. IsFiniteSet(rows) /\ Cardinality(rows) <= Cardinality(A)
    BY <2>1, FS_Subset
  <2>4. Cardinality(rows) \in Nat /\ Cardinality(A) \in Nat
    BY <2>1, <2>3, FS_CardinalityType
  <2> QED BY <2>2, <2>3, <2>4, BoundsAssumption
<1> HIDE DEF rows, F, held
<1>12. PICK new \in {AllocPages(e.free, need)}, tok \in Sampled :
         /\ free' = Take(e.free, {new[i] : i \in 1 .. need})
         /\ req' = [req EXCEPT ![r] =
              [@ EXCEPT !.phase = "running", !.row = held \o new, !.committed = q.extend_end,
                        !.retracted = FALSE,
                        !.middle = IF r = chunked THEN q.middle + 1 ELSE q.middle,
                        !.dev = IF r = chunked THEN F ELSE Append(F, tok)]]
         /\ AddToBatch("extend", r, tok)
         /\ UNCHANGED <<loopVars, passVars, last_batch>>
  BY <1>2, <1>10, <1>11 DEF N
<1> DEFINE row == held \o new
           dev == IF r = chunked THEN F ELSE Append(F, tok)
           mid == IF r = chunked THEN q.middle + 1 ELSE q.middle
           c1 == Scrub(content, e.gone)
<1>13. tok \in Token
  BY PromptsAssumption
<1>14. dev \in Key /\ IsPrefixOf(F, dev)
  BY <1>6, <1>13, AppendKey, PrefixRefl
<1> HIDE DEF row, dev, mid, c1
<1> DEFINE w == [q EXCEPT !.phase = "running", !.row = row, !.committed = q.extend_end,
                          !.retracted = FALSE, !.middle = mid, !.dev = dev]
<1>15. req' = [req EXCEPT ![r] = w]
  BY <1>12 DEF row, dev, mid
<1>16. /\ w.phase = "running" /\ w.row = row /\ w.committed = q.extend_end /\ w.dev = dev
       /\ w.lock = q.lock /\ w.protected = q.protected
       /\ w.extend_end = q.extend_end /\ w.prompt = q.prompt /\ w.out = q.out
       /\ w.max_new = q.max_new
  BY <1>6 DEF ReqFields
<1> HIDE DEF w
<1>17. req'[r] = w /\ OnlyAt(req, req', r)
  BY <1>15, <1>6 DEF OnlyAt
<1>18. /\ new \in [1 .. need -> FreePages(e.free)]
       /\ \A i, j \in 1 .. need : new[i] = new[j] => i = j
  BY <1>9, <1>10, AllocFacts DEF N
<1>19. Pools(e.tree, e.free, c1, req) /\ Stable(tree, e.tree, LockedIn(req), LockOf(req))
  BY PoolsEvictScrub DEF Memory, PoolsOK, c1
<1>20. HeldOK(e.tree, r, held)
  BY <1>1, <1>19, HeldFacts DEF held
<1>21. GrowCase(e.tree, e.free, c1, req, r, held, q.prefix, q.extend_end, F, new, need, req')
  <2>1. /\ req'[r].phase = "running" /\ req'[r].lock = q.lock /\ req'[r].protected = q.protected
        /\ req'[r].dev \in Key /\ IsPrefixOf(F, req'[r].dev) /\ req'[r].committed = q.extend_end
        /\ req'[r].row = held \o new
    BY <1>14, <1>16, <1>17 DEF row
  <2>2. /\ held \in Seq(Page) /\ Len(held) = CeilPages(q.prefix)
        /\ \A i \in 1 .. q.protected \div PageSize :
             held[i] = e.tree.value[Prefix(q.lock, i * PageSize)]
        /\ r \in HoldersIn(req) => held = q.row /\ q.committed = q.prefix /\ IsPrefixOf(F, q.dev)
        /\ r \notin HoldersIn(req) => q.prefix = q.protected
    BY <1>20 DEF HeldOK, F
  <2>3. need = CeilPages(q.extend_end) - CeilPages(q.prefix)
    BY DEF need
  <2> HIDE DEF q
  <2> QED BY <2>1, <2>2, <2>3, <1>6, <1>17, <1>18, <1>19 DEF GrowCase, q
<1>22. RoomOf(tree', req') + need >= R
  BY <1>2, <1>3, <1>21, RoomGrow
<1>23. Cardinality(FreePages(free')) = N - need
  BY <1>9, <1>12, <1>18, <1>19, TakeFacts DEF N
<1>24. RowsFit' /\ Clipped'
  <2>1. NarrowAt(r)
    BY <1>5, <1>16, <1>17 DEF NarrowAt
  <2> QED BY <2>1, NarrowKeeps DEF Headroom
<1>25. AddToBatch("extend", r, tok) /\ UNCHANGED <<running, chunked, rem_chunk, offset, last_batch>>
  BY <1>12 DEF loopVars, passVars
<1>26. /\ batch'.kind = "extend"
       /\ \/ todo # {r} /\ todo' = todo \ {r} /\ pc' = pc
          \/ todo = {r} /\ pc' = "process"
  BY <1>1, <1>25, LaunchFacts
<1>27. ChunkRest' = ChunkRest
  <2>1. chunked \in Req \cup {NoReq}
    BY DEF Control, LoopInv, TypeOK
  <2> QED BY <2>1, <1>16, <1>17, <1>25, ChunkRestKeeps DEF OnlyAt
<1>28. Cardinality(PagesFor(req', T)) = H
  <2>1. \A x \in T : req'[x] = req[x]
    BY <1>4, <1>17 DEF OnlyAt
  <2>2. PagesFor(req', T) = PagesFor(req, T)
    <3> HIDE DEF T
    <3> QED BY <2>1, PagesForSame
  <2> QED BY <2>2 DEF H
<1>29. CASE todo # {r} /\ todo' = todo \ {r} /\ pc' = pc
  <2>1. Cardinality(PagesFor(req, todo))' = H
    <3>1. Cardinality(PagesFor(req', todo')) = H
      BY <1>28, <1>29
    <3> QED BY <3>1 DEF PagesFor
  <2>2. PagesToGive' = H
    BY <2>1, <1>1, <1>29 DEF PagesToGive, Building
  <2>3. RoomOf(tree', req') >= PagesToGive' + ChunkRest' + 1
    BY <2>2, <1>3, <1>7, <1>8, <1>9, <1>22, <1>27, RoomNat
  <2>4. PromiseKept'
    BY <2>3 DEF PromiseKept, RoomOf, Reclaimable, Busy, BusyOf, LockedIn, RowPages, PrefixPages
  <2>5. Cardinality(FreePages(free)') >= Cardinality(PagesFor(req, todo))'
    <3>1. N - need >= H
      BY <1>3, <1>7, <1>8, <1>9
    <3> QED BY <3>1, <2>1, <1>23 DEF FreePages
  <2>6. BatchServed'
    BY <2>5, <1>1, <1>29 DEF BatchServed
  <2>7. DecodingStays' /\ PassCharged' /\ Squeezed' /\ AllocationNeverFails'
    BY <1>1, <1>26, <1>29 DEF DecodingStays, PassCharged, Squeezed, AllocationNeverFails
  <2> QED BY <2>4, <2>6, <2>7, <1>24 DEF Headroom
<1>30. CASE todo = {r} /\ pc' = "process"
  <2>1. H = 0
    <3>1. T = {}
      BY <1>30
    <3> QED BY <3>1, PagesForFacts DEF H
  <2>2. PagesToGive' = 0
    BY <1>30 DEF PagesToGive, Building
  <2>3. RoomOf(tree', req') >= PagesToGive' + ChunkRest' + 1
    BY <2>1, <2>2, <1>3, <1>7, <1>9, <1>22, <1>27, RoomNat
  <2>4. PromiseKept'
    BY <2>3 DEF PromiseKept, RoomOf, Reclaimable, Busy, BusyOf, LockedIn, RowPages, PrefixPages
  <2>5. DecodingStays'
    BY <1>26, <1>30 DEF DecodingStays
  <2> QED BY <2>4, <2>5, <1>24, <1>30, Elsewhere
<1> QED BY <1>26, <1>29, <1>30

\* As many tokens of whole pages are as many pages.
LEMMA PageOrder ==
  ASSUME NEW i \in Int, NEW j \in Int, PageSize * i <= PageSize * j
  PROVE  i <= j
<1> SUFFICES ASSUME j < i PROVE FALSE
  OBVIOUS
<1>1. j + 1 \in Int /\ j + 1 <= i
  OBVIOUS
<1>2. PageSize * (j + 1) <= PageSize * i
  BY <1>1, PageProducts
<1>3. PageSize * (j + 1) = PageSize * j + PageSize * 1 /\ PageSize * j \in Int
  BY PageProducts
<1> QED BY <1>2, <1>3, PageSizeAssumption

\* The requests of S that need another page.
FullRows(S) == {x \in S : req[x].committed % PageSize = 0}

\* The free list has a page for each request of the decode batch that needs
\* one.
LEMMA DecodeSupply ==
  ASSUME Control, Memory, Headroom, pc = "alloc_decode",
         NEW e \in Evictions(tree, free, DecodeDemand)
  PROVE  /\ Cardinality(FreePages(e.free)) \in Nat
         /\ IsFiniteSet(FullRows(todo)) /\ Cardinality(FullRows(todo)) \in Nat
         /\ Cardinality(FreePages(e.free)) >= Cardinality(FullRows(todo))
<1> DEFINE N == Cardinality(FreePages(free))
           D == Cardinality(FullRows(todo))
           num == DecodeDemand
<1>1. todo \subseteq Req
  BY DEF Control, LoopInv, TypeOK
<1>2. IsFiniteSet(todo) /\ Cardinality(todo) \in Nat
  BY <1>1, ReqAssumption, FS_Subset, FS_CardinalityType
<1>3. IsFiniteSet(FullRows(todo)) /\ D \in Nat
  <2>1. FullRows(todo) \in SUBSET todo
    BY DEF FullRows
  <2> QED BY <2>1, <1>2, FS_Subset, FS_CardinalityType
<1>4. num \in Int
  <2>1. PageSize * Cardinality(todo) \in Int
    BY <1>2, PageProducts
  <2> QED BY <2>1 DEF DecodeDemand
<1>5. FreePages(free) \in SUBSET FreePages(e.free) /\ FreePages(e.free) \in SUBSET Page
  <2>1. Pools(tree, free, content, req) /\ e \in Evictions(tree, free, num)
    BY DEF Memory, PoolsOK
  <2> HIDE DEF num
  <2>2. FreePages(free) \subseteq FreePages(e.free)
    BY <2>1, <1>4, EvictRoom
  <2> QED BY <2>2 DEF FreePages
<1>6. N \in Nat /\ Cardinality(FreePages(e.free)) \in Nat /\ N <= Cardinality(FreePages(e.free))
  <2>1. FreePages(free) \in SUBSET Page
    BY <1>5
  <2> QED BY <2>1, <1>5, PoolFinite
<1>7. PageSize * D <= PageSize * N
  <2>1. AvailableSize(free) >= DecodeNeed(todo)
    BY DEF Headroom, BatchServed
  <2>2. PageSize * D \in Int /\ PageSize * N \in Int
    BY <1>3, <1>6, PageProducts
  <2> QED BY <2>1, <2>2 DEF AvailableSize, DecodeNeed, FullRows
<1> HIDE DEF N, D
<1>8. D <= N
  BY <1>3, <1>6, <1>7, PageOrder
<1> QED BY <1>3, <1>6, <1>8 DEF D

\* A request of the decode batch takes at most the page that is left for it.
LEMMA DecodeHeadroom ==
  ASSUME Control, Memory, Headroom, NEW r \in Req, Decode(r)
  PROVE  Headroom'
<1> DEFINE q == req[r]
           need == IF q.committed % PageSize = 0 THEN 1 ELSE 0
           num == DecodeDemand
<1>1. pc = "alloc_decode" /\ r \in todo
  BY DEF Decode
<1>2. PICK e \in Evictions(tree, free, num) :
        \/ need > Cardinality(FreePages(e.free))
        \/ \E new \in {AllocPages(e.free, need)}, tok \in Sampled :
             /\ free' = Take(e.free, {new[i] : i \in 1 .. need})
             /\ req' = [req EXCEPT ![r] =
                  [@ EXCEPT !.row = q.row \o new, !.committed = q.committed + 1,
                            !.dev = Append(q.dev, tok)]]
             /\ AddToBatch("decode", r, tok)
             /\ UNCHANGED <<loopVars, passVars, last_batch>>
  BY DEF Decode
<1> DEFINE N == Cardinality(FreePages(e.free))
           FR == FullRows(todo)
           D == Cardinality(FR)
<1>3. N \in Nat /\ IsFiniteSet(FR) /\ D \in Nat /\ N >= D
  BY <1>1, DecodeSupply
<1>4. need = 1 => r \in FR /\ D >= 1
  <2>1. need = 1 => r \in FR
    BY <1>1 DEF FullRows
  <2>2. r \in FR => D >= 1
    <3> HIDE DEF FR
    <3> SUFFICES ASSUME r \in FR, D = 0 PROVE FALSE
      BY <1>3
    <3> QED BY <1>3, FS_EmptySet
  <2> QED BY <2>1, <2>2
<1>5. need \in {0, 1} /\ need \in Nat
  OBVIOUS
<1> HIDE DEF num, N, D, FR
<1>6. ~(need > N) /\ need <= N
  BY <1>3, <1>4, <1>5
<1>7. PICK new \in {AllocPages(e.free, need)}, tok \in Sampled :
        /\ free' = Take(e.free, {new[i] : i \in 1 .. need})
        /\ req' = [req EXCEPT ![r] =
             [@ EXCEPT !.row = q.row \o new, !.committed = q.committed + 1,
                       !.dev = Append(q.dev, tok)]]
        /\ AddToBatch("decode", r, tok)
        /\ UNCHANGED <<loopVars, passVars, last_batch>>
  BY <1>2, <1>6 DEF N
<1>8. HoldsKV(r) /\ q.phase = "running" /\ chunked = NoReq
  BY <1>1, AtBuild DEF HoldsKV, Control, Placed, TodoIs, ChunkIs
<1>9. r \in LockedIn(req) /\ DOMAIN req = Req /\ DOMAIN q = ReqFields
  BY <1>8, LockedRecord
<1> DEFINE row == q.row \o new
           dev == Append(q.dev, tok)
           to == q.committed + 1
           w == [q EXCEPT !.row = row, !.committed = to, !.dev = dev]
<1>10. req' = [req EXCEPT ![r] = w]
  BY <1>7
<1> HIDE DEF row, dev, to
<1>11. w.phase = q.phase /\ w.prompt = q.prompt /\ w.max_new = q.max_new
  BY <1>9 DEF ReqFields
<1> HIDE DEF w
<1>12. req'[r] = w /\ OnlyAt(req, req', r)
  BY <1>9, <1>10 DEF OnlyAt
<1>13. RowsFit' /\ Clipped'
  <2>1. NarrowAt(r)
    BY <1>8, <1>11, <1>12 DEF NarrowAt
  <2> QED BY <2>1, NarrowKeeps DEF Headroom
<1>14. /\ new \in [1 .. need -> FreePages(e.free)]
       /\ \A i, j \in 1 .. need : new[i] = new[j] => i = j
  BY <1>5, <1>6, <1>7, AllocFacts DEF N
<1>15. Cardinality(FreePages(free')) = N - need
  <2>1. Pools(e.tree, e.free, content, req)
    BY PoolsEvictScrub DEF Memory, PoolsOK
  <2> HIDE DEF need
  <2> QED BY <2>1, <1>5, <1>7, <1>14, TakeFacts DEF N
<1>16. /\ AddToBatch("decode", r, tok) /\ last_batch' = last_batch /\ running' = running
       /\ chunked' = chunked
  BY <1>7 DEF loopVars
<1>17. /\ ReqsOf(batch)' = ReqsOf(batch) \cup {r} /\ batch'.kind = "decode"
       /\ \/ todo # {r} /\ todo' = todo \ {r} /\ pc' = "alloc_decode"
          \/ todo = {r} /\ pc' = "process"
  BY <1>1, <1>16, LaunchFacts
<1>18. DecodingStays'
  <2>1. r \in running /\ batch.kind # "extend" /\ (batch.kind = "none" => ReqsOf(batch) = {})
    BY <1>1 DEF Control, Placed, TodoIs, BatchesAre, BatchOK
  <2>2. batch \in Batch
    BY DEF Control, LoopInv, TypeOK
  <2>3. batch.kind \in {"none", "decode"}
    BY <2>1, <2>2 DEF Batch
  <2>4. \A x \in ReqsOf(batch) : HoldsKV(x) => x \in running
    BY <2>1, <2>3 DEF Headroom, DecodingStays
  <2>5. ReqsOf(batch) \subseteq Req
    BY BatchReqs DEF Control
  <2>6. \A x \in ReqsOf(batch) : HoldsKV(x)' => HoldsKV(x)
    BY <2>5, <1>8, <1>12 DEF HoldsKV, OnlyAt
  <2>7. \A x \in ReqsOf(batch)' : HoldsKV(x)' => x \in running'
    BY <2>1, <2>4, <2>6, <1>16, <1>17
  <2>8. pc' \notin {"recv", "admit", "decode", "retract"}
    BY <1>17
  <2> QED BY <2>7, <2>8 DEF DecodingStays
<1>19. PromiseKept'
  <2>1. ~Promised'
    BY <1>8, <1>16, <1>17 DEF Promised, Building
  <2> QED BY <2>1 DEF PromiseKept
<1>20. CASE todo = {r} /\ pc' = "process"
  BY <1>13, <1>18, <1>19, <1>20, Elsewhere
<1>21. CASE todo # {r} /\ todo' = todo \ {r} /\ pc' = "alloc_decode"
  <2> DEFINE G == {x \in todo' : req'[x].committed % PageSize = 0}
  <2>1. G = FR \ {r}
    <3>1. \A x \in todo \ {r} : req'[x] = req[x]
      BY <1>12 DEF OnlyAt, Control, LoopInv, TypeOK
    <3> QED BY <3>1, <1>21 DEF FR, FullRows
  <2>2. Cardinality(G) = IF r \in FR THEN D - 1 ELSE D
    <3> HIDE DEF G
    <3> QED BY <2>1, <1>3, FS_RemoveElement DEF D
  <2>3. need = 1 <=> r \in FR
    BY <1>1 DEF FR, FullRows
  <2>4. Cardinality(G) \in Int /\ Cardinality(G) <= N - need /\ N - need \in Int
    <3> HIDE DEF G, need
    <3>1. need = 0 \/ need = 1
      BY <1>5
    <3>2. CASE need = 0
      BY <3>2, <2>2, <2>3, <1>3
    <3>3. CASE need = 1
      BY <3>3, <2>2, <2>3, <1>3
    <3> QED BY <3>1, <3>2, <3>3
  <2>5. PageSize * Cardinality(G) <= PageSize * (N - need)
    <3> HIDE DEF G, need
    <3> QED BY <2>4, PageProducts
  <2>6. PageSize * Cardinality(G) \in Int /\ PageSize * (N - need) \in Int
    <3> HIDE DEF G, need
    <3> QED BY <2>4, PageProducts
  <2>7. (AvailableSize(free) >= DecodeNeed(todo))'
    <3>1. AvailableSize(free)' = PageSize * (N - need)
      BY <1>15 DEF AvailableSize, FreePages
    <3>2. DecodeNeed(todo)' = PageSize * Cardinality(G)
      BY DEF DecodeNeed
    <3> HIDE DEF G, need
    <3> QED BY <3>1, <3>2, <2>5, <2>6
  <2>8. BatchServed'
    BY <2>7, <1>21 DEF BatchServed
  <2>9. PassCharged' /\ Squeezed' /\ AllocationNeverFails'
    BY <1>21 DEF PassCharged, Squeezed, AllocationNeverFails
  <2> QED BY <2>8, <2>9, <1>13, <1>18, <1>19 DEF Headroom
<1> QED BY <1>17, <1>20, <1>21

-----------------------------------------------------------------------------
(* The decode memory check and retraction *)

\* A memory check that falls short has made everything reclaimable free.
LEMMA UpdateRunningBatchHeadroom ==
  ASSUME Control, Memory, Headroom, UpdateRunningBatch
  PROVE  Headroom'
<1> DEFINE run == running \ FinishingInflight
           num == DecodeNeed(run)
<1>1. /\ pc = "decode" /\ running' = run
      /\ UNCHANGED <<req, chunked, batch, last_batch, queue>>
  BY DEF UpdateRunningBatch, batchVars
<1>2. \/ pc' = "process"
      \/ \E e \in Evictions(tree, free, num) :
           /\ run # {} /\ tree' = e.tree /\ free' = e.free
           /\ \/ AvailableSize(e.free) >= num /\ pc' = "alloc_decode" /\ todo' = run
              \/ AvailableSize(e.free) < num /\ FinishingInflight = {} /\ pc' = "retract"
  BY DEF UpdateRunningBatch, NoBatchToRun
<1>3. chunked = NoReq /\ todo = {} /\ batch.kind = "none"
  BY <1>1 DEF Control, Placed, ChunkIs, TodoIs, BatchesAre
<1>4. RowsFit' /\ Clipped'
  BY <1>1 DEF Headroom, RowsFit, Clipped, ClippedTo, LockedIn
<1>5. pc' \in {"process", "alloc_decode"} => PromiseKept' /\ DecodingStays'
  BY <1>1, <1>3 DEF PromiseKept, Promised, Building, DecodingStays
<1>6. CASE pc' = "process"
  BY <1>4, <1>5, <1>6, Elsewhere
<1>7. ASSUME pc' # "process" PROVE Headroom'
  <2>1. PICK e \in Evictions(tree, free, num) :
          /\ run # {} /\ tree' = e.tree /\ free' = e.free
          /\ \/ AvailableSize(e.free) >= num /\ pc' = "alloc_decode" /\ todo' = run
             \/ AvailableSize(e.free) < num /\ FinishingInflight = {} /\ pc' = "retract"
    BY <1>2, <1>7
  <2>2. CASE AvailableSize(e.free) >= num /\ pc' = "alloc_decode" /\ todo' = run
    <3>1. (AvailableSize(free) >= DecodeNeed(todo))'
      BY <2>1, <2>2, <1>1 DEF DecodeNeed, AvailableSize, FreePages
    <3>2. BatchServed'
      BY <3>1, <2>2 DEF BatchServed
    <3>3. PassCharged' /\ Squeezed' /\ AllocationNeverFails'
      BY <2>2 DEF PassCharged, Squeezed, AllocationNeverFails
    <3> QED BY <3>2, <3>3, <2>2, <1>4, <1>5 DEF Headroom
  <2>3. CASE AvailableSize(e.free) < num /\ FinishingInflight = {} /\ pc' = "retract"
    <3>1. run = running /\ running' = running
      BY <2>3, <1>1
    <3>2. num \in Int
      <4>1. run \subseteq Req
        BY DEF Control, LoopInv, TypeOK
      <4>2. Cardinality({x \in run : req[x].committed % PageSize = 0}) \in Nat
        BY <4>1, ReqAssumption, FS_Subset, FS_CardinalityType
      <4> QED BY <4>2, PageProducts DEF DecodeNeed
    <3> HIDE DEF num
    <3>3. Busy(e.tree, req) = Busy(tree, req)
          /\ (AvailableSize(e.free) >= num \/ FreePages(e.free) = Reclaimable(tree, req))
      BY <3>2, EvictRoom DEF Memory, PoolsOK
    <3>4. AvailableSize(e.free) \in Int
      <4>1. FreePages(e.free) \in SUBSET Page
        BY DEF FreePages
      <4>2. Cardinality(FreePages(e.free)) \in Nat
        BY <4>1, PoolFinite
      <4> QED BY <4>2, PageProducts DEF AvailableSize
    <3>5. FreePages(e.free) = Reclaimable(e.tree, req) /\ RoomOf(e.tree, req) = RoomOf(tree, req)
      BY <3>2, <3>3, <3>4, <2>3 DEF Reclaimable, RoomOf
    <3>6. PromiseKept'
      <4>1. Promised' => Promised
        BY <1>1, <1>3, <2>3 DEF Promised, Building
      <4>2. PagesToGive' = PagesToGive /\ ChunkRest' = ChunkRest
        BY <1>1, <1>3, <2>3 DEF PagesToGive, Building, ChunkRest
      <4>3. RoomOf(tree', req') >= RoomOf(tree, req)
        BY <3>5, <2>1, <1>1, RoomNat
      <4> QED BY <4>1, <4>2, <4>3, PromiseKeeps DEF Headroom
    <3>7. DecodingStays'
      <4>1. \A x \in Req : HoldsKV(x)' => HoldsKV(x) /\ (x \in running => x \in running')
        BY <1>1, <3>1 DEF HoldsKV
      <4>2. DecodingStays /\ UNCHANGED <<batch, last_batch>> /\ pc \in {"recv", "admit", "decode", "retract"}
        BY <1>1 DEF Headroom
      <4> QED BY <4>1, <4>2, DecodingKeeps
    <3>8. Squeezed'
      <4>1. FreePages(free)' = Reclaimable(tree, req)'
        <5>1. FreePages(free') = Reclaimable(tree', req')
          BY <3>5, <2>1, <1>1
        <5> QED BY <5>1 DEF FreePages, Reclaimable, Busy, BusyOf, LockedIn, RowPages, PrefixPages
      <4>2. (AvailableSize(free) < DecodeNeed(running))'
        BY <2>1, <2>3, <3>1, <1>1 DEF num, DecodeNeed, AvailableSize, FreePages
      <4>3. ASSUME Overlap, NEW x \in running \cap ReqsOf(last_batch)
            PROVE  ~NextOutputFinishesByLength(x)
        <5>1. last_batch.kind # "none"
          BY DEF Control, Placed, BatchesAre, BatchOK
        <5>2. queue = (IF Overlap /\ last_batch.kind # "none" THEN <<last_batch>> ELSE << >>) \o << >>
          BY <1>1 DEF Control, Placed, QueueIs
        <5>3. queue # << >> /\ Head(queue) = last_batch
          BY <5>1, <5>2, <4>3
        <5> QED BY <5>3, <4>3, <2>3 DEF FinishingInflight
      <4>4. (Overlap => \A x \in running \cap ReqsOf(last_batch) : ~NextOutputFinishesByLength(x))'
        BY <4>3, <3>1, <1>1 DEF NextOutputFinishesByLength, ReqsOf
      <4>5. running' # {}
        BY <2>1, <1>1
      <4> QED BY <4>1, <4>2, <4>4, <4>5 DEF Squeezed
    <3>9. BatchServed' /\ PassCharged' /\ AllocationNeverFails'
      BY <2>3 DEF BatchServed, PassCharged, AllocationNeverFails
    <3> QED BY <3>6, <3>7, <3>8, <3>9, <1>4 DEF Headroom
  <2> QED BY <2>1, <2>2, <2>3
<1> QED BY <1>6, <1>7

\* A text that fills whole pages fills all of them.
LEMMA FullPages ==
  ASSUME NEW n \in Nat, n % PageSize = 0
  PROVE  n = PageSize * CeilPages(n) /\ CeilPages(n) \in Nat
<1> DEFINE d == n \div PageSize
           m == n % PageSize
<1>0. PageSize \in Nat /\ PageSize > 0
  BY PageSizeAssumption
<1>1. n = d * PageSize + m /\ m \in 0 .. PageSize - 1 /\ d \in Nat
  BY <1>0, SMTT(60)
<1>2. d * PageSize = PageSize * d /\ PageSize * d \in Int
  <2> HIDE DEF d
  <2> QED BY <1>0, <1>1, PageProducts
<1>3. m = 0
  OBVIOUS
<1>4. Whole(n)
  <2>1. d * PageSize = n
    <3> HIDE DEF d, m
    <3> QED BY <1>1, <1>2, <1>3
  <2> QED BY <2>1 DEF Whole, AlignDown
<1>5. CeilPages(n) = d
  BY <1>4, CeilFacts
<1> HIDE DEF d, m
<1> QED BY <1>1, <1>2, <1>3, <1>5

\* What a request alone in the decode batch has committed is short of the pool:
\* its output was clipped, and at the retraction its next token is not its last.
LEMMA AloneIsShort ==
  ASSUME Control, Memory, Headroom, pc = "retract", NEW r \in Req, r \in running
  PROVE  req[r].committed \in Nat /\ req[r].committed < Capacity
<1> DEFINE q == req[r]
           C == q.committed
           P == Len(q.prompt)
           O == Len(q.out)
           M == q.max_new
<1>1. HoldsKV(r) /\ q.phase = "running" /\ chunked = NoReq /\ r # chunked
  BY ReqAssumption DEF Control, Placed, Members, ChunkIs, HoldsKV
<1>2. /\ q.dev = (Fill(r) \o OldToken(r)) \o NewToken(r)
      /\ Fill(r) \in Key /\ OldToken(r) \in Key /\ NewToken(r) \in Key
  BY <1>1, FillIsPrefix
<1>3. NewToken(r) = << >>
  <2>1. ReqsOf(batch) = {}
    BY DEF Control, Placed, BatchesAre, BatchOK
  <2> QED BY <2>1 DEF NewToken, DueNew
<1>4. P \in Nat /\ O \in Nat /\ Len(Fill(r)) = P + O
  <2>1. q.prompt \in Key /\ q.out \in Key
    BY DEF Control, RequestsOK, ControlOK
  <2> QED BY <2>1, ConcatKeys DEF Fill
<1>5. Len(q.dev) = P + O + Len(OldToken(r)) /\ Len(OldToken(r)) \in Nat
  <2> DEFINE u == Fill(r)
             v == OldToken(r)
  <2>1. u \in Seq(Token) /\ v \in Seq(Token)
    BY <1>2 DEF Key
  <2>2. q.dev = u \o v
    BY <2>1, <1>2, <1>3
  <2> HIDE DEF u, v
  <2>3. Len(u \o v) = Len(u) + Len(v) /\ Len(v) \in Nat
    BY <2>1
  <2> QED BY <2>2, <2>3, <1>4 DEF u, v
<1>6. C \in Nat /\ Len(q.dev) = C + 1
  <2>1. StageOK(r) /\ ~Extending(r)
    BY DEF Memory, Sizes, Extending
  <2>2. r \in HoldersIn(req) /\ Pools(tree, free, content, req)
    BY <1>1 DEF HoldersIn, Memory, PoolsOK
  <2>3. C \in Nat
    BY <2>2 DEF Pools, RowsOK, RowOK, RowShape
  <2> QED BY <2>1, <2>3, <1>1 DEF StageOK
<1>7. M \in Nat /\ O <= M
  BY <1>1 DEF Memory, Sizes, RecordOK
<1>8. P + M < Capacity
  BY <1>1 DEF Headroom, Clipped, ClippedTo
<1>9. Capacity \in Int
  BY PoolFinite, PageProducts DEF Capacity
<1>10. CASE OldToken(r) = << >>
  <2>1. Len(OldToken(r)) = 0
    BY <1>10
  <2> HIDE DEF C, P, O, M
  <2> QED BY <2>1, <1>4, <1>5, <1>6, <1>7, <1>8, <1>9 DEF C
<1>11. CASE OldToken(r) # << >>
  <2>1. Overlap /\ r \in ReqsOf(last_batch) /\ OldToken(r) = <<last_batch.tok[r]>>
    BY <1>11 DEF OldToken, DueOld
  <2>2. ~NextOutputFinishesByLength(r)
    BY <2>1 DEF Headroom, Squeezed
  <2>3. ~(O + 1 >= M)
    BY <2>2 DEF NextOutputFinishesByLength
  <2>4. Len(OldToken(r)) = 1
    BY <2>1
  <2> HIDE DEF C, P, O, M
  <2> QED BY <2>3, <2>4, <1>4, <1>5, <1>6, <1>7, <1>8, <1>9 DEF C
<1> QED BY <1>10, <1>11

\* While nothing is reclaimable at a retraction, nobody but the running
\* requests holds pages.
LEMMA OnlyRunningHold ==
  ASSUME Control, Memory, Headroom, pc = "retract", RoomOf(tree, req) = 0
  PROVE  \A x \in HoldersIn(req) : x \in running
<1>1. chunked = NoReq /\ batch.kind = "none" /\ BatchOK(last_batch) /\ last_batch \in Batch
  BY DEF Control, Placed, ChunkIs, BatchesAre, LoopInv, TypeOK
<1>2. last_batch.kind # "extend"
  <2> SUFFICES ASSUME last_batch.kind = "extend" PROVE FALSE
    OBVIOUS
  <2>1. Promised /\ PagesToGive = 0 /\ ChunkRest \in Nat
    BY ChunkRestNat DEF Promised, PagesToGive, Building
  <2> QED BY <2>1 DEF Headroom, PromiseKept
<1> SUFFICES ASSUME NEW x \in HoldersIn(req) PROVE x \in running
  OBVIOUS
<1>3. x \in Req /\ HoldsKV(x)
  BY DEF HoldersIn, HoldsKV
<1>4. Kept(x)
  BY <1>3 DEF Memory, NoneLost
<1>5. x \in running \/ LastResult(x)
  BY <1>1, <1>3, <1>4, ReqAssumption DEF Kept, Extending
<1>6. CASE LastResult(x)
  <2>1. x \in ReqsOf(last_batch)
    BY <1>6 DEF LastResult
  <2>2. last_batch.kind = "decode"
    BY <2>1, <1>1, <1>2 DEF BatchOK, Batch
  <2> QED BY <2>1, <2>2, <1>3 DEF Headroom, DecodingStays
<1> QED BY <1>5, <1>6

\* A request alone in the decode batch has its page.
LEMMA AloneFits ==
  ASSUME Control, Memory, Headroom
  PROVE  LastRequestFits
<1> SUFFICES ASSUME pc = "retract", ~(Cardinality(running) > 1) PROVE FALSE
  BY DEF LastRequestFits
<1>1. /\ FreePages(free) = Reclaimable(tree, req) /\ AvailableSize(free) < DecodeNeed(running)
      /\ running # {}
  BY DEF Headroom, Squeezed
<1>2. PICK r \in Req : running = {r}
  <2>1. IsFiniteSet(running) /\ Cardinality(running) \in Nat /\ running \subseteq Req
    BY ReqAssumption, FS_Subset, FS_CardinalityType DEF Control, LoopInv, TypeOK
  <2>2. Cardinality(running) # 0
    BY <2>1, <1>1, FS_EmptySet
  <2>3. Cardinality(running) = 1
    BY <2>1, <2>2
  <2>4. \E x : running = {x}
    BY <2>1, <2>3, FS_Singleton
  <2> QED BY <2>1, <2>4
<1> DEFINE C == req[r].committed
           K == CeilPages(C)
           N == Cardinality(FreePages(free))
           A == Cardinality(Page)
<1>3. C \in Nat /\ C < Capacity
  BY <1>2, AloneIsShort
<1>4. N \in Nat /\ A \in Nat /\ FreePages(free) \in SUBSET Page
  <2>1. FreePages(free) \in SUBSET Page
    BY DEF FreePages
  <2> QED BY <2>1, PoolFinite
<1>5. PageSize * N < DecodeNeed(running)
  BY <1>1 DEF AvailableSize
<1>6. C % PageSize = 0 /\ N = 0
  <2> DEFINE S == {x \in running : req[x].committed % PageSize = 0}
  <2>1. DecodeNeed(running) = PageSize * Cardinality(S)
    BY DEF DecodeNeed
  <2>2. C % PageSize = 0 => S = {r} /\ Cardinality(S) = 1
    <3>1. C % PageSize = 0 => S = {r}
      BY <1>2
    <3> HIDE DEF S
    <3> QED BY <3>1, SmallSets
  <2>3. C % PageSize # 0 => S = {} /\ Cardinality(S) = 0
    <3>1. C % PageSize # 0 => S = {}
      BY <1>2
    <3> HIDE DEF S
    <3> QED BY <3>1, SmallSets
  <2>4. PageSize * N < PageSize * Cardinality(S)
    BY <2>1, <1>5
  <2> HIDE DEF S, N
  <2>5. Cardinality(S) \in {0, 1}
    BY <2>2, <2>3
  <2>6. N < Cardinality(S)
    <3> DEFINE s == Cardinality(S)
    <3>1. s \in Int /\ PageSize * N < PageSize * s
      BY <2>4, <2>5
    <3> HIDE DEF s
    <3>2. N < s
      BY <3>1, <1>4, PageProducts
    <3> QED BY <3>2 DEF s
  <2> QED BY <2>2, <2>3, <2>5, <2>6, <1>4
<1>7. Reclaimable(tree, req) = {} /\ RoomOf(tree, req) = 0
  <2>1. IsFiniteSet(FreePages(free))
    BY <1>4, PoolFinite
  <2>2. FreePages(free) = {}
    BY <2>1, <1>6, FS_EmptySet
  <2> QED BY <2>2, <1>1, <1>6 DEF RoomOf
<1>8. Page \subseteq RowPages(req[r])
  <2> SUFFICES ASSUME NEW p \in Page PROVE p \in RowPages(req[r])
    OBVIOUS
  <2>1. p \in Busy(tree, req)
    BY <1>7 DEF Reclaimable
  <2>2. PICK x \in HoldersIn(req) : p \in RowPages(req[x])
    BY <2>1, LockedHaveRows, BusyRows
  <2>3. x = r
    BY <1>2, <1>7, OnlyRunningHold
  <2> QED BY <2>2, <2>3
<1>9. Len(req[r].row) = K /\ K \in Nat
  <2>1. r \in HoldersIn(req)
    BY <1>2 DEF Control, Placed, Members, HoldsKV, HoldersIn
  <2>2. RowShape(req[r])
    BY <2>1 DEF Memory, PoolsOK, Pools, RowsOK, RowOK
  <2> QED BY <2>2, <1>3, CeilFacts DEF RowShape
<1>10. A <= K
  <2> DEFINE I == 1 .. K
             row == req[r].row
  <2>1. IsFiniteSet(I) /\ Cardinality(I) = K
    BY <1>9, FS_Interval
  <2>2. RowPages(req[r]) = {row[i] : i \in I}
    BY <1>9 DEF RowPages
  <2>3. IsFiniteSet(I)
    BY <2>1
  <2> HIDE DEF I, row
  <2>4. IsFiniteSet({row[i] : i \in I}) /\ Cardinality({row[i] : i \in I}) <= Cardinality(I)
    BY <2>3, ImageSize
  <2> DEFINE T == {row[i] : i \in I}
  <2>5. Page \in SUBSET T /\ IsFiniteSet(T) /\ Cardinality(T) <= K
    BY <2>1, <2>2, <2>4, <1>8
  <2> HIDE DEF T, K
  <2>6. Cardinality(Page) <= Cardinality(T) /\ Cardinality(T) \in Nat
    BY <2>5, FS_Subset, FS_CardinalityType
  <2> QED BY <2>5, <2>6, <1>4, <1>9
<1>11. C = PageSize * K
  BY <1>3, <1>6, FullPages
<1>12. PageSize * A <= PageSize * K
  <2> HIDE DEF A, K
  <2> QED BY <1>4, <1>9, <1>10, PageProducts
<1>13. PageSize * A \in Int /\ Capacity = PageSize * A
  BY <1>4, PageProducts DEF Capacity
<1> HIDE DEF A, K, C
<1> QED BY <1>3, <1>11, <1>12, <1>13

\* A round of retract_decode leaves the rest of the batch its pages, or has
\* made everything reclaimable free again.
LEMMA RetractHeadroom ==
  ASSUME Control, Memory, Headroom, NEW r \in Req, Retract(r)
  PROVE  Headroom'
<1>1. pc = "retract" /\ r \in running /\ todo = {} /\ chunked = NoReq /\ batch.kind = "none"
  BY DEF Retract, Control, Placed, TodoIs, ChunkIs, BatchesAre
<1>2. DOMAIN req = Req /\ ControlOK(req[r]) /\ DOMAIN req[r] = ReqFields
  BY DEF Control, LoopInv, TypeOK, RequestsOK, ControlOK
<1>3. HoldsKV(r) /\ r \in HoldersIn(req) /\ req[r].phase = "running"
  BY <1>1 DEF Control, Placed, Members, HoldsKV, HoldersIn
<1>4. running # {r}
  <2>1. Cardinality(running) > 1
    BY <1>1, AloneFits DEF LastRequestFits
  <2> QED BY <2>1, SmallSets
<1> DEFINE rel == ReleaseKV(tree, req[r], FALSE)
           q == ResetForRetract(rel.req, "waiting")
           rest == running \ {r}
           n1 == Cardinality(rest) * RetractSteps
           n2 == DecodeNeed(rest)
<1>5. PICK e1 \in Evictions(rel.tree, Release(free, rel.own), n1) :
      \E e2 \in Evictions(e1.tree, e1.free, n2) :
        /\ tree' = e2.tree /\ free' = e2.free
        /\ req' = [req EXCEPT ![r] = q] /\ running' = rest
        /\ \/ AvailableSize(e2.free) >= n2 /\ pc' = "alloc_decode" /\ todo' = rest
           \/ ~(AvailableSize(e2.free) >= n2) /\ pc' = "retract" /\ todo' = todo
        /\ UNCHANGED <<chunked, batch, last_batch>>
  BY <1>1, <1>4 DEF Retract, RetractOne, batchVars
<1>6. PICK e2 \in Evictions(e1.tree, e1.free, n2) :
        /\ tree' = e2.tree /\ free' = e2.free
        /\ req' = [req EXCEPT ![r] = q] /\ running' = rest
        /\ \/ AvailableSize(e2.free) >= n2 /\ pc' = "alloc_decode" /\ todo' = rest
           \/ ~(AvailableSize(e2.free) >= n2) /\ pc' = "retract" /\ todo' = todo
        /\ UNCHANGED <<chunked, batch, last_batch>>
  BY <1>5
<1>7. /\ DOMAIN rel.req = ReqFields /\ rel.req.prompt = req[r].prompt
      /\ rel.req.max_new = req[r].max_new
  BY <1>2 DEF ReleaseKV, FreeRow, ReqFields
<1> HIDE DEF rel, n1, n2
<1>8. q.phase = "waiting" /\ q.prompt = req[r].prompt /\ q.max_new = req[r].max_new
  BY <1>7 DEF ResetForRetract, ReqFields
<1> HIDE DEF q
<1>9. req'[r] = q /\ OnlyAt(req, req', r)
  BY <1>2, <1>6 DEF OnlyAt
<1>10. RowsFit' /\ Clipped'
  <2>1. NarrowAt(r)
    BY <1>3, <1>8, <1>9 DEF NarrowAt
  <2> QED BY <2>1, NarrowKeeps DEF Headroom
<1>11. \A x \in rest : x \in Req /\ req'[x] = req[x]
  BY <1>9 DEF OnlyAt, Control, LoopInv, TypeOK
<1>12. n2 \in Int
  <2>1. rest \subseteq Req
    BY <1>11
  <2>2. Cardinality({x \in rest : req[x].committed % PageSize = 0}) \in Nat
    BY <2>1, ReqAssumption, FS_Subset, FS_CardinalityType
  <2> QED BY <2>2, PageProducts DEF DecodeNeed, n2
<1>13. CASE AvailableSize(e2.free) >= n2 /\ pc' = "alloc_decode" /\ todo' = rest
  <2>1. (AvailableSize(free) >= DecodeNeed(todo))'
    BY <1>6, <1>11, <1>13 DEF n2, DecodeNeed, AvailableSize, FreePages
  <2>2. BatchServed'
    BY <2>1, <1>13 DEF BatchServed
  <2>3. PassCharged' /\ Squeezed' /\ AllocationNeverFails'
    BY <1>13 DEF PassCharged, Squeezed, AllocationNeverFails
  <2>4. PromiseKept' /\ DecodingStays'
    BY <1>1, <1>6, <1>13 DEF PromiseKept, Promised, Building, DecodingStays
  <2> QED BY <2>2, <2>3, <2>4, <1>10 DEF Headroom
<1>14. CASE ~(AvailableSize(e2.free) >= n2) /\ pc' = "retract" /\ todo' = todo
  <2>1. PromiseKept'
    <3>1. Promised' => Promised
      BY <1>1, <1>6, <1>14 DEF Promised, Building
    <3>2. PagesToGive' = PagesToGive /\ ChunkRest' = ChunkRest
      BY <1>1, <1>6, <1>14 DEF PagesToGive, Building, ChunkRest
    <3>3. RoomOf(tree', req') >= RoomOf(tree, req)
      <4>1. LockedIn(req) \subseteq HoldersIn(req)
        BY <1>1, LockedHaveRows
      <4>2. req'[r].phase \notin {"admitted", "running"}
        BY <1>8, <1>9
      <4>3. Busy(tree', req') \subseteq Busy(tree, req)
        BY <4>1, <4>2, <1>9, BusyRelease
      <4> QED BY <4>3, RoomGrows
    <3> QED BY <3>1, <3>2, <3>3, PromiseKeeps DEF Headroom
  <2>2. DecodingStays'
    <3>1. \A x \in Req : HoldsKV(x)' => HoldsKV(x) /\ (x \in running => x \in running')
      <4> SUFFICES ASSUME NEW x \in Req, HoldsKV(x)'
                   PROVE  HoldsKV(x) /\ (x \in running => x \in running')
        OBVIOUS
      <4>1. x # r
        BY <1>8, <1>9 DEF HoldsKV
      <4> QED BY <4>1, <1>6, <1>9 DEF HoldsKV, OnlyAt
    <3>2. DecodingStays /\ UNCHANGED <<batch, last_batch>> /\ pc \in {"recv", "admit", "decode", "retract"}
      BY <1>1, <1>6 DEF Headroom
    <3> QED BY <3>1, <3>2, DecodingKeeps
  <2>3. Squeezed'
    <3> DEFINE rq == req'
    <3>1. ReleasePools(tree, free, content, rel, rq)
      <4>1. ReleaseMade(tree, free, content, req, r, rq)
        BY <1>2, <1>3, <1>8, <1>9 DEF ReleaseMade, Memory, PoolsOK
      <4> HIDE DEF rq
      <4> QED BY <4>1, ReleaseStep DEF rel
    <3> HIDE DEF rq
    <3>2. Pools(rel.tree, Release(free, rel.own), Scrub(content, rel.own), rq)
      BY <3>1 DEF ReleasePools
    <3>3. Pools(e1.tree, e1.free, Scrub(content, rel.own), rq)
      BY <3>2, PoolsEvictScrub
    <3>4. /\ Busy(e2.tree, rq) = Busy(e1.tree, rq)
          /\ AvailableSize(e2.free) >= n2 \/ FreePages(e2.free) = Reclaimable(e1.tree, rq)
      BY <3>3, <1>12, EvictRoom
    <3>5. FreePages(e2.free) = Reclaimable(e2.tree, rq)
      BY <3>4, <1>14 DEF Reclaimable
    <3>6. FreePages(free)' = Reclaimable(tree, req)'
      <4>1. FreePages(free') = Reclaimable(tree', req')
        BY <3>5, <1>6 DEF rq
      <4> QED BY <4>1 DEF FreePages, Reclaimable, Busy, BusyOf, LockedIn, RowPages, PrefixPages
    <3>7. AvailableSize(e2.free) \in Int
      <4>1. FreePages(e2.free) \in SUBSET Page
        BY DEF FreePages
      <4>2. Cardinality(FreePages(e2.free)) \in Nat
        BY <4>1, PoolFinite
      <4> QED BY <4>2, PageProducts DEF AvailableSize
    <3>8. AvailableSize(e2.free) < n2
      BY <3>7, <1>12, <1>14
    <3>9. (AvailableSize(free) < DecodeNeed(running))'
      BY <3>8, <1>6, <1>11 DEF n2, DecodeNeed, AvailableSize, FreePages
    <3>10. running' # {}
      BY <1>1, <1>4, <1>6
    <3>11. (Overlap => \A x \in running \cap ReqsOf(last_batch) : ~NextOutputFinishesByLength(x))'
      BY <1>1, <1>6, <1>11 DEF Headroom, Squeezed, NextOutputFinishesByLength, ReqsOf
    <3> QED BY <3>6, <3>9, <3>10, <3>11 DEF Squeezed
  <2>4. BatchServed' /\ PassCharged' /\ AllocationNeverFails'
    BY <1>14 DEF BatchServed, PassCharged, AllocationNeverFails
  <2> QED BY <2>1, <2>2, <2>3, <2>4, <1>10 DEF Headroom
<1> QED BY <1>6, <1>13, <1>14

-----------------------------------------------------------------------------
(* Results *)

\* A result that puts no more pages in use keeps the headroom.
LEMMA ResultHeadroom ==
  ASSUME Control, Memory, Headroom, NEW r \in Req, ProcessStep(r), NarrowAt(r),
         HoldsKV(r)' => HoldsKV(r), RoomOf(tree', req') >= RoomOf(tree, req),
         r = chunked => /\ req'[r].prompt = req[r].prompt /\ req'[r].out = req[r].out
                        /\ req'[r].extend_end = req[r].extend_end
  PROVE  Headroom'
<1>1. /\ pc = "process" /\ pc' = "process"
      /\ UNCHANGED <<running, chunked, batch, last_batch>>
  BY DEF ProcessStep, loopVars, batchVars
<1>2. RowsFit' /\ Clipped'
  BY NarrowKeeps DEF Headroom
<1>3. OnlyAt(req, req', r)
  BY DEF NarrowAt
<1>4. PromiseKept'
  <2>1. chunked \in Req \cup {NoReq}
    BY DEF Control, LoopInv, TypeOK
  <2>2. chunked # NoReq => /\ req'[chunked].prompt = req[chunked].prompt
                           /\ req'[chunked].out = req[chunked].out
                           /\ req'[chunked].extend_end = req[chunked].extend_end
    BY <2>1, <1>3 DEF OnlyAt
  <2>3. ChunkRest' = ChunkRest
    BY <2>2, <1>1, ChunkRestKeeps
  <2>4. Promised' => Promised
    BY <1>1 DEF Promised, Building
  <2>5. PagesToGive' = PagesToGive
    BY <1>1 DEF PagesToGive, Building
  <2> QED BY <2>3, <2>4, <2>5, PromiseKeeps DEF Headroom
<1>5. DecodingStays'
  <2>1. \A x \in Req : HoldsKV(x)' => HoldsKV(x) /\ (x \in running => x \in running')
    BY <1>1, <1>3 DEF HoldsKV, OnlyAt
  <2>2. pc' \notin {"recv", "admit", "decode", "retract"} /\ DecodingStays
    BY <1>1 DEF Headroom
  <2> QED BY <2>1, <2>2, <1>1, DecodingKeeps
<1> QED BY <1>1, <1>2, <1>4, <1>5, Elsewhere

\* A result that is dropped, or that counts down the middle chunks.
LEMMA UncommittedHeadroom ==
  ASSUME Control, Memory, Headroom, NEW r \in Req, ProcessStep(r), tree' = tree,
         OnlyAt(req, req', r), SameMemory(req'[r], req[r])
  PROVE  Headroom'
<1>1. /\ req'[r].phase = req[r].phase /\ req'[r].prompt = req[r].prompt
      /\ req'[r].out = req[r].out /\ req'[r].max_new = req[r].max_new
      /\ req'[r].extend_end = req[r].extend_end
      /\ req'[r].row = req[r].row /\ req'[r].lock = req[r].lock
  BY DEF SameMemory, SameRow
<1>2. NarrowAt(r)
  BY <1>1 DEF NarrowAt
<1>3. RoomOf(tree', req') >= RoomOf(tree, req)
  <2> DEFINE rq == req'
  <2>1. \A x \in Req : /\ rq[x].phase = req[x].phase /\ rq[x].row = req[x].row
                       /\ rq[x].lock = req[x].lock
    BY <1>1 DEF OnlyAt
  <2> HIDE DEF rq
  <2>2. LockedIn(rq) \subseteq LockedIn(req) /\ LockedIn(rq) \subseteq Req
    BY <2>1 DEF LockedIn
  <2>3. Busy(tree, rq) \subseteq Busy(tree, req)
    BY <2>1, <2>2, BusyKeeps
  <2>4. RoomOf(tree, rq) >= RoomOf(tree, req)
    BY <2>3, RoomGrows
  <2> QED BY <2>4 DEF rq
<1>4. HoldsKV(r)' => HoldsKV(r)
  BY <1>1 DEF HoldsKV
<1> QED BY <1>1, <1>2, <1>3, <1>4, ResultHeadroom

\* A committed token keeps the headroom; the request finishes, or checkpoints,
\* or runs on.
LEMMA CommitHeadroom ==
  ASSUME Control, Memory, Headroom, NEW r \in Req, ProcessStep(r), HoldsKV(r), NEW kind,
         NEW h, h = Head(queue), h.chunked # r, Commit(r, kind)
  PROVE  Headroom'
<1> DEFINE tok == h.tok[r]
           q == Committed(r, tok)
           n == q.extend_end
           a == Checkpoint(tree, q, n)
           rel == ReleaseKV(tree, q, TRUE)
<1>0. /\ IsPrefixOf(Append(Fill(r), tok), req[r].dev) /\ tok \in Token
  BY CommittedPrefix
<1>1. PICK stop \in BOOLEAN :
        IF FinishedAfter(q, stop) THEN Effect(r, rel, Finish(q))
        ELSE IF kind = "extend" THEN Effect(r, a, Resume(a.req))
        ELSE req' = [req EXCEPT ![r] = q] /\ UNCHANGED treeVars
  BY DEF Commit, Committed
<1>2. /\ DOMAIN req = Req /\ r \in HoldersIn(req) /\ req[r].phase = "running"
      /\ RecordOK(req[r]) /\ Pools(tree, free, content, req) /\ pc = "process"
  BY DEF Control, LoopInv, TypeOK, HoldsKV, HoldersIn, Memory, Sizes, PoolsOK, ProcessStep
<1>3. /\ SameRow(q, req[r]) /\ ControlOK(q) /\ q.phase = "running"
      /\ q.out = Append(req[r].out, tok) /\ q.prompt = req[r].prompt /\ q.max_new = req[r].max_new
      /\ q.prefix = req[r].prefix /\ q.extend_end = req[r].extend_end
      /\ q.prompt \o q.out = Append(Fill(r), tok)
      /\ Len(q.out) <= q.max_new => RecordOK(q)
  BY <1>0, CommittedRecord, ZenonT(60)
<1> HIDE DEF q
<1>4. q.dev = req[r].dev /\ q.committed = req[r].committed /\ q.protected = req[r].protected
      /\ q.row = req[r].row /\ q.lock = req[r].lock
  BY <1>3 DEF SameRow
<1>5. LockedIn(req) \subseteq HoldersIn(req) /\ r # chunked
  BY <1>2, LockedHaveRows, ResultFacts
<1>6. CASE FinishedAfter(q, stop)
  <2>1. Effect(r, rel, Finish(q))
    BY <1>1, <1>6
  <2>2. Finish(q).phase = "finished"
    BY <1>3, FinishControl DEF ControlOK
  <2>3. req'[r].phase = "finished" /\ OnlyAt(req, req', r)
    BY <2>1, <2>2, <1>2 DEF Effect, OnlyAt
  <2>4. NarrowAt(r) /\ ~HoldsKV(r)'
    BY <2>3 DEF NarrowAt, HoldsKV
  <2>5. RoomOf(tree', req') >= RoomOf(tree, req)
    <3>1. req'[r].phase \notin {"admitted", "running"}
      BY <2>3
    <3>2. Busy(tree', req') \subseteq Busy(tree, req)
      BY <3>1, <2>3, <1>5, BusyRelease
    <3> QED BY <3>2, RoomGrows
  <2> QED BY <2>4, <2>5, <1>5, ResultHeadroom
<1>7. CASE ~FinishedAfter(q, stop) /\ kind = "extend"
  <2>1. Effect(r, a, Resume(a.req))
    BY <1>1, <1>7
  <2>2. req'[r] = Resume(a.req) /\ OnlyAt(req, req', r)
    BY <2>1, <1>2 DEF Effect, OnlyAt
  <2>3. DOMAIN q = ReqFields
    BY <1>3 DEF ControlOK
  <2>4. SameControl(a.req, q) /\ SameControl(Resume(a.req), q)
    BY <2>3, CheckpointControl
  <2>5. SameRow(Resume(a.req), Checkpoint(tree, q, n).req)
    <3>1. DOMAIN a.req = ReqFields
      BY <2>4 DEF SameControl
    <3> HIDE DEF a
    <3>2. SameRow(Resume(a.req), a.req)
      BY <3>1 DEF Resume, SameRow, ReqFields
    <3> QED BY <3>2 DEF a
  <2>6. req'[r].phase = "running" /\ req'[r].prompt = req[r].prompt
    BY <2>2, <2>4, <1>3 DEF SameControl
  <2>7. MayCheckpoint(req, r, q, n)
    <3>1. /\ req[r].protected \in Nat /\ req[r].prefix \in Nat /\ n \in Nat
          /\ req[r].protected <= req[r].prefix /\ req[r].prefix <= n /\ n <= Len(Fill(r))
          /\ Fill(r) \in Key /\ Len(Fill(r)) \in Nat
      BY <1>2, <1>3, LockedRecord
    <3>2. StageOK(r) /\ ~Extending(r)
      BY <1>2 DEF Memory, Sizes, Extending
    <3>3. n <= q.committed
      BY <3>2, <1>2, <1>3, <1>4 DEF StageOK
    <3> DEFINE G == Append(Fill(r), tok)
               L == Len(Fill(r))
    <3>4. Len(G) = L + 1 /\ L \in Nat /\ n <= L
      BY <3>1, <1>0, AppendKey
    <3> HIDE DEF G, L
    <3>5. q.protected <= Len(G) /\ q.protected <= n
      BY <3>1, <3>4, <1>4
    <3>6. q.protected <= Len(q.prompt \o q.out) /\ IsPrefixOf(q.prompt \o q.out, q.dev)
      BY <3>5, <1>0, <1>3, <1>4 DEF G
    <3> QED BY <3>1, <3>3, <3>5, <3>6, <1>2, <1>3 DEF MayCheckpoint
  <2>8. CheckpointMade(tree, free, content, req, r, q, n, req')
    BY <2>2, <2>5, <2>6, <2>7, <1>2 DEF CheckpointMade
  <2>9. RoomOf(tree', req') >= RoomOf(tree, req)
    BY <2>8, <1>5, RoomCheckpoint
  <2>10. CheckpointRecord(q, n, Checkpoint(tree, q, n))
    BY <2>8, CheckpointStep
  <2>11. req'[r].max_new = req[r].max_new
    <3> HIDE DEF a
    <3>1. DOMAIN a.req = ReqFields /\ a.req.max_new = q.max_new
      BY <2>10 DEF CheckpointRecord, a
    <3> QED BY <3>1, <2>2, <1>3 DEF Resume, ReqFields
  <2>12. NarrowAt(r)
    BY <2>2, <2>6, <2>11, <1>2 DEF NarrowAt
  <2> QED BY <2>9, <2>12, <1>5, ResultHeadroom
<1>8. CASE ~FinishedAfter(q, stop) /\ kind # "extend"
  <2>1. req' = [req EXCEPT ![r] = q] /\ tree' = tree
    BY <1>1, <1>8 DEF treeVars
  <2>2. req'[r] = q /\ OnlyAt(req, req', r)
    BY <2>1, <1>2 DEF OnlyAt
  <2>3. NarrowAt(r)
    BY <2>2, <1>2, <1>3 DEF NarrowAt
  <2>4. RoomOf(tree', req') >= RoomOf(tree, req)
    <3> DEFINE rq == req'
    <3>1. \A x \in Req : /\ rq[x].phase = req[x].phase /\ rq[x].row = req[x].row
                         /\ rq[x].lock = req[x].lock
      BY <2>2, <1>2, <1>3, <1>4 DEF OnlyAt
    <3> HIDE DEF rq
    <3>2. LockedIn(rq) \subseteq LockedIn(req) /\ LockedIn(rq) \subseteq Req
      BY <3>1 DEF LockedIn
    <3>3. Busy(tree, rq) \subseteq Busy(tree, req)
      BY <3>1, <3>2, BusyKeeps
    <3>4. RoomOf(tree, rq) >= RoomOf(tree, req)
      BY <3>3, RoomGrows
    <3> QED BY <3>4, <2>1 DEF rq
  <2> QED BY <2>3, <2>4, <1>5, ResultHeadroom
<1> QED BY <1>6, <1>7, <1>8

\* process_batch_result_prefill of one request keeps the headroom.
LEMMA ProcessPrefillHeadroom ==
  ASSUME Control, Memory, Headroom, NEW r \in Req, ProcessPrefill(r)
  PROVE  Headroom'
<1>1. ProcessStep(r) /\ DOMAIN req = Req /\ DOMAIN req[r] = ReqFields
  BY DEF ProcessPrefill, Control, LoopInv, TypeOK, RequestsOK, ControlOK
<1>2. /\ HoldsKV(r) \/ Finished(r) \/ req[r].retracted
      /\ HoldsKV(r) => ~Finished(r) /\ ~req[r].retracted
      /\ req[r].middle \in Nat
  BY <1>1, ResultOwner
<1>3. PICK h : h = Head(queue)
  OBVIOUS
<1>4. HoldsKV(r) => (h.chunked = r => req[r].middle > 0) /\ (h.chunked # r => req[r].middle = 0)
  BY <1>1, <1>3, ResultFacts
<1>5. CASE UNCHANGED <<treeVars, req>>
  <2>1. tree' = tree /\ OnlyAt(req, req', r) /\ SameMemory(req'[r], req[r])
    BY <1>5 DEF treeVars, OnlyAt, SameMemory, SameRow
  <2> QED BY <1>1, <2>1, UncommittedHeadroom
<1>6. CASE /\ ~(Finished(r) /\ req[r].middle <= 0) /\ ~req[r].retracted
           /\ req[r].middle <= 0
           /\ Commit(r, "extend")
  <2>1. HoldsKV(r) /\ h.chunked # r
    BY <1>2, <1>4, <1>6
  <2> QED BY <2>1, <1>1, <1>3, <1>6, CommitHeadroom
<1>7. CASE /\ req' = [req EXCEPT ![r].middle = @ - 1]
           /\ UNCHANGED treeVars
  <2>1. tree' = tree /\ OnlyAt(req, req', r) /\ SameMemory(req'[r], req[r])
    BY <1>1, <1>7 DEF treeVars, OnlyAt, SameMemory, SameRow, ReqFields
  <2> QED BY <1>1, <2>1, UncommittedHeadroom
<1> QED BY <1>5, <1>6, <1>7 DEF ProcessPrefill

\* process_batch_result_decode of one request keeps the headroom.
LEMMA ProcessDecodeHeadroom ==
  ASSUME Control, Memory, Headroom, NEW r \in Req, ProcessDecode(r)
  PROVE  Headroom'
<1>1. ProcessStep(r)
  BY DEF ProcessDecode
<1>2. HoldsKV(r) \/ Finished(r) \/ req[r].retracted
  BY <1>1, ResultOwner
<1>3. PICK h : h = Head(queue)
  OBVIOUS
<1>4. CASE UNCHANGED <<treeVars, req>>
  <2>1. tree' = tree /\ OnlyAt(req, req', r) /\ SameMemory(req'[r], req[r])
    BY <1>4 DEF treeVars, OnlyAt, SameMemory, SameRow
  <2> QED BY <1>1, <2>1, UncommittedHeadroom
<1>5. CASE ~Finished(r) /\ ~req[r].retracted /\ Commit(r, "decode")
  <2>1. HoldsKV(r) /\ h.kind = "decode"
    BY <1>2, <1>3, <1>5 DEF ProcessDecode
  <2>2. h.chunked # r
    BY <2>1, <1>1, <1>3, ResultFacts
  <2> QED BY <2>1, <2>2, <1>1, <1>3, <1>5, CommitHeadroom
<1> QED BY <1>4, <1>5 DEF ProcessDecode

\* The end of the iteration keeps the promise of an extend batch for the next
\* one.
LEMMA EndIterationHeadroom ==
  ASSUME Control, Memory, Headroom, EndIteration
  PROVE  Headroom'
<1>1. /\ pc = "process" /\ pc' = "recv" /\ last_batch' = batch /\ batch' = NoBatch
      /\ UNCHANGED <<tree, req, running, chunked>>
  BY DEF EndIteration, treeVars, loopVars
<1>2. RowsFit' /\ Clipped'
  BY <1>1 DEF Headroom, RowsFit, Clipped, ClippedTo, LockedIn
<1>3. PromiseKept'
  <2>1. Promised' => Promised
    BY <1>1 DEF Promised, Building
  <2>2. PagesToGive' = PagesToGive /\ ChunkRest' = ChunkRest
    BY <1>1 DEF PagesToGive, Building, ChunkRest, Fill
  <2>3. RoomOf(tree', req') >= RoomOf(tree, req)
    BY <1>1, RoomNat
  <2> QED BY <2>1, <2>2, <2>3, PromiseKeeps DEF Headroom
<1>4. DecodingStays'
  <2>1. batch'.kind = "none"
    BY <1>1, NoBatchOK
  <2>2. batch.kind = "decode" => \A x \in ReqsOf(batch) : HoldsKV(x) => x \in running
    BY DEF Headroom, DecodingStays
  <2> QED BY <2>1, <2>2, <1>1 DEF DecodingStays, ReqsOf, HoldsKV
<1> QED BY <1>1, <1>2, <1>3, <1>4, Elsewhere

-----------------------------------------------------------------------------
(* The theorems *)

\* Before the loop starts nothing is promised.
LEMMA InitHeadroom ==
  ASSUME Init
  PROVE  Headroom
<1>1. /\ pc = "recv" /\ chunked = NoReq /\ last_batch = NoBatch /\ batch = NoBatch
      /\ \A x \in Req : req[x] = IdleReq
  BY DEF Init
<1>2. NoBatch.kind = "none"
  BY NoBatchOK
<1>3. \A x \in Req : req[x].phase = "idle"
  BY <1>1, IdleReqControl
<1>4. RowsFit
  <2>1. LockedIn(req) = {}
    BY <1>3 DEF LockedIn
  <2> QED BY <2>1, SmallSets, BoundsAssumption DEF RowsFit
<1>5. Clipped
  BY <1>3 DEF Clipped, ClippedTo
<1>6. PromiseKept
  BY <1>1, <1>2 DEF PromiseKept, Promised, Building
<1>7. DecodingStays /\ PassCharged /\ BatchServed /\ Squeezed /\ AllocationNeverFails
  BY <1>1, <1>2 DEF DecodingStays, PassCharged, BatchServed, Squeezed, AllocationNeverFails
<1> QED BY <1>4, <1>5, <1>6, <1>7 DEF Headroom

\* A stuttering step keeps the headroom.
LEMMA StutterHeadroom ==
  ASSUME Control, Memory, Headroom, UNCHANGED vars
  PROVE  Headroom'
<1>1. /\ UNCHANGED <<tree, free, req, pc, todo, running, chunked, offset, batch, last_batch>>
  BY DEF vars
<1>2. RowsFit' /\ Clipped'
  BY <1>1 DEF Headroom, RowsFit, Clipped, ClippedTo, LockedIn
<1>3. Cardinality(PagesFor(req, todo))' = Cardinality(PagesFor(req, todo))
  BY <1>1 DEF PagesFor
<1>4. PromiseKept'
  <2>1. Promised' => Promised
    BY <1>1 DEF Promised, Building
  <2>2. PagesToGive' = PagesToGive /\ ChunkRest' = ChunkRest
    BY <1>1, <1>3 DEF PagesToGive, Building, ChunkRest, Fill
  <2>3. RoomOf(tree', req') >= RoomOf(tree, req)
    BY <1>1, RoomNat
  <2> QED BY <2>1, <2>2, <2>3, PromiseKeeps DEF Headroom
<1>5. PassCharged'
  BY <1>1, <1>3 DEF Headroom, PassCharged
<1>6. BatchServed'
  BY <1>1, <1>3 DEF Headroom, BatchServed, FreePages, AvailableSize, DecodeNeed, ReqsOf
<1>7. DecodingStays'
  BY <1>1 DEF Headroom, DecodingStays, ReqsOf, HoldsKV
<1>8. Squeezed'
  BY <1>1 DEF Headroom, Squeezed, FreePages, AvailableSize, DecodeNeed, ReqsOf,
              NextOutputFinishesByLength, Reclaimable, Busy, BusyOf, LockedIn, RowPages, PrefixPages
<1>9. AllocationNeverFails'
  BY <1>1 DEF Headroom, AllocationNeverFails
<1> QED BY <1>2, <1>4, <1>5, <1>6, <1>7, <1>8, <1>9 DEF Headroom

\* One step of the specification, its stuttering included.
LEMMA NextHeadroom ==
  ASSUME Control, Memory, Headroom, [Next]_vars
  PROVE  Headroom'
<1>1. CASE UNCHANGED vars
  BY <1>1, StutterHeadroom
<1>2. ASSUME NEW r \in Req, Arrive(r) \/ AbortWaiting(r) \/ AbortInflight(r)
      PROVE  Headroom'
  BY <1>2, ArriveHeadroom, AbortWaitingHeadroom, AbortInflightHeadroom
<1>3. CASE FlushCache
  BY <1>3, FlushCacheHeadroom
<1>4. CASE Schedule \/ StashChunk \/ AbortChunk
  BY <1>4, ScheduleHeadroom, StashChunkHeadroom, AbortChunkHeadroom
<1>5. CASE AddChunkedReq \/ ClosePass
  BY <1>5, AddChunkedReqControl, AddChunkedReqHeadroom, ClosePassHeadroom
<1>6. CASE UpdateRunningBatch \/ EndIteration
  BY <1>6, UpdateRunningBatchHeadroom, EndIterationHeadroom
<1>7. ASSUME NEW r \in Req, Admit(r) PROVE Headroom'
  <2>1. chunked = NoReq /\ Memory'
    BY <1>7, AdmitMemory
  <2>2. Control'
    BY <2>1, <1>7, AdmitControl
  <2> QED BY <2>1, <2>2, <1>7, AdmitHeadroom
<1>8. ASSUME NEW r \in Req, Reject(r) PROVE Headroom'
  BY <1>8, RejectHeadroom
<1>9. ASSUME NEW r \in Req, Extend(r) \/ Decode(r) PROVE Headroom'
  BY <1>9, ExtendHeadroom, DecodeHeadroom
<1>10. ASSUME NEW r \in Req, Retract(r) PROVE Headroom'
  BY <1>10, RetractHeadroom
<1>11. ASSUME NEW r \in Req, ProcessPrefill(r) \/ ProcessDecode(r) PROVE Headroom'
  BY <1>11, ProcessPrefillHeadroom, ProcessDecodeHeadroom
<1> QED BY <1>1, <1>2, <1>3, <1>4, <1>5, <1>6, <1>7, <1>8, <1>9, <1>10, <1>11
        DEF Next, Client, Loop

\* Admission, chunked prefill, eviction, retraction and both loops keep what
\* they have set aside: the pages of the extend batch, those of the rest of a
\* chunked prompt and one more, for any pool, page size, prompts and limits.
THEOREM HeadroomInvariant == Spec => []Headroom
<1>1. Init => Headroom
  BY InitHeadroom
<1>2. Control /\ Memory /\ Headroom /\ [Next]_vars => Headroom'
  BY NextHeadroom
<1>3. Spec => [](Control /\ Memory)
  BY KVInvariance
<1> QED BY <1>1, <1>2, <1>3, PTL DEF Spec

\* alloc_for_extend and alloc_for_decode never come short of pages or rows, so
\* their RuntimeError is never raised: _check_prefill_budget and
\* check_decode_mem set aside enough although eviction happens later.
THEOREM AllocationsSucceed == Spec => []AllocationNeverFails
<1>1. Headroom => AllocationNeverFails
  BY DEF Headroom
<1> QED BY <1>1, HeadroomInvariant, PTL

\* retract_decode never has to abort the last request of the decode batch: the
\* output it may still generate was clipped to the pool when it arrived.
THEOREM LastRequestAlwaysFits == Spec => []LastRequestFits
<1>1. Control /\ Memory /\ Headroom => LastRequestFits
  BY AloneFits
<1> QED BY <1>1, KVInvariance, HeadroomInvariant, PTL
=============================================================================
