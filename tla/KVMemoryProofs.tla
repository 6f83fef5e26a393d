-------------------------- MODULE KVMemoryProofs --------------------------
(***************************************************************************)
(* The memory half of the KV invariant and the theorems about KVScheduler, *)
(* for every pool size, page size, set of requests and prompts, limit and  *)
(* both modes of the loop. Pools relates the radix tree, the free list,    *)
(* the contents of the pages and the rows of the requests; Sizes, how far  *)
(* each request has come; Budget, that a chunk that was cut leaves no room *)
(* for a second one; NoneLost, that the loop still has in hand every       *)
(* request that holds KV, without which the end of an iteration could drop *)
(* one with its pages. The pools are stated of a tree t, a free list f,    *)
(* contents c and requests rq, because an action composes several          *)
(* operations (evict, allocate, write; publish, move the lock, release)    *)
(* and each has a lemma of its own.                                        *)
(***************************************************************************)
EXTENDS KVControlProofs

-----------------------------------------------------------------------------
(* The pools: tree t, free list f, page contents c and requests rq *)

LockOf(rq) == [r \in Req |-> rq[r].lock]

LockedIn(rq) == {r \in Req : rq[r].phase \in {"admitted", "running"}}

HoldersIn(rq) == {r \in Req : rq[r].phase = "running"}

PagesOf(t) == {t.value[k] : k \in Cached(t)}

Own(q) == PrivatePages(q.row, q.protected)

Used(t, rq) == PagesOf(t) \cup UNION {Own(rq[r]) : r \in HoldersIn(rq)}

\* The tokens whose KV page i of the row of q holds the end of.
Shown(q, i) == Prefix(q.dev, IF i * PageSize <= q.committed THEN i * PageSize ELSE q.committed)

RowShape(q) ==
  /\ q.row \in Seq(Page) /\ q.lock \in Key /\ q.dev \in Key
  /\ q.protected \in Nat /\ q.committed \in Nat
  /\ Whole(q.protected) /\ Len(q.lock) = q.protected
  /\ q.protected <= q.committed /\ q.committed <= Len(q.dev)
  /\ Len(q.row) = CeilPages(q.committed)
  /\ IsPrefixOf(q.lock, q.dev)

\* The first pages of the row are the tree's, under the lock.
Resident(t, q) ==
  \A i \in 1 .. q.protected \div PageSize : q.row[i] = t.value[Prefix(q.lock, i * PageSize)]

\* The others hold the request's own tokens.
Written(c, q) ==
  \A i \in (q.protected \div PageSize) + 1 .. Len(q.row) : c[q.row[i]] = Shown(q, i)

RowOK(t, c, q) == RowShape(q) /\ Resident(t, q) /\ Written(c, q)

RowsOK(t, c, rq) == \A r \in HoldersIn(rq) : RowOK(t, c, rq[r])

Apart(t, rq) ==
  /\ \A r \in HoldersIn(rq) : Own(rq[r]) \cap PagesOf(t) = {}
  /\ \A r, s \in HoldersIn(rq) : r # s => Own(rq[r]) \cap Own(rq[s]) = {}

FreeIs(t, f, rq) == f = [p \in Page |-> IF p \in Used(t, rq) THEN 0 ELSE 1]

Keyed(t, c) == \A k \in Cached(t) : c[t.value[k]] = k

Pools(t, f, c, rq) ==
  /\ Sound(t, LockedIn(rq), LockOf(rq))
  /\ RowsOK(t, c, rq)
  /\ Apart(t, rq)
  /\ FreeIs(t, f, rq)
  /\ Keyed(t, c)

\* Finitely many requests hold locks, and a request with KV holds one.
LEMMA LockedFinite ==
  ASSUME NEW rq
  PROVE  IsFiniteSet(LockedIn(rq)) /\ LockedIn(rq) \subseteq Req /\ HoldersIn(rq) \subseteq LockedIn(rq)
<1>1. LockedIn(rq) \subseteq Req /\ HoldersIn(rq) \subseteq LockedIn(rq)
  BY DEF LockedIn, HoldersIn
<1> QED BY <1>1, FS_Subset, ReqAssumption

\* What a tree's books say of its locks depends on the locks only.
LEMMA SoundExt ==
  ASSUME NEW t, NEW S, NEW lock, Sound(t, S, lock), NEW lock2, \A r \in S : lock2[r] = lock[r]
  PROVE  Sound(t, S, lock2)
<1>1. \A n : {r \in S : IsPrefixOf(n, lock2[r])} = {r \in S : IsPrefixOf(n, lock[r])}
  OBVIOUS
<1> QED BY <1>1 DEF Sound, Anchored, Counted

\* Two keys never share a page.
LEMMA ValuesApart ==
  ASSUME NEW t, NEW c, Keyed(t, c), NEW k \in Cached(t), NEW l \in Cached(t),
         t.value[k] = t.value[l]
  PROVE  k = l
BY DEF Keyed

\* The tree's values are pages.
LEMMA TreePagesArePages ==
  ASSUME NEW t, WellFormed(t)
  PROVE  PagesOf(t) \subseteq Page /\ \A k \in Cached(t) : t.value[k] \in Page
BY DEF WellFormed, Shape, PagesOf

\* The pages of the row beyond the protected prefix.
LEMMA OwnFacts ==
  ASSUME NEW q, RowShape(q)
  PROVE  /\ Own(q) \subseteq Page
         /\ \A p : p \in Own(q) <=> \E i \in (q.protected \div PageSize) + 1 .. Len(q.row) : p = q.row[i]
         /\ \A i \in 1 .. Len(q.row) : q.row[i] \in Page
         /\ q.protected \div PageSize \in Nat
         /\ Len(q.row) \in Nat
<1>1. q.protected \div PageSize \in Nat
  BY DivFacts DEF RowShape
<1>2. \A i \in 1 .. Len(q.row) : q.row[i] \in Page
  BY DEF RowShape
<1>3. Len(q.row) \in Nat
  BY DEF RowShape
<1> QED BY <1>1, <1>2, <1>3 DEF Own, PrivatePages

-----------------------------------------------------------------------------
(* Pages and rows *)

\* The pages n tokens need.
LEMMA CeilFacts ==
  ASSUME NEW n \in Nat
  PROVE  /\ CeilPages(n) \in Nat
         /\ n \div PageSize \in Nat
         /\ n <= CeilPages(n) * PageSize
         /\ CeilPages(n) * PageSize < n + PageSize
         /\ n \div PageSize <= CeilPages(n)
         /\ CeilPages(n) <= (n \div PageSize) + 1
         /\ Whole(n) => CeilPages(n) = n \div PageSize
         /\ ~Whole(n) => CeilPages(n) = (n \div PageSize) + 1
<1> DEFINE d == n \div PageSize
           e == CeilPages(n)
<1>0. PageSize \in Nat /\ PageSize > 0
  BY PageSizeAssumption
<1>1. d \in Nat /\ d * PageSize <= n /\ n < d * PageSize + PageSize /\ d * PageSize \in Nat
  BY DivFacts
<1>2. n + PageSize - 1 \in Nat
  BY <1>0
<1>3. e \in Nat /\ e * PageSize <= n + PageSize - 1 /\ n + PageSize - 1 < e * PageSize + PageSize
      /\ e * PageSize \in Nat
  BY <1>2, DivFacts DEF CeilPages
<1> HIDE DEF d, e
<1>4. n <= e * PageSize /\ e * PageSize < n + PageSize
  BY <1>3, <1>0
<1>5. d * PageSize <= e * PageSize
  BY <1>4, <1>1, <1>3
<1>6. d <= e
  BY <1>5, <1>1, <1>3, MulFacts
<1>7. (d + 1) * PageSize = d * PageSize + PageSize /\ d + 1 \in Nat
      /\ (d + 2) * PageSize = d * PageSize + PageSize + PageSize /\ d + 2 \in Nat
  <2>0. d + 1 \in Nat /\ d + 1 + 1 \in Nat
    BY <1>1
  <2>1. (d + 1) * PageSize = d * PageSize + PageSize
    BY <1>1, MulFacts
  <2>2. (d + 1 + 1) * PageSize = (d + 1) * PageSize + PageSize
    BY <2>0, MulFacts
  <2>3. d + 1 + 1 = d + 2
    BY <1>1
  <2> QED BY <2>0, <2>1, <2>2, <2>3
<1>8. e * PageSize < (d + 2) * PageSize
  BY <1>4, <1>1, <1>7, <1>3, <1>0
<1>9. e < d + 2
  BY <1>8, <1>7, <1>3, MulFacts
<1>10. Whole(n) <=> d * PageSize = n
  BY DEF Whole, AlignDown, d
<1>11. ASSUME d * PageSize = n PROVE e = d
  <2>1. e * PageSize < (d + 1) * PageSize
    BY <1>11, <1>4, <1>7
  <2>2. e < d + 1
    BY <2>1, <1>7, <1>3, MulFacts
  <2> QED BY <2>2, <1>6, <1>3, <1>1
<1>12. ASSUME d * PageSize # n PROVE e = d + 1
  <2>1. d * PageSize < e * PageSize
    BY <1>12, <1>1, <1>3, <1>4
  <2>2. d < e
    BY <2>1, <1>1, <1>3, MulFacts
  <2> QED BY <2>2, <1>9, <1>3, <1>1
<1>13. e <= d + 1
  BY <1>9, <1>1, <1>3
<1>14. /\ e \in Nat /\ d \in Nat /\ n <= e * PageSize /\ e * PageSize < n + PageSize
       /\ d <= e /\ e <= d + 1 /\ (Whole(n) => e = d) /\ (~Whole(n) => e = d + 1)
  BY <1>1, <1>3, <1>4, <1>6, <1>10, <1>11, <1>12, <1>13
<1> QED BY <1>14 DEF d, e

\* More tokens need no fewer pages.
LEMMA CeilMono ==
  ASSUME NEW m \in Nat, NEW n \in Nat, m <= n
  PROVE  CeilPages(m) <= CeilPages(n)
<1>0. PageSize \in Nat /\ PageSize > 0
  BY PageSizeAssumption
<1>1. m + PageSize - 1 \in Nat /\ n + PageSize - 1 \in Nat /\ m + PageSize - 1 <= n + PageSize - 1
  BY <1>0
<1> QED BY <1>1, DivMono DEF CeilPages

\* The length of what page i shows, and that it grows with i.
LEMMA ShownFacts ==
  ASSUME NEW q, RowShape(q), NEW i \in 1 .. Len(q.row)
  PROVE  /\ Shown(q, i) \in Key
         /\ Len(Shown(q, i)) = IF i * PageSize <= q.committed THEN i * PageSize ELSE q.committed
         /\ IsPrefixOf(Shown(q, i), q.dev)
         /\ (i - 1) * PageSize < q.committed
         /\ (i - 1) * PageSize \in Nat /\ i * PageSize \in Nat
<1>1. q.committed \in Nat /\ Len(q.row) = CeilPages(q.committed) /\ q.dev \in Key
      /\ q.committed <= Len(q.dev) /\ Len(q.dev) \in Nat
  BY DEF RowShape, Key
<1>10. CeilPages(q.committed) \in Nat
  BY <1>1, CeilFacts
<1>2. i \in Nat /\ i - 1 \in Nat /\ i <= CeilPages(q.committed) /\ CeilPages(q.committed) \in Nat
  BY <1>1, <1>10
<1>3. i * PageSize \in Nat /\ (i - 1) * PageSize \in Nat /\ i * PageSize = (i - 1) * PageSize + PageSize
  <2>1. i - 1 + 1 = i
    BY <1>2
  <2>2. i * PageSize \in Nat
    BY <1>2, MulFacts
  <2>3. (i - 1 + 1) * PageSize = (i - 1) * PageSize + PageSize /\ (i - 1) * PageSize \in Nat
    BY <1>2, MulFacts
  <2> QED BY <2>1, <2>2, <2>3
<1>4. i * PageSize <= CeilPages(q.committed) * PageSize /\ CeilPages(q.committed) * PageSize \in Nat
  BY <1>2, MulFacts
<1>5. CeilPages(q.committed) * PageSize < q.committed + PageSize
  BY <1>1, CeilFacts
<1>6. (i - 1) * PageSize < q.committed
  BY <1>1, <1>3, <1>4, <1>5, PageSizeAssumption
<1> DEFINE n == IF i * PageSize <= q.committed THEN i * PageSize ELSE q.committed
<1>7. n \in 0 .. Len(q.dev)
  BY <1>1, <1>3
<1> HIDE DEF n
<1>8. Prefix(q.dev, n) \in Key /\ Len(Prefix(q.dev, n)) = n /\ IsPrefixOf(Prefix(q.dev, n), q.dev)
  BY <1>1, <1>7, PrefixFacts
<1> QED BY <1>3, <1>6, <1>8 DEF n, Shown

\* Two pages of a row end different prefixes of the text.
LEMMA ShownApart ==
  ASSUME NEW q, RowShape(q), NEW i \in 1 .. Len(q.row), NEW j \in 1 .. Len(q.row), i < j
  PROVE  Shown(q, i) # Shown(q, j)
<1>0. Len(q.row) \in Nat
  BY DEF RowShape
<1>1. i \in Nat /\ j \in Nat /\ j - 1 \in Nat /\ i <= j - 1
  BY <1>0
<1>2. i * PageSize <= (j - 1) * PageSize
  BY <1>1, MulFacts
<1>3. (j - 1) * PageSize < q.committed /\ (j - 1) * PageSize \in Nat /\ j * PageSize \in Nat
      /\ i * PageSize \in Nat /\ q.committed \in Nat
  BY ShownFacts DEF RowShape
<1>4. Len(Shown(q, i)) = i * PageSize
  BY <1>2, <1>3, ShownFacts
<1>5. Len(Shown(q, j)) = IF j * PageSize <= q.committed THEN j * PageSize ELSE q.committed
  BY ShownFacts
<1>6. i * PageSize < j * PageSize
  BY <1>1, MulFacts
<1> QED BY <1>2, <1>3, <1>4, <1>5, <1>6

\* A page is in the private part of a row once.
LEMMA OwnOnce ==
  ASSUME NEW q, NEW c, RowShape(q), Written(c, q),
         NEW i \in (q.protected \div PageSize) + 1 .. Len(q.row),
         NEW j \in (q.protected \div PageSize) + 1 .. Len(q.row), q.row[i] = q.row[j]
  PROVE  i = j
<1>0. q.protected \div PageSize \in Nat /\ Len(q.row) \in Nat
  BY OwnFacts
<1>1. i \in 1 .. Len(q.row) /\ j \in 1 .. Len(q.row) /\ i \in Nat /\ j \in Nat
  BY <1>0
<1>2. Shown(q, i) = Shown(q, j)
  BY DEF Written
<1>3. ~(i < j) /\ ~(j < i)
  BY <1>1, <1>2, ShownApart
<1> QED BY <1>1, <1>3

\* The pages of a locked path are cached.
LEMMA LockedPath ==
  ASSUME NEW t, NEW S, NEW lock, Sound(t, S, lock), NEW r \in S,
         NEW i \in 1 .. Len(lock[r]) \div PageSize
  PROVE  /\ lock[r] \in Key
         /\ Prefix(lock[r], i * PageSize) \in Cached(t)
         /\ IsPrefixOf(Prefix(lock[r], i * PageSize), lock[r])
         /\ Len(Prefix(lock[r], i * PageSize)) = i * PageSize
<1>1. WellFormed(t) /\ lock[r] \in Nodes(t) \cup {Root}
  BY DEF Sound, Anchored
<1>2. lock[r] \in Key /\ Len(lock[r]) \in Nat
  BY <1>1, WellFormedKeys, PrefixLen
<1>3. Len(lock[r]) \div PageSize \in Nat /\ (Len(lock[r]) \div PageSize) * PageSize <= Len(lock[r])
      /\ (Len(lock[r]) \div PageSize) * PageSize \in Nat
  BY <1>2, DivFacts
<1>4. i \in Nat /\ i <= Len(lock[r]) \div PageSize /\ i # 0
  BY <1>3
<1>5. i * PageSize \in Nat /\ i * PageSize <= (Len(lock[r]) \div PageSize) * PageSize /\ i * PageSize # 0
  BY <1>4, <1>3, MulFacts
<1>6. i * PageSize \in 0 .. Len(lock[r])
  BY <1>5, <1>3, <1>2
<1> DEFINE p == Prefix(lock[r], i * PageSize)
<1>7. p \in Key /\ Len(p) = i * PageSize /\ IsPrefixOf(p, lock[r])
  BY <1>6, <1>2, PrefixFacts
<1>8. p # Root /\ Whole(Len(p))
  BY <1>7, <1>5, PrefixLen, WholeMultiple, <1>4
<1> HIDE DEF p
<1>9. lock[r] # Root
  <2> SUFFICES ASSUME lock[r] = Root PROVE FALSE
    OBVIOUS
  <2>1. Len(lock[r]) = 0
    BY PrefixLen
  <2> QED BY <2>1, <1>6, <1>5
<1>10. lock[r] \in Cached(t)
  BY <1>9, <1>1 DEF WellFormed, Shape
<1>11. p \in Cached(t)
  BY <1>10, <1>8, <1>7, <1>1 DEF WellFormed, Closed
<1> QED BY <1>2, <1>7, <1>11 DEF p

-----------------------------------------------------------------------------
(* Steps that leave the pools and what requests hold alone *)

SameRow(p, q) ==
  /\ p.row = q.row /\ p.lock = q.lock /\ p.protected = q.protected
  /\ p.committed = q.committed /\ p.dev = q.dev

\* What a request holds is in these fields.
LEMMA SameRowFacts ==
  ASSUME NEW p, NEW q, SameRow(p, q), NEW t, NEW c
  PROVE  Own(p) = Own(q) /\ (RowOK(t, c, q) => RowOK(t, c, p))
<1>1. \A i : Shown(p, i) = Shown(q, i)
  BY DEF SameRow, Shown
<1> QED BY <1>1 DEF SameRow, Own, RowOK, RowShape, Resident, Written

\* Pools depend on the locks and rows of requests only.
LEMMA PoolsKeep ==
  ASSUME NEW t, NEW f, NEW c, NEW rq, NEW rq2, Pools(t, f, c, rq),
         LockedIn(rq2) = LockedIn(rq), HoldersIn(rq2) = HoldersIn(rq),
         \A r \in LockedIn(rq) : rq2[r].lock = rq[r].lock,
         \A r \in HoldersIn(rq) : SameRow(rq2[r], rq[r])
  PROVE  Pools(t, f, c, rq2)
<1>1. \A r \in LockedIn(rq) : LockOf(rq2)[r] = LockOf(rq)[r]
  BY LockedFinite DEF LockOf
<1>2. Sound(t, LockedIn(rq2), LockOf(rq2))
  BY <1>1, SoundExt DEF Pools
<1>3. \A r \in HoldersIn(rq) : Own(rq2[r]) = Own(rq[r]) /\ RowOK(t, c, rq2[r])
  BY SameRowFacts DEF Pools, RowsOK
<1>4. RowsOK(t, c, rq2) /\ Apart(t, rq2)
  BY <1>3 DEF Pools, RowsOK, Apart
<1>5. {Own(rq2[r]) : r \in HoldersIn(rq2)} = {Own(rq[r]) : r \in HoldersIn(rq)}
  BY <1>3
<1>6. Used(t, rq2) = Used(t, rq)
  BY <1>5 DEF Used
<1> QED BY <1>2, <1>4, <1>6 DEF Pools, FreeIs

\* A tree with the same pages, its books kept under the locks of rq2.
LEMMA PoolsRetree ==
  ASSUME NEW t, NEW f, NEW c, NEW rq, NEW rq2, NEW s, Pools(t, f, c, rq),
         s.value = t.value, Sound(s, LockedIn(rq2), LockOf(rq2)),
         HoldersIn(rq2) = HoldersIn(rq), \A r \in HoldersIn(rq) : SameRow(rq2[r], rq[r])
  PROVE  Pools(s, f, c, rq2)
<1>1. Cached(s) = Cached(t) /\ PagesOf(s) = PagesOf(t)
  BY DEF Cached, PagesOf
<1>3. \A r \in HoldersIn(rq) : Own(rq2[r]) = Own(rq[r]) /\ RowOK(t, c, rq2[r])
  BY SameRowFacts DEF Pools, RowsOK
<1>4. RowsOK(s, c, rq2)
  BY <1>3 DEF RowsOK, RowOK, Resident
<1>5. Apart(s, rq2)
  BY <1>3, <1>1 DEF Pools, Apart
<1>6. {Own(rq2[r]) : r \in HoldersIn(rq2)} = {Own(rq[r]) : r \in HoldersIn(rq)}
  BY <1>3
<1>7. Used(s, rq2) = Used(t, rq)
  BY <1>6, <1>1 DEF Used
<1> QED BY <1>1, <1>4, <1>5, <1>7 DEF Pools, FreeIs, Keyed

-----------------------------------------------------------------------------
(* Eviction *)

\* Every page of the locked paths stays where it is.
Stable(t, s, S, lock) ==
  \A r \in S, k \in Cached(t) :
    IsPrefixOf(k, lock[r]) => k \in Cached(s) /\ s.value[k] = t.value[k]

\* A tree with the same values has every path where it was.
LEMMA StableSame ==
  ASSUME NEW t, NEW s, s.value = t.value, NEW S, NEW lock
  PROVE  Stable(t, s, S, lock)
BY DEF Stable, Cached

\* evict returns pages nobody holds, once each, and leaves the locked paths.
LEMMA PoolsEvict ==
  ASSUME NEW t, NEW f, NEW c, NEW rq, Pools(t, f, c, rq), NEW num,
         NEW e \in Evictions(t, f, num), NEW c2, \A p \in Page \ e.gone : c2[p] = c[p]
  PROVE  /\ Pools(e.tree, e.free, c2, rq)
         /\ Stable(t, e.tree, LockedIn(rq), LockOf(rq))
<1>1. PICK E \in EvictableSets(t, num - AvailableSize(f)) :
        e = [tree |-> DeleteNodes(t, E), free |-> Release(f, PagesIn(t, E)),
             gone |-> PagesIn(t, E)]
  BY DEF Evictions
<1> DEFINE s == DeleteNodes(t, E)
           gone == PagesIn(t, E)
<1>2. e.tree = s /\ e.free = Release(f, gone) /\ e.gone = gone
  BY <1>1
<1>3. Sound(t, LockedIn(rq), LockOf(rq)) /\ IsFiniteSet(LockedIn(rq)) /\ LockedIn(rq) \subseteq Req
      /\ HoldersIn(rq) \subseteq LockedIn(rq)
  BY LockedFinite DEF Pools
<1>4. Removable(t, E)
  BY <1>3, EvictableRemovable DEF Sound
<1>5. /\ Sound(s, LockedIn(rq), LockOf(rq))
      /\ Cached(s) = Cached(t) \ Segments(t, E)
      /\ \A k \in Cached(s) : s.value[k] = t.value[k]
      /\ \A r \in LockedIn(rq), k \in Cached(t) : IsPrefixOf(k, LockOf(rq)[r]) => k \in Cached(s)
  BY <1>3, <1>4, DeleteSound
<1> HIDE DEF s
<1>6. Stable(t, s, LockedIn(rq), LockOf(rq))
  BY <1>5 DEF Stable
<1>7. Keyed(t, c) /\ RowsOK(t, c, rq) /\ Apart(t, rq) /\ FreeIs(t, f, rq)
  BY DEF Pools
<1>8. gone \subseteq PagesOf(t) /\ PagesOf(t) \subseteq Page
  BY <1>3, TreePagesArePages DEF PagesIn, PagesOf, Segments, Sound
<1>9. \A p : p \in PagesOf(s) <=> p \in PagesOf(t) /\ p \notin gone
  <2>1. ASSUME NEW p \in PagesOf(s) PROVE p \in PagesOf(t) /\ p \notin gone
    <3>1. PICK k \in Cached(s) : p = s.value[k]
      BY <2>1 DEF PagesOf
    <3>2. k \in Cached(t) /\ k \notin Segments(t, E) /\ p = t.value[k]
      BY <3>1, <1>5
    <3>3. ASSUME p \in gone PROVE FALSE
      <4>1. PICK l \in Segments(t, E) : p = t.value[l]
        BY <3>3 DEF PagesIn
      <4>2. l \in Cached(t)
        BY <4>1 DEF Segments
      <4> QED BY <4>1, <4>2, <3>2, <1>7, ValuesApart
    <3> QED BY <3>2, <3>3 DEF PagesOf
  <2>2. ASSUME NEW p \in PagesOf(t), p \notin gone PROVE p \in PagesOf(s)
    <3>1. PICK k \in Cached(t) : p = t.value[k]
      BY <2>2 DEF PagesOf
    <3>2. k \in Cached(s)
      BY <3>1, <2>2, <1>5 DEF PagesIn
    <3> QED BY <3>1, <3>2, <1>5 DEF PagesOf
  <2> QED BY <2>1, <2>2
<1>10. \A p \in Page : p \notin gone => c2[p] = c[p]
  BY <1>2
<1> HIDE DEF gone
<1>11. Keyed(s, c2)
  <2> SUFFICES ASSUME NEW k \in Cached(s) PROVE c2[s.value[k]] = k
    BY DEF Keyed
  <2>1. k \in Cached(t) /\ s.value[k] = t.value[k]
    BY <1>5
  <2>2. s.value[k] \in PagesOf(s)
    BY DEF PagesOf
  <2>3. s.value[k] \in Page /\ s.value[k] \notin gone
    BY <2>2, <1>9, <1>8
  <2> QED BY <2>1, <2>3, <1>10, <1>7 DEF Keyed
<1>12. Apart(s, rq)
  BY <1>7, <1>9 DEF Apart
<1>13. ASSUME NEW r \in HoldersIn(rq) PROVE RowOK(s, c2, rq[r])
  <2> DEFINE q == rq[r]
  <2>1. RowShape(q) /\ Resident(t, q) /\ Written(c, q)
    BY <1>7 DEF RowsOK, RowOK
  <2>2. LockOf(rq)[r] = q.lock /\ r \in LockedIn(rq)
    BY <1>3 DEF LockOf
  <2>3. ASSUME NEW i \in 1 .. q.protected \div PageSize
        PROVE  s.value[Prefix(q.lock, i * PageSize)] = t.value[Prefix(q.lock, i * PageSize)]
    <3>1. i \in 1 .. Len(LockOf(rq)[r]) \div PageSize
      BY <2>1, <2>2 DEF RowShape
    <3>2. Prefix(q.lock, i * PageSize) \in Cached(t) /\ IsPrefixOf(Prefix(q.lock, i * PageSize), q.lock)
      BY <3>1, <2>2, <1>3, LockedPath
    <3> QED BY <3>2, <2>2, <1>6 DEF Stable
  <2>4. Resident(s, q)
    BY <2>1, <2>3 DEF Resident
  <2>5. ASSUME NEW i \in (q.protected \div PageSize) + 1 .. Len(q.row)
        PROVE  c2[q.row[i]] = c[q.row[i]]
    <3>1. q.row[i] \in Own(q) /\ Own(q) \subseteq Page
      BY <2>1, OwnFacts
    <3>2. q.row[i] \notin gone
      BY <3>1, <1>7, <1>8 DEF Apart
    <3> QED BY <3>1, <3>2, <1>10
  <2>6. Written(c2, q)
    BY <2>1, <2>5 DEF Written
  <2> QED BY <2>1, <2>4, <2>6 DEF RowOK
<1>14. \A r \in HoldersIn(rq) : Own(rq[r]) \subseteq Page
  BY <1>7, OwnFacts DEF RowsOK, RowOK
<1>15. FreeIs(s, Release(f, gone), rq)
  <2>1. \A p \in Page : p \in Used(s, rq) <=> p \in Used(t, rq) /\ p \notin gone
    <3> SUFFICES ASSUME NEW p \in Page
                 PROVE  p \in Used(s, rq) <=> p \in Used(t, rq) /\ p \notin gone
      OBVIOUS
    <3>1. ASSUME NEW r \in HoldersIn(rq), p \in Own(rq[r]) PROVE p \notin gone
      BY <3>1, <1>7, <1>8 DEF Apart
    <3> QED BY <3>1, <1>9 DEF Used
  <2>2. \A p \in gone : p \in Used(t, rq)
    BY <1>8 DEF Used
  <2>3. \A p \in Page : f[p] = IF p \in Used(t, rq) THEN 0 ELSE 1
    BY <1>7 DEF FreeIs
  <2>4. \A p \in Page : (IF p \in gone THEN f[p] + 1 ELSE f[p]) = IF p \in Used(s, rq) THEN 0 ELSE 1
    BY <2>1, <2>2, <2>3
  <2> QED BY <2>4 DEF FreeIs, Release
<1>16. RowsOK(s, c2, rq)
  BY <1>13 DEF RowsOK
<1>17. Pools(s, Release(f, gone), c2, rq)
  BY <1>5, <1>16, <1>12, <1>15, <1>11 DEF Pools
<1> QED BY <1>17, <1>6, <1>2

\* Scrubbing the pages that went is such a change of the contents.
LEMMA PoolsEvictScrub ==
  ASSUME NEW t, NEW f, NEW c, NEW rq, Pools(t, f, c, rq), NEW num,
         NEW e \in Evictions(t, f, num)
  PROVE  /\ Pools(e.tree, e.free, Scrub(c, e.gone), rq)
         /\ Pools(e.tree, e.free, c, rq)
         /\ Stable(t, e.tree, LockedIn(rq), LockOf(rq))
<1>1. \A p \in Page \ e.gone : Scrub(c, e.gone)[p] = c[p]
  BY DEF Scrub
<1> QED BY <1>1, PoolsEvict

-----------------------------------------------------------------------------
(* Admission, release and allocation *)

OnlyAt(rq, rq2, r) == \A x \in Req : x # r => rq2[x] = rq[x]

\* A split changes no page.
LEMMA PoolsSplit ==
  ASSUME NEW t, NEW f, NEW c, NEW rq, Pools(t, f, c, rq), NEW m \in Cached(t) \cup {Root}
  PROVE  /\ Pools(SplitNode(t, m), f, c, rq)
         /\ SplitNode(t, m).value = t.value
<1>1. Sound(SplitNode(t, m), LockedIn(rq), LockOf(rq)) /\ SplitNode(t, m).value = t.value
  BY SplitSound DEF Pools
<1> QED BY <1>1, PoolsRetree DEF SameRow

\* Admission locks the matched path.
LEMMA PoolsPin ==
  ASSUME NEW t, NEW f, NEW c, NEW rq, Pools(t, f, c, rq), NEW r \in Req, r \notin LockedIn(rq),
         NEW m \in Cached(t) \cup {Root}, NEW rq2, OnlyAt(rq, rq2, r),
         rq2[r].phase = "admitted", rq2[r].lock = m
  PROVE  /\ Pools(IncLockRef(SplitNode(t, m), m), f, c, rq2)
         /\ IncLockRef(SplitNode(t, m), m).value = t.value
<1> DEFINE s == SplitNode(t, m)
<1>1. Sound(s, LockedIn(rq), LockOf(rq)) /\ s.value = t.value
      /\ Nodes(s) = Nodes(t) \cup ({m} \ {Root})
  BY SplitSound DEF Pools
<1>2. m \in Nodes(s) \cup {Root}
  BY <1>1
<1> HIDE DEF s
<1>3. LockOf(rq2)[r] = m /\ \A x \in LockedIn(rq) : LockOf(rq2)[x] = LockOf(rq)[x]
  BY LockedFinite DEF LockOf, OnlyAt
<1>4. LockedIn(rq2) = LockedIn(rq) \cup {r}
  <2>1. \A x \in Req : x \in LockedIn(rq2) <=> x \in LockedIn(rq) \/ x = r
    BY DEF LockedIn, OnlyAt
  <2> QED BY <2>1, LockedFinite
<1>5. Sound(IncLockRef(s, LockOf(rq2)[r]), LockedIn(rq) \cup {r}, LockOf(rq2))
      /\ IncLockRef(s, LockOf(rq2)[r]).value = s.value
  <2>1. IsFiniteSet(LockedIn(rq))
    BY LockedFinite
  <2>2. LockOf(rq2)[r] \in Nodes(s) \cup {Root}
    BY <1>2, <1>3
  <2>3. \A x \in LockedIn(rq) : LockOf(rq2)[x] = LockOf(rq)[x]
    BY <1>3
  <2>4. Sound(s, LockedIn(rq), LockOf(rq))
    BY <1>1
  <2> QED BY <2>1, <2>2, <2>3, <2>4, IncSound
<1>6. HoldersIn(rq2) = HoldersIn(rq) /\ \A x \in HoldersIn(rq) : rq2[x] = rq[x]
  <2>1. \A x \in Req : x \in HoldersIn(rq) => x # r
    BY DEF HoldersIn, LockedIn
  <2>2. \A x \in Req : x \in HoldersIn(rq2) <=> x \in HoldersIn(rq)
    BY DEF HoldersIn, OnlyAt, LockedIn
  <2>3. HoldersIn(rq2) = HoldersIn(rq)
    BY <2>2 DEF HoldersIn
  <2> QED BY <2>1, <2>3 DEF OnlyAt, HoldersIn
<1>7. Pools(IncLockRef(s, m), f, c, rq2)
  BY <1>1, <1>3, <1>4, <1>5, <1>6, PoolsRetree DEF SameRow
<1> QED BY <1>7, <1>5, <1>3, <1>1 DEF s

\* Releasing a request returns its own pages, and only these, and drops its
\* lock.
LEMMA PoolsFree ==
  ASSUME NEW t, NEW f, NEW c, NEW rq, Pools(t, f, c, rq), NEW r \in HoldersIn(rq),
         NEW rq2, OnlyAt(rq, rq2, r), rq2[r].phase \notin {"admitted", "running"},
         NEW c2, \A p \in Page \ Own(rq[r]) : c2[p] = c[p]
  PROVE  LET s == DecLockRef(t, rq[r].lock)
         IN Pools(s, Release(f, Own(rq[r])), c2, rq2) /\ s.value = t.value
<1> DEFINE s == DecLockRef(t, rq[r].lock)
           own == Own(rq[r])
<1>0. r \in Req /\ r \in LockedIn(rq)
  BY DEF HoldersIn, LockedIn
<1>1. Sound(s, LockedIn(rq) \ {r}, LockOf(rq)) /\ s.value = t.value
  <2>1. LockOf(rq)[r] = rq[r].lock
    BY <1>0 DEF LockOf
  <2>2. Sound(t, LockedIn(rq), LockOf(rq)) /\ IsFiniteSet(LockedIn(rq))
    BY LockedFinite DEF Pools
  <2> QED BY <2>1, <2>2, <1>0, DecSound
<1> HIDE DEF s
<1>2. Cached(s) = Cached(t) /\ PagesOf(s) = PagesOf(t)
  BY <1>1 DEF Cached, PagesOf
<1>3. LockedIn(rq2) = LockedIn(rq) \ {r} /\ HoldersIn(rq2) = HoldersIn(rq) \ {r}
  <2>1. \A x \in Req : x \in LockedIn(rq2) <=> x \in LockedIn(rq) /\ x # r
    BY DEF LockedIn, OnlyAt
  <2>2. \A x \in Req : x \in HoldersIn(rq2) <=> x \in HoldersIn(rq) /\ x # r
    BY DEF HoldersIn, OnlyAt
  <2>3. LockedIn(rq) \subseteq Req /\ HoldersIn(rq) \subseteq Req
        /\ LockedIn(rq2) \subseteq Req /\ HoldersIn(rq2) \subseteq Req
    BY DEF LockedIn, HoldersIn
  <2> QED BY <2>1, <2>2, <2>3
<1>4. \A x \in HoldersIn(rq2) : rq2[x] = rq[x] /\ x \in HoldersIn(rq) /\ x # r
  BY <1>3 DEF OnlyAt, HoldersIn
<1>5. \A x \in LockedIn(rq2) : LockOf(rq2)[x] = LockOf(rq)[x]
  BY <1>3, LockedFinite DEF OnlyAt, LockOf
<1>6. Sound(s, LockedIn(rq2), LockOf(rq2))
  BY <1>1, <1>3, <1>5, SoundExt
<1>7. Keyed(t, c) /\ RowsOK(t, c, rq) /\ Apart(t, rq) /\ FreeIs(t, f, rq) /\ WellFormed(t)
  BY DEF Pools, Sound
<1>8. own \cap PagesOf(t) = {} /\ \A x \in HoldersIn(rq2) : Own(rq2[x]) \cap own = {}
  BY <1>7, <1>4 DEF Apart
<1>9. \A p \in Page : p \notin own => c2[p] = c[p]
  OBVIOUS
<1> HIDE DEF own
<1>10. Keyed(s, c2)
  <2> SUFFICES ASSUME NEW k \in Cached(t) PROVE c2[t.value[k]] = k
    BY <1>1, <1>2 DEF Keyed
  <2>1. t.value[k] \in PagesOf(t) /\ t.value[k] \in Page
    BY <1>7, TreePagesArePages DEF PagesOf
  <2> QED BY <2>1, <1>8, <1>9, <1>7 DEF Keyed
<1>11. ASSUME NEW x \in HoldersIn(rq2) PROVE RowOK(s, c2, rq2[x])
  <2> DEFINE q == rq2[x]
  <2>1. RowShape(q) /\ Resident(t, q) /\ Written(c, q)
    BY <1>4, <1>7 DEF RowsOK, RowOK
  <2> HIDE DEF q
  <2>2. Resident(s, q)
    BY <2>1, <1>1 DEF Resident
  <2>3. ASSUME NEW i \in (q.protected \div PageSize) + 1 .. Len(q.row)
        PROVE  c2[q.row[i]] = c[q.row[i]]
    <3>1. q.row[i] \in Own(q) /\ Own(q) \subseteq Page
      BY <2>1, OwnFacts
    <3> QED BY <3>1, <1>8, <1>9 DEF q
  <2>4. Written(c2, q)
    BY <2>1, <2>3 DEF Written
  <2> QED BY <2>1, <2>2, <2>4 DEF RowOK, q
<1>12. RowsOK(s, c2, rq2) /\ Apart(s, rq2)
  BY <1>11, <1>7, <1>4, <1>2 DEF RowsOK, Apart
<1>13. FreeIs(s, Release(f, own), rq2)
  <2>1. \A p \in Page : p \in Used(s, rq2) <=> p \in Used(t, rq) /\ p \notin own
    <3> SUFFICES ASSUME NEW p \in Page
                 PROVE  p \in Used(s, rq2) <=> p \in Used(t, rq) /\ p \notin own
      OBVIOUS
    <3>1. ASSUME p \in Used(s, rq2) PROVE p \in Used(t, rq) /\ p \notin own
      BY <3>1, <1>8, <1>4, <1>2 DEF Used
    <3>2. ASSUME p \in Used(t, rq), p \notin own PROVE p \in Used(s, rq2)
      <4>1. CASE p \in PagesOf(t)
        BY <4>1, <1>2 DEF Used
      <4>2. CASE p \notin PagesOf(t)
        <5>1. PICK x \in HoldersIn(rq) : p \in Own(rq[x])
          BY <4>2, <3>2 DEF Used
        <5>2. x # r
          BY <5>1, <3>2 DEF own
        <5>3. x \in HoldersIn(rq2) /\ rq2[x] = rq[x]
          BY <5>2, <1>3, <1>4
        <5> QED BY <5>1, <5>3 DEF Used
      <4> QED BY <4>1, <4>2
    <3> QED BY <3>1, <3>2
  <2>2. \A p \in own : p \in Used(t, rq)
    BY DEF Used, own
  <2>3. \A p \in Page : f[p] = IF p \in Used(t, rq) THEN 0 ELSE 1
    BY <1>7 DEF FreeIs
  <2>4. \A p \in Page : (IF p \in own THEN f[p] + 1 ELSE f[p]) = IF p \in Used(s, rq2) THEN 0 ELSE 1
    BY <2>1, <2>2, <2>3
  <2> QED BY <2>4 DEF FreeIs, Release
<1>14. Pools(s, Release(f, own), c2, rq2)
  BY <1>6, <1>10, <1>12, <1>13 DEF Pools
<1> QED BY <1>14, <1>1 DEF s, own

\* A request takes free pages and writes its own text to them.
LEMMA PoolsGrow ==
  ASSUME NEW t, NEW f, NEW c, NEW rq, Pools(t, f, c, rq), NEW r \in LockedIn(rq),
         NEW rq2, OnlyAt(rq, rq2, r), rq2[r].phase = "running", rq2[r].lock = rq[r].lock,
         NEW old, old = (IF r \in HoldersIn(rq) THEN Own(rq[r]) ELSE {}),
         NEW got \in SUBSET Page, got \cap Used(t, rq) = {},
         Own(rq2[r]) = old \cup got,
         NEW c2, \A p \in Page \ (old \cup got) : c2[p] = c[p],
         RowOK(t, c2, rq2[r])
  PROVE  Pools(t, Take(f, got), c2, rq2)
<1>0. r \in Req
  BY DEF LockedIn
<1>1. LockedIn(rq2) = LockedIn(rq) /\ HoldersIn(rq2) = HoldersIn(rq) \cup {r}
  <2>1. \A x \in Req : x \in LockedIn(rq2) <=> x \in LockedIn(rq)
    BY DEF LockedIn, OnlyAt
  <2>2. \A x \in Req : x \in HoldersIn(rq2) <=> x \in HoldersIn(rq) \/ x = r
    BY DEF HoldersIn, OnlyAt
  <2>3. LockedIn(rq) \subseteq Req /\ HoldersIn(rq) \subseteq Req
        /\ LockedIn(rq2) \subseteq Req /\ HoldersIn(rq2) \subseteq Req
    BY DEF LockedIn, HoldersIn
  <2> QED BY <2>1, <2>2, <2>3, <1>0
<1>2. \A x \in LockedIn(rq) : LockOf(rq2)[x] = LockOf(rq)[x]
  BY LockedFinite DEF LockOf, OnlyAt
<1>3. Sound(t, LockedIn(rq2), LockOf(rq2))
  BY <1>1, <1>2, SoundExt DEF Pools
<1>4. Keyed(t, c) /\ RowsOK(t, c, rq) /\ Apart(t, rq) /\ FreeIs(t, f, rq) /\ WellFormed(t)
  BY DEF Pools, Sound
<1>5. \A x \in HoldersIn(rq2) : x # r => rq2[x] = rq[x] /\ x \in HoldersIn(rq)
  BY <1>1 DEF OnlyAt, HoldersIn
<1>6. got \cap PagesOf(t) = {} /\ \A x \in HoldersIn(rq) : Own(rq[x]) \cap got = {}
  BY DEF Used
<1>7. old \cap PagesOf(t) = {} /\ \A x \in HoldersIn(rq) : x # r => Own(rq[x]) \cap old = {}
  BY <1>4 DEF Apart
<1>8. \A p \in Page : p \notin old /\ p \notin got => c2[p] = c[p]
  OBVIOUS
<1>9. Keyed(t, c2)
  <2> SUFFICES ASSUME NEW k \in Cached(t) PROVE c2[t.value[k]] = k
    BY DEF Keyed
  <2>1. t.value[k] \in PagesOf(t) /\ t.value[k] \in Page
    BY <1>4, TreePagesArePages DEF PagesOf
  <2> QED BY <2>1, <1>6, <1>7, <1>8, <1>4 DEF Keyed
<1>10. ASSUME NEW x \in HoldersIn(rq2) PROVE RowOK(t, c2, rq2[x])
  <2>0. CASE x = r
    BY <2>0
  <2>00. CASE x # r
    <3> DEFINE q == rq2[x]
    <3>1. RowShape(q) /\ Resident(t, q) /\ Written(c, q) /\ x \in HoldersIn(rq) /\ q = rq[x]
      BY <1>4, <1>5, <2>00 DEF RowsOK, RowOK
    <3> HIDE DEF q
    <3>3. ASSUME NEW i \in (q.protected \div PageSize) + 1 .. Len(q.row)
          PROVE  c2[q.row[i]] = c[q.row[i]]
      <4>1. q.row[i] \in Own(q) /\ Own(q) \subseteq Page
        BY <3>1, OwnFacts
      <4> QED BY <4>1, <3>1, <1>6, <1>7, <1>8, <2>00
    <3>4. Written(c2, q)
      BY <3>1, <3>3 DEF Written
    <3> QED BY <3>1, <3>4 DEF RowOK, q
  <2> QED BY <2>0, <2>00
<1>11. RowsOK(t, c2, rq2)
  BY <1>10 DEF RowsOK
<1>12. Apart(t, rq2)
  <2>1. \A x \in HoldersIn(rq2) : Own(rq2[x]) \cap PagesOf(t) = {}
    BY <1>4, <1>5, <1>6, <1>7 DEF Apart
  <2>2. \A x \in HoldersIn(rq2) : x # r => Own(rq2[x]) \cap Own(rq2[r]) = {}
    BY <1>5, <1>6, <1>7
  <2>3. \A x, y \in HoldersIn(rq2) : x # y => Own(rq2[x]) \cap Own(rq2[y]) = {}
    BY <2>2, <1>4, <1>5 DEF Apart
  <2> QED BY <2>1, <2>3 DEF Apart
<1>13. FreeIs(t, Take(f, got), rq2)
  <2>1. \A p : p \in Used(t, rq2) <=> p \in Used(t, rq) \/ p \in got
    <3> SUFFICES ASSUME NEW p PROVE p \in Used(t, rq2) <=> p \in Used(t, rq) \/ p \in got
      OBVIOUS
    <3>1. ASSUME p \in Used(t, rq2) PROVE p \in Used(t, rq) \/ p \in got
      <4>1. CASE \E x \in HoldersIn(rq2) : x # r /\ p \in Own(rq2[x])
        BY <4>1, <1>5 DEF Used
      <4>2. CASE p \in Own(rq2[r])
        BY <4>2 DEF Used
      <4>3. CASE p \in PagesOf(t)
        BY <4>3 DEF Used
      <4> QED BY <3>1, <4>1, <4>2, <4>3 DEF Used
    <3>2. ASSUME p \in got PROVE p \in Used(t, rq2)
      BY <3>2, <1>1 DEF Used
    <3>3. ASSUME p \in Used(t, rq) PROVE p \in Used(t, rq2)
      <4>1. CASE \E x \in HoldersIn(rq) : x # r /\ p \in Own(rq[x])
        BY <4>1, <1>1, <1>5 DEF Used
      <4>2. CASE r \in HoldersIn(rq) /\ p \in Own(rq[r])
        BY <4>2, <1>1 DEF Used
      <4>3. CASE p \in PagesOf(t)
        BY <4>3 DEF Used
      <4> QED BY <3>3, <4>1, <4>2, <4>3 DEF Used
    <3> QED BY <3>1, <3>2, <3>3
  <2>2. \A p \in Page : f[p] = IF p \in Used(t, rq) THEN 0 ELSE 1
    BY <1>4 DEF FreeIs
  <2>3. \A p \in Page : (IF p \in got THEN f[p] - 1 ELSE f[p]) = IF p \in Used(t, rq2) THEN 0 ELSE 1
    BY <2>1, <2>2
  <2> QED BY <2>3 DEF FreeIs, Take
<1> QED BY <1>3, <1>9, <1>11, <1>12, <1>13 DEF Pools

-----------------------------------------------------------------------------
(* Checkpoints *)

\* Inserting the prompt inside the key adds nothing, matching the key again
\* splits nothing away: Publish is the insert of the key.
LEMMA PublishSound ==
  ASSUME NEW t, NEW S, NEW lock, Sound(t, S, lock), NEW q, q.prompt \in Key,
         NEW key \in Key, Whole(Len(key)), RowCovers(q.row, key),
         Len(PageAligned(q.prompt)) < Len(key) => IsPrefixOf(PageAligned(q.prompt), key)
  PROVE  LET s == Publish(t, q, key)
             new == NewPaths(key, Len(LongestMatch(t, key)))
         IN /\ Sound(s, S, lock)
            /\ Cached(s) = Cached(t) \cup new
            /\ new \cap Cached(t) = {}
            /\ key \in Nodes(s) \cup {Root}
            /\ \A l \in Cached(t) : s.value[l] = t.value[l]
            /\ \A l \in new : s.value[l] = q.row[Len(l) \div PageSize]
<1> DEFINE prompt == PageAligned(q.prompt)
           t1 == Insert(t, key, q.row)
           t2 == IF Len(prompt) \in 1 .. Len(key) - 1 THEN Insert(t1, prompt, q.row) ELSE t1
           new == NewPaths(key, Len(LongestMatch(t, key)))
           s == Publish(t, q, key)
<1>1. s = MatchPrefix(t2, key)
  BY DEF Publish
<1>2. /\ Sound(t1, S, lock)
      /\ Cached(t1) = Cached(t) \cup new
      /\ new \cap Cached(t) = {}
      /\ key \in Nodes(t1) \cup {Root}
      /\ \A l \in Cached(t) : t1.value[l] = t.value[l]
      /\ \A l \in new : t1.value[l] = q.row[Len(l) \div PageSize]
  BY InsertSound
<1>3. prompt \in Key /\ Whole(Len(prompt)) /\ Len(prompt) \in Nat /\ Len(key) \in Nat
  <2>1. Len(q.prompt) \in Nat /\ Len(key) \in Nat
    BY PrefixLen
  <2>2. AlignDown(Len(q.prompt)) \in 0 .. Len(q.prompt) /\ Whole(AlignDown(Len(q.prompt)))
    BY <2>1, AlignFacts
  <2>3. prompt \in Key /\ Len(prompt) = AlignDown(Len(q.prompt))
    BY <2>2, PrefixFacts DEF PageAligned
  <2> QED BY <2>1, <2>2, <2>3
<1> HIDE DEF t1, prompt, new, s
<1>4. /\ Sound(t2, S, lock) /\ Cached(t2) = Cached(t1)
      /\ key \in Nodes(t2) \cup {Root}
      /\ \A l \in Cached(t1) : t2.value[l] = t1.value[l]
  <2>1. CASE Len(prompt) \in 1 .. Len(key) - 1
    <3> DEFINE u == Insert(t1, prompt, q.row)
               more == NewPaths(prompt, Len(LongestMatch(t1, prompt)))
    <3>0. Len(prompt) < Len(key) /\ Len(prompt) <= Len(key) /\ Len(key) # 0
      BY <2>1, <1>3
    <3>1. RowCovers(q.row, prompt)
      <4>1. Len(prompt) \div PageSize <= Len(key) \div PageSize
        BY <3>0, <1>3, DivMono
      <4>2. Len(prompt) \div PageSize \in Nat /\ Len(key) \div PageSize \in Nat
        BY <1>3, DivFacts
      <4>3. Len(q.row) \in Nat
        BY DEF RowCovers
      <4> QED BY <4>1, <4>2, <4>3 DEF RowCovers
    <3>2. /\ Sound(u, S, lock) /\ Cached(u) = Cached(t1) \cup more
          /\ more \cap Cached(t1) = {} /\ Nodes(t1) \subseteq Nodes(u)
          /\ \A l \in Cached(t1) : u.value[l] = t1.value[l]
      BY <3>1, <1>2, <1>3, InsertSound
    <3>3. more \subseteq Cached(t1)
      <4>1. WellFormed(t1)
        BY <1>2 DEF Sound
      <4> DEFINE m == LongestMatch(t1, prompt)
      <4>2. m \in Key /\ IsPrefixOf(m, prompt) /\ Whole(Len(m))
        BY <4>1, <1>3, LongestMatchFacts
      <4>3. Len(m) \in Nat /\ Len(m) <= Len(prompt)
        BY <4>2, <1>3, PrefixLen
      <4>4. \A l \in more : l \in Key /\ Whole(Len(l)) /\ IsPrefixOf(l, prompt) /\ Len(m) < Len(l)
        BY <4>2, <4>3, <1>3, NewPathsFacts
      <4>5. key # Root
        BY <3>0, PrefixLen
      <4>6. key \in Cached(t1)
        BY <4>5, <4>1, <1>2 DEF WellFormed, Shape
      <4>7. ASSUME NEW l \in more PROVE l \in Cached(t1)
        <5>1. l \in Key /\ Whole(Len(l)) /\ IsPrefixOf(l, prompt) /\ Len(m) < Len(l)
          BY <4>4
        <5>2. IsPrefixOf(prompt, key)
          BY <3>0 DEF prompt
        <5>3. IsPrefixOf(l, key)
          BY <5>1, <5>2, <1>3, PrefixTrans
        <5>4. l # Root
          <6>1. Len(l) \in Nat /\ Len(l) # 0
            BY <5>1, <4>3, PrefixLen
          <6> QED BY <6>1, PrefixLen
        <5> QED BY <5>1, <5>3, <5>4, <4>6, <4>1 DEF WellFormed, Closed
      <4> QED BY <4>7
    <3>4. t2 = u
      BY <2>1
    <3> QED BY <3>2, <3>3, <3>4, <1>2
  <2>2. CASE ~(Len(prompt) \in 1 .. Len(key) - 1)
    BY <2>2, <1>2
  <2> QED BY <2>1, <2>2
<1> HIDE DEF t2
<1> DEFINE m == LongestMatch(t2, PageAligned(key))
<1>5. m \in Cached(t2) \cup {Root}
  <2>1. AlignDown(Len(key)) = Len(key)
    BY DEF Whole
  <2>2. PageAligned(key) = key
    <3>1. Len(key) \in 0 .. Len(key)
      BY <1>3
    <3>2. Prefix(key, Len(key)) \in Key /\ Len(Prefix(key, Len(key))) = Len(key)
          /\ IsPrefixOf(Prefix(key, Len(key)), key)
      BY <3>1, PrefixFacts
    <3> QED BY <2>1, <3>2, <1>3, PrefixAntisym DEF PageAligned
  <2> QED BY <2>2, <1>4, LongestMatchFacts DEF Sound
<1> HIDE DEF m
<1>6. s = SplitNode(t2, m)
  BY <1>1 DEF MatchPrefix, m
<1>7. /\ Sound(s, S, lock) /\ s.value = t2.value /\ Cached(s) = Cached(t2)
      /\ Nodes(s) = Nodes(t2) \cup ({m} \ {Root})
  BY <1>4, <1>5, <1>6, SplitSound
<1>8. /\ Sound(s, S, lock)
      /\ Cached(s) = Cached(t) \cup new
      /\ new \cap Cached(t) = {}
      /\ key \in Nodes(s) \cup {Root}
      /\ \A l \in Cached(t) : s.value[l] = t.value[l]
      /\ \A l \in new : s.value[l] = q.row[Len(l) \div PageSize]
  BY <1>2, <1>4, <1>7
<1> QED BY <1>8 DEF s, new

\* A lock that moves leaves the books right.
LEMMA MoveSound ==
  ASSUME NEW t, NEW S, NEW lock, Sound(t, S, lock), IsFiniteSet(S), NEW r \in S,
         NEW lock2, \A x \in S \ {r} : lock2[x] = lock[x], lock2[r] \in Nodes(t) \cup {Root}
  PROVE  LET s == IncLockRef(DecLockRef(t, lock[r]), lock2[r])
         IN Sound(s, S, lock2) /\ s.value = t.value
<1> DEFINE d == DecLockRef(t, lock[r])
           others == S \ {r}
<1>1. Sound(d, others, lock) /\ d.value = t.value /\ Nodes(d) = Nodes(t)
  BY DecSound
<1>2. IsFiniteSet(others) /\ r \notin others
  BY FS_RemoveElement
<1>6. others \cup {r} = S
  OBVIOUS
<1>7. Sound(d, others, lock)
  BY <1>1
<1>3. \A x \in others : lock2[x] = lock[x]
  OBVIOUS
<1> HIDE DEF d, others
<1>4. lock2[r] \in Nodes(d) \cup {Root}
  BY <1>1
<1> DEFINE s == IncLockRef(d, lock2[r])
<1>5. Sound(s, others \cup {r}, lock2) /\ s.value = d.value
  BY <1>7, <1>2, <1>3, <1>4, IncSound, SMTT(30)
<1> QED BY <1>1, <1>6, <1>5 DEF d

\* What a checkpoint of q under key leaves: the pages of the key are the
\* tree's, the ones the tree had are freed, the lock is on the key.
CheckpointCase(t, f, c, rq, r, q, key, rq2, c2) ==
  /\ Pools(t, f, c, rq) /\ r \in HoldersIn(rq)
  /\ DOMAIN q = ReqFields /\ SameRow(q, rq[r]) /\ q.prompt \in Key
  /\ key \in Key /\ Whole(Len(key)) /\ q.protected <= Len(key) /\ Len(key) <= q.committed
  /\ IsPrefixOf(key, q.dev)
  /\ Len(PageAligned(q.prompt)) < Len(key) => IsPrefixOf(PageAligned(q.prompt), key)
  /\ OnlyAt(rq, rq2, r) /\ rq2[r].phase = "running"
  /\ SameRow(rq2[r], CheckpointKey(t, q, key).req)
  /\ \A p \in Page \ CheckpointKey(t, q, key).dup : c2[p] = c[p]

\* A checkpoint hands the new pages of the key to the tree, frees the
\* duplicates of what was cached, and moves the lock.
LEMMA PoolsCheckpoint ==
  ASSUME NEW t, NEW f, NEW c, NEW rq, NEW r, NEW q, NEW key, NEW rq2, NEW c2,
         CheckpointCase(t, f, c, rq, r, q, key, rq2, c2)
  PROVE  LET a == CheckpointKey(t, q, key)
         IN /\ Pools(a.tree, Release(f, a.dup), c2, rq2)
            /\ \A k \in Cached(t) : k \in Cached(a.tree) /\ a.tree.value[k] = t.value[k]
            /\ a.dup \subseteq Own(rq[r])
<1> SUFFICES ASSUME Pools(t, f, c, rq), r \in HoldersIn(rq),
                    DOMAIN q = ReqFields, SameRow(q, rq[r]), q.prompt \in Key,
                    key \in Key, Whole(Len(key)), q.protected <= Len(key), Len(key) <= q.committed,
                    IsPrefixOf(key, q.dev),
                    Len(PageAligned(q.prompt)) < Len(key) => IsPrefixOf(PageAligned(q.prompt), key),
                    OnlyAt(rq, rq2, r), rq2[r].phase = "running",
                    SameRow(rq2[r], CheckpointKey(t, q, key).req),
                    \A p \in Page \ CheckpointKey(t, q, key).dup : c2[p] = c[p]
             PROVE  LET a == CheckpointKey(t, q, key)
                    IN /\ Pools(a.tree, Release(f, a.dup), c2, rq2)
                       /\ \A k \in Cached(t) : k \in Cached(a.tree) /\ a.tree.value[k] = t.value[k]
                       /\ a.dup \subseteq Own(rq[r])
  BY DEF CheckpointCase
<1> DEFINE m == LongestMatch(t, key)
           t1 == Publish(t, q, key)
           a == CheckpointKey(t, q, key)
           new == NewPaths(key, Len(m))
           P == q.protected \div PageSize
           M == Len(m) \div PageSize
           K == Len(key) \div PageSize
           L == Len(q.row)
           row2 == [i \in DOMAIN q.row |-> IF i \in P + 1 .. K
                                           THEN t1.value[Prefix(key, i * PageSize)] ELSE q.row[i]]
           dup == {q.row[i] : i \in P + 1 .. M}
           p2 == rq2[r]
<1>0. r \in Req /\ r \in LockedIn(rq)
  BY DEF HoldersIn, LockedIn
<1>1. Sound(t, LockedIn(rq), LockOf(rq)) /\ WellFormed(t) /\ Keyed(t, c) /\ RowsOK(t, c, rq)
      /\ Apart(t, rq) /\ FreeIs(t, f, rq)
  BY DEF Pools, Sound
<1>2. RowShape(q) /\ Resident(t, q) /\ Written(c, q) /\ Own(q) = Own(rq[r])
  BY <1>1, SameRowFacts DEF RowsOK, RowOK
<1>3. a = Adopt(t1, q, key, Len(m))
  BY DEF CheckpointKey
<1>4. /\ a.tree = IncLockRef(DecLockRef(t1, q.lock), key)
      /\ a.dup = dup
      /\ a.req.row = row2 /\ a.req.protected = Len(key) /\ a.req.lock = key
      /\ a.req.committed = q.committed /\ a.req.dev = q.dev
  <2>1. a.tree = IncLockRef(DecLockRef(t1, q.lock), key) /\ a.dup = dup
        /\ a.req = [q EXCEPT !.row = row2, !.protected = Len(key), !.lock = key]
    BY <1>3 DEF Adopt
  <2> HIDE DEF a, t1, row2, dup
  <2>2. /\ a.req.row = row2 /\ a.req.protected = Len(key) /\ a.req.lock = key
        /\ a.req.committed = q.committed /\ a.req.dev = q.dev
    BY <2>1 DEF ReqFields
  <2> QED BY <2>1, <2>2
<1> HIDE DEF a
<1>5. /\ p2.row = row2 /\ p2.protected = Len(key) /\ p2.lock = key
      /\ p2.committed = q.committed /\ p2.dev = q.dev
  BY <1>4 DEF SameRow, a
<1>6. \A p \in Page : p \notin dup => c2[p] = c[p]
  BY <1>4 DEF a
<1>7. m \in Cached(t) \cup {Root} /\ m \in Key /\ IsPrefixOf(m, key) /\ Whole(Len(m))
      /\ \A l \in Cached(t) : IsPrefixOf(l, key) => Len(l) <= Len(m) /\ IsPrefixOf(l, m)
  BY <1>1, LongestMatchFacts
<1>8. q.lock \in Key /\ q.dev \in Key /\ IsPrefixOf(q.lock, q.dev) /\ Len(q.lock) = q.protected
      /\ q.protected \in Nat /\ q.committed \in Nat /\ Whole(q.protected)
      /\ q.committed <= Len(q.dev) /\ L = CeilPages(q.committed) /\ q.row \in Seq(Page)
  BY <1>2 DEF RowShape
<1>9. IsPrefixOf(q.lock, key)
  BY <1>8, PrefixChain
<1>10. Len(m) \in Nat /\ Len(key) \in Nat /\ Len(m) <= Len(key) /\ q.protected <= Len(m)
  <2>1. Len(m) \in Nat /\ Len(key) \in Nat /\ Len(m) <= Len(key)
    BY <1>7, PrefixLen
  <2>2. q.lock \in Nodes(t) \cup {Root}
    BY <1>0, <1>1 DEF Sound, Anchored, LockOf, SameRow
  <2>3. CASE q.lock = Root
    BY <2>3, <1>8, <2>1, PrefixLen
  <2>4. CASE q.lock # Root
    <3>1. q.lock \in Cached(t)
      BY <2>2, <2>4, <1>1 DEF WellFormed, Shape
    <3>2. Len(q.lock) <= Len(m)
      BY <3>1, <1>9, <1>7
    <3> QED BY <3>2, <1>8, <2>1
  <2> QED BY <2>1, <2>3, <2>4
<1>11. P \in Nat /\ M \in Nat /\ K \in Nat /\ L \in Nat /\ P <= M /\ M <= K /\ K <= L
  <2>1. P \in Nat /\ M \in Nat /\ K \in Nat
    BY <1>10, <1>8, DivFacts
  <2>2. P <= M /\ M <= K
    BY <1>10, <1>8, DivMono
  <2>3. K <= q.committed \div PageSize
    BY <1>10, <1>8, DivMono
  <2>4. q.committed \div PageSize <= L /\ L \in Nat /\ q.committed \div PageSize \in Nat
    BY <1>8, CeilFacts
  <2> QED BY <2>1, <2>2, <2>3, <2>4
<1>12. RowCovers(q.row, key)
  BY <1>8, <1>11 DEF RowCovers
<1>13. /\ Sound(t1, LockedIn(rq), LockOf(rq))
       /\ Cached(t1) = Cached(t) \cup new
       /\ new \cap Cached(t) = {}
       /\ key \in Nodes(t1) \cup {Root}
       /\ \A l \in Cached(t) : t1.value[l] = t.value[l]
       /\ \A l \in new : t1.value[l] = q.row[Len(l) \div PageSize]
  BY <1>1, <1>12, PublishSound
<1>14. \A i \in 1 .. K : /\ Prefix(key, i * PageSize) \in Key
                         /\ Len(Prefix(key, i * PageSize)) = i * PageSize
                         /\ Len(Prefix(key, i * PageSize)) \div PageSize = i
                         /\ IsPrefixOf(Prefix(key, i * PageSize), key)
                         /\ i * PageSize \in 0 .. Len(key)
                         /\ i * PageSize <= q.committed
  <2> SUFFICES ASSUME NEW i \in 1 .. K
               PROVE  /\ Prefix(key, i * PageSize) \in Key
                      /\ Len(Prefix(key, i * PageSize)) = i * PageSize
                      /\ Len(Prefix(key, i * PageSize)) \div PageSize = i
                      /\ IsPrefixOf(Prefix(key, i * PageSize), key)
                      /\ i * PageSize \in 0 .. Len(key)
                      /\ i * PageSize <= q.committed
    OBVIOUS
  <2>1. i \in Nat /\ i <= K
    BY <1>11
  <2>2. i * PageSize <= K * PageSize /\ i * PageSize \in Nat /\ (i * PageSize) \div PageSize = i
    BY <2>1, <1>11, MulFacts
  <2>3. K * PageSize <= Len(key) /\ K * PageSize \in Nat
    BY <1>10, DivFacts
  <2>4. i * PageSize \in 0 .. Len(key) /\ i * PageSize <= q.committed
    BY <2>2, <2>3, <1>10, <1>8
  <2> QED BY <2>2, <2>4, PrefixFacts
<1>15. new = {Prefix(key, i * PageSize) : i \in M + 1 .. K}
  BY DEF NewPaths
<1> HIDE DEF t1, m, new, P, M, K, row2, dup
<1>16. DOMAIN q.row = 1 .. L /\ \A i \in 1 .. L : q.row[i] \in Page
  BY <1>8
<1> HIDE DEF L
\* The pages that are published.
<1>17. \A p : p \in PagesOf(t1) <=> p \in PagesOf(t) \/ \E i \in M + 1 .. K : p = q.row[i]
  <2>1. \A i \in M + 1 .. K : i \in 1 .. K
    BY <1>11
  <2>2. \A i \in M + 1 .. K : t1.value[Prefix(key, i * PageSize)] = q.row[i]
                              /\ Prefix(key, i * PageSize) \in Cached(t1)
    BY <2>1, <1>13, <1>14, <1>15
  <2>3. ASSUME NEW p \in PagesOf(t1) PROVE p \in PagesOf(t) \/ \E i \in M + 1 .. K : p = q.row[i]
    <3>1. PICK l \in Cached(t1) : p = t1.value[l]
      BY <2>3 DEF PagesOf
    <3>2. CASE l \in Cached(t)
      BY <3>1, <3>2, <1>13 DEF PagesOf
    <3>3. CASE l \in new
      BY <3>1, <3>3, <2>2, <1>15
    <3> QED BY <3>1, <3>2, <3>3, <1>13
  <2>4. ASSUME NEW p \in PagesOf(t) PROVE p \in PagesOf(t1)
    BY <2>4, <1>13 DEF PagesOf
  <2>5. ASSUME NEW i \in M + 1 .. K PROVE q.row[i] \in PagesOf(t1)
    BY <2>2 DEF PagesOf
  <2> QED BY <2>3, <2>4, <2>5
<1>18. \A i \in P + 1 .. L, j \in P + 1 .. L : q.row[i] = q.row[j] => i = j
  BY <1>2, OwnOnce DEF P, L
<1>19. \A p : p \in Own(q) <=> \E i \in P + 1 .. L : p = q.row[i]
  BY <1>2, OwnFacts DEF P, L
<1>20. dup \subseteq Own(q) /\ dup \subseteq Page
  <2>1. \A i \in P + 1 .. M : i \in P + 1 .. L /\ i \in 1 .. L
    BY <1>11
  <2> QED BY <2>1, <1>19, <1>16 DEF dup
<1>21. \A i \in M + 1 .. L : q.row[i] \notin dup
  <2> SUFFICES ASSUME NEW i \in M + 1 .. L, NEW j \in P + 1 .. M, q.row[i] = q.row[j] PROVE FALSE
    BY DEF dup
  <2>1. i \in P + 1 .. L /\ j \in P + 1 .. L /\ i # j
    BY <1>11
  <2> QED BY <2>1, <1>18
<1>22. \A i \in K + 1 .. L : q.row[i] \in Own(q) /\ q.row[i] \in Page
         /\ \A j \in M + 1 .. K : q.row[i] # q.row[j]
  <2> SUFFICES ASSUME NEW i \in K + 1 .. L
               PROVE  /\ q.row[i] \in Own(q) /\ q.row[i] \in Page
                      /\ \A j \in M + 1 .. K : q.row[i] # q.row[j]
    OBVIOUS
  <2>1. i \in P + 1 .. L /\ i \in 1 .. L
    BY <1>11
  <2>2. \A j \in M + 1 .. K : j \in P + 1 .. L /\ i # j
    BY <1>11
  <2> QED BY <2>1, <2>2, <1>18, <1>19, <1>16
<1>23. Own(q) \cap PagesOf(t) = {}
  BY <1>1, <1>2 DEF Apart
\* The new row.
<1>24. row2 \in Seq(Page) /\ Len(row2) = L
       /\ \A i \in 1 .. L : row2[i] = IF i \in P + 1 .. K THEN t1.value[Prefix(key, i * PageSize)]
                                                          ELSE q.row[i]
  <2>1. \A i \in P + 1 .. K : t1.value[Prefix(key, i * PageSize)] \in Page
    <3> SUFFICES ASSUME NEW i \in P + 1 .. K PROVE t1.value[Prefix(key, i * PageSize)] \in Page
      OBVIOUS
    <3>1. i \in 1 .. K
      BY <1>11
    <3>2. key # Root
      <4>1. i * PageSize # 0
        BY <3>1, <1>11, MulFacts
      <4>2. i * PageSize \in 0 .. Len(key)
        BY <3>1, <1>14
      <4> QED BY <4>1, <4>2, PrefixLen
    <3>3. WellFormed(t1) /\ key \in Cached(t1)
      BY <3>2, <1>13 DEF Sound, WellFormed, Shape
    <3>4. Whole(Len(Prefix(key, i * PageSize))) /\ Prefix(key, i * PageSize) # Root
      <4>0. i \in Nat /\ i # 0
        BY <3>1, <1>11
      <4>1. i * PageSize # 0 /\ Whole(i * PageSize)
        BY <4>0, MulFacts, WholeMultiple
      <4> QED BY <4>1, <3>1, <1>14, PrefixLen
    <3>5. Prefix(key, i * PageSize) \in Cached(t1)
      BY <3>1, <3>3, <3>4, <1>14 DEF WellFormed, Closed
    <3> QED BY <3>3, <3>5, TreePagesArePages
  <2>2. row2 \in [1 .. L -> Page]
    BY <2>1, <1>16 DEF row2
  <2>3. row2 \in Seq(Page) /\ Len(row2) = L
    BY <2>2, <1>11
  <2> QED BY <2>3, <1>16 DEF row2
<1>25. RowShape(p2)
  <2>1. Len(key) <= p2.committed /\ p2.committed <= Len(p2.dev)
    BY <1>5, <1>8
  <2> QED BY <2>1, <1>5, <1>8, <1>24, <1>10 DEF RowShape, L
<1>26. \A i \in 1 .. K : row2[i] = t1.value[Prefix(key, i * PageSize)]
  <2> SUFFICES ASSUME NEW i \in 1 .. K PROVE row2[i] = t1.value[Prefix(key, i * PageSize)]
    OBVIOUS
  <2>0. i \in 1 .. L /\ i \in Nat
    BY <1>11
  <2>1. CASE i \in P + 1 .. K
    BY <2>0, <2>1, <1>24
  <2>2. CASE ~(i \in P + 1 .. K)
    <3>1. i \in 1 .. P
      BY <2>2, <1>11
    <3>2. row2[i] = q.row[i] /\ q.row[i] = t.value[Prefix(q.lock, i * PageSize)]
      BY <3>1, <2>0, <2>2, <1>24, <1>2 DEF Resident, P
    <3>3. LockOf(rq)[r] = q.lock
      BY <1>0 DEF LockOf, SameRow
    <3>4. i \in 1 .. Len(LockOf(rq)[r]) \div PageSize
      BY <3>1, <3>3, <1>8 DEF P
    <3>5. Prefix(q.lock, i * PageSize) \in Cached(t) /\ IsPrefixOf(Prefix(q.lock, i * PageSize), q.lock)
          /\ Len(Prefix(q.lock, i * PageSize)) = i * PageSize
      BY <3>4, <3>3, <1>0, <1>1, LockedPath
    <3>6. Prefix(q.lock, i * PageSize) \in Key
      BY <3>5, <1>1, WellFormedKeys
    <3>7. IsPrefixOf(Prefix(q.lock, i * PageSize), key)
      BY <3>5, <3>6, <1>9, <1>8, PrefixTrans
    <3>8. Prefix(q.lock, i * PageSize) = Prefix(key, i * PageSize)
      BY <3>5, <3>6, <3>7, PrefixIsCut
    <3> QED BY <3>2, <3>5, <3>8, <1>13
  <2> QED BY <2>1, <2>2
<1>27. \A i \in K + 1 .. L : row2[i] = q.row[i]
  <2>1. \A i \in K + 1 .. L : i \in 1 .. L /\ ~(i \in P + 1 .. K)
    BY <1>11
  <2> QED BY <2>1, <1>24
<1>28. \A p : p \in Own(p2) <=> \E i \in K + 1 .. L : p = q.row[i]
  <2>1. \A p : p \in Own(p2) <=> \E i \in K + 1 .. L : p = row2[i]
    BY <1>25, <1>5, <1>24, OwnFacts DEF K
  <2> QED BY <2>1, <1>27
\* Contents.
<1>29. Written(c2, p2)
  <2> SUFFICES ASSUME NEW i \in K + 1 .. L PROVE c2[row2[i]] = Shown(p2, i)
    BY <1>5, <1>24 DEF Written, K
  <2>1. i \in M + 1 .. L /\ i \in P + 1 .. L
    BY <1>11
  <2>2. c2[q.row[i]] = c[q.row[i]]
    BY <2>1, <1>21, <1>22, <1>6
  <2>3. c[q.row[i]] = Shown(q, i)
    BY <2>1, <1>2 DEF Written, P, L
  <2>4. Shown(p2, i) = Shown(q, i)
    BY <1>5 DEF Shown
  <2> QED BY <2>2, <2>3, <2>4, <1>27
<1>30. Keyed(t1, c2)
  <2> SUFFICES ASSUME NEW k \in Cached(t1) PROVE c2[t1.value[k]] = k
    BY DEF Keyed
  <2>1. CASE k \in Cached(t)
    <3>1. t1.value[k] = t.value[k] /\ t.value[k] \in PagesOf(t) /\ t.value[k] \in Page
      BY <2>1, <1>13, <1>1, TreePagesArePages DEF PagesOf
    <3>2. t.value[k] \notin dup
      BY <3>1, <1>20, <1>23
    <3> QED BY <3>1, <3>2, <2>1, <1>6, <1>1 DEF Keyed
  <2>2. CASE k \in new
    <3>1. PICK i \in M + 1 .. K : k = Prefix(key, i * PageSize)
      BY <2>2, <1>15
    <3>2. i \in 1 .. K /\ i \in P + 1 .. L /\ i \in M + 1 .. L /\ i \in 1 .. L
      BY <1>11
    <3>3. t1.value[k] = q.row[i]
      BY <3>1, <3>2, <2>2, <1>13, <1>14
    <3>4. c[q.row[i]] = Prefix(q.dev, i * PageSize)
      <4>1. c[q.row[i]] = Shown(q, i)
        BY <3>2, <1>2 DEF Written, P, L
      <4>2. i * PageSize <= q.committed
        BY <3>2, <1>14
      <4> QED BY <4>1, <4>2 DEF Shown
    <3>5. Prefix(q.dev, i * PageSize) = k
      <4>1. k \in Key /\ IsPrefixOf(k, key) /\ Len(k) = i * PageSize
        BY <3>1, <3>2, <1>14
      <4>2. IsPrefixOf(k, q.dev)
        BY <4>1, <1>8, PrefixTrans
      <4> QED BY <4>1, <4>2, <1>8, PrefixIsCut
    <3>6. c2[q.row[i]] = c[q.row[i]]
      BY <3>2, <1>21, <1>16, <1>6
    <3> QED BY <3>3, <3>4, <3>5, <3>6
  <2> QED BY <2>1, <2>2, <1>13
\* The locks.
<1>31. LockedIn(rq2) = LockedIn(rq) /\ HoldersIn(rq2) = HoldersIn(rq)
  <2>1. \A x \in Req : x \in LockedIn(rq2) <=> x \in LockedIn(rq)
    BY <1>0 DEF LockedIn, OnlyAt
  <2>2. \A x \in Req : x \in HoldersIn(rq2) <=> x \in HoldersIn(rq)
    BY DEF HoldersIn, OnlyAt
  <2>3. LockedIn(rq) \subseteq Req /\ HoldersIn(rq) \subseteq Req
        /\ LockedIn(rq2) \subseteq Req /\ HoldersIn(rq2) \subseteq Req
    BY DEF LockedIn, HoldersIn
  <2> QED BY <2>1, <2>2, <2>3
<1>32. \A x \in HoldersIn(rq2) : x # r => rq2[x] = rq[x] /\ x \in HoldersIn(rq)
  BY <1>31 DEF OnlyAt, HoldersIn
<1>33. Sound(a.tree, LockedIn(rq2), LockOf(rq2)) /\ a.tree.value = t1.value
  <2>1. LockOf(rq)[r] = q.lock /\ LockOf(rq2)[r] = key
    BY <1>0, <1>5 DEF LockOf, SameRow
  <2>2. IsFiniteSet(LockedIn(rq))
    BY LockedFinite
  <2>3. \A x \in LockedIn(rq) \ {r} : LockOf(rq2)[x] = LockOf(rq)[x]
    BY LockedFinite DEF LockOf, OnlyAt
  <2>4. LockOf(rq2)[r] \in Nodes(t1) \cup {Root}
    BY <2>1, <1>13
  <2>5. Sound(t1, LockedIn(rq), LockOf(rq))
    BY <1>13
  <2> DEFINE u == IncLockRef(DecLockRef(t1, LockOf(rq)[r]), LockOf(rq2)[r])
  <2>6. Sound(u, LockedIn(rq), LockOf(rq2)) /\ u.value = t1.value
    BY <2>2, <2>3, <2>4, <2>5, <1>0, MoveSound
  <2> QED BY <2>6, <2>1, <1>4, <1>31
<1>34. Cached(a.tree) = Cached(t1) /\ PagesOf(a.tree) = PagesOf(t1)
  BY <1>33 DEF Cached, PagesOf
\* The other requests.
<1>35. ASSUME NEW x \in HoldersIn(rq2) PROVE RowOK(a.tree, c2, rq2[x])
  <2>1. CASE x = r
    <3>1. Resident(a.tree, p2)
      BY <1>26, <1>33, <1>5 DEF Resident, K
    <3> QED BY <3>1, <2>1, <1>25, <1>29 DEF RowOK
  <2>2. CASE x # r
    <3> DEFINE u == rq[x]
    <3>1. rq2[x] = u /\ x \in HoldersIn(rq) /\ RowShape(u) /\ Resident(t, u) /\ Written(c, u)
      BY <2>2, <1>32, <1>1 DEF RowsOK, RowOK
    <3>2. LockOf(rq)[x] = u.lock /\ x \in LockedIn(rq)
      BY <3>1 DEF LockOf, LockedIn, HoldersIn
    <3> HIDE DEF u
    <3>3. ASSUME NEW i \in 1 .. u.protected \div PageSize
          PROVE  u.row[i] = a.tree.value[Prefix(u.lock, i * PageSize)]
      <4>1. i \in 1 .. Len(LockOf(rq)[x]) \div PageSize
        BY <3>1, <3>2 DEF RowShape
      <4>2. Prefix(u.lock, i * PageSize) \in Cached(t)
        BY <4>1, <3>2, <1>1, LockedPath
      <4> QED BY <4>2, <3>1, <1>13, <1>33 DEF Resident
    <3>4. ASSUME NEW i \in (u.protected \div PageSize) + 1 .. Len(u.row)
          PROVE  c2[u.row[i]] = Shown(u, i)
      <4>1. u.row[i] \in Own(u) /\ Own(u) \subseteq Page
        BY <3>1, OwnFacts
      <4>2. Own(u) \cap Own(q) = {}
        BY <2>2, <3>1, <1>1, <1>2 DEF Apart, u
      <4>3. c2[u.row[i]] = c[u.row[i]]
        BY <4>1, <4>2, <1>20, <1>6
      <4> QED BY <4>3, <3>1 DEF Written
    <3> QED BY <3>1, <3>3, <3>4 DEF RowOK, Resident, Written
  <2> QED BY <2>1, <2>2
<1>36. Apart(a.tree, rq2)
  <2>1. Own(p2) \subseteq Own(q) /\ \A p \in Own(p2) : p \notin PagesOf(t1)
    <3> SUFFICES ASSUME NEW p \in Own(p2) PROVE p \in Own(q) /\ p \notin PagesOf(t1)
      OBVIOUS
    <3>1. PICK i \in K + 1 .. L : p = q.row[i]
      BY <1>28
    <3> QED BY <3>1, <1>22, <1>23, <1>17
  <2>2. \A p \in PagesOf(t1) : p \in PagesOf(t) \/ p \in Own(q)
    <3>1. \A i \in M + 1 .. K : i \in P + 1 .. L
      BY <1>11
    <3> QED BY <3>1, <1>17, <1>19
  <2>3. ASSUME NEW x \in HoldersIn(rq2) PROVE Own(rq2[x]) \cap PagesOf(a.tree) = {}
    <3>1. CASE x = r
      BY <3>1, <2>1, <1>34
    <3>2. CASE x # r
      <4>1. rq2[x] = rq[x] /\ Own(rq[x]) \cap Own(q) = {} /\ Own(rq[x]) \cap PagesOf(t) = {}
        BY <3>2, <1>32, <1>1, <1>2 DEF Apart
      <4> QED BY <4>1, <2>2, <1>34
    <3> QED BY <3>1, <3>2
  <2>4. ASSUME NEW x \in HoldersIn(rq2), x # r PROVE Own(rq2[x]) \cap Own(p2) = {}
    <3>1. rq2[x] = rq[x] /\ Own(rq[x]) \cap Own(q) = {}
      BY <2>4, <1>32, <1>1, <1>2 DEF Apart
    <3> QED BY <3>1, <2>1
  <2>5. ASSUME NEW x \in HoldersIn(rq2), NEW y \in HoldersIn(rq2), x # y
        PROVE  Own(rq2[x]) \cap Own(rq2[y]) = {}
    <3>1. CASE x = r
      BY <3>1, <2>4, <2>5
    <3>2. CASE y = r
      BY <3>2, <2>4, <2>5
    <3>3. CASE x # r /\ y # r
      BY <3>3, <2>5, <1>32, <1>1 DEF Apart
    <3> QED BY <3>1, <3>2, <3>3
  <2> QED BY <2>3, <2>5 DEF Apart
<1>37. \A p : p \in Used(a.tree, rq2) <=> p \in Used(t, rq) /\ p \notin dup
  <2> SUFFICES ASSUME NEW p PROVE p \in Used(a.tree, rq2) <=> p \in Used(t, rq) /\ p \notin dup
    OBVIOUS
  <2>0. Own(q) \subseteq Used(t, rq)
    BY <1>2 DEF Used
  <2>1. ASSUME p \in Used(a.tree, rq2) PROVE p \in Used(t, rq) /\ p \notin dup
    <3>1. CASE p \in PagesOf(t)
      BY <3>1, <1>20, <1>23 DEF Used
    <3>2. CASE \E i \in M + 1 .. K : p = q.row[i]
      <4>1. \A i \in M + 1 .. K : i \in M + 1 .. L /\ i \in P + 1 .. L
        BY <1>11
      <4> QED BY <4>1, <3>2, <1>21, <1>19, <2>0
    <3>3. CASE p \in Own(p2)
      <4>1. PICK i \in K + 1 .. L : p = q.row[i]
        BY <3>3, <1>28
      <4>2. i \in M + 1 .. L
        BY <1>11
      <4> QED BY <4>1, <4>2, <1>21, <1>22, <2>0
    <3>4. CASE \E x \in HoldersIn(rq2) : x # r /\ p \in Own(rq2[x])
      <4>1. PICK x \in HoldersIn(rq) : x # r /\ p \in Own(rq[x])
        BY <3>4, <1>32
      <4>2. Own(rq[x]) \cap Own(q) = {}
        BY <4>1, <1>1, <1>2 DEF Apart
      <4> QED BY <4>1, <4>2, <1>20 DEF Used
    <3> QED BY <2>1, <3>1, <3>2, <3>3, <3>4, <1>34, <1>17 DEF Used
  <2>2. ASSUME p \in Used(t, rq), p \notin dup PROVE p \in Used(a.tree, rq2)
    <3>1. CASE p \in PagesOf(t)
      BY <3>1, <1>34, <1>17 DEF Used
    <3>2. CASE \E x \in HoldersIn(rq) : x # r /\ p \in Own(rq[x])
      BY <3>2, <1>32, <1>31 DEF Used
    <3>3. CASE p \in Own(q)
      <4>1. PICK i \in P + 1 .. L : p = q.row[i]
        BY <3>3, <1>19
      <4>2. CASE i \in P + 1 .. M
        BY <4>1, <4>2, <2>2 DEF dup
      <4>3. CASE i \in M + 1 .. K
        BY <4>1, <4>3, <1>17, <1>34 DEF Used
      <4>4. CASE i \in K + 1 .. L
        <5>1. p \in Own(p2)
          BY <4>1, <4>4, <1>28
        <5> QED BY <5>1, <1>31 DEF Used
      <4>5. i \in P + 1 .. M \/ i \in M + 1 .. K \/ i \in K + 1 .. L
        BY <1>11
      <4> QED BY <4>2, <4>3, <4>4, <4>5
    <3> QED BY <2>2, <3>1, <3>2, <3>3, <1>2 DEF Used
  <2> QED BY <2>1, <2>2
<1>38. FreeIs(a.tree, Release(f, dup), rq2)
  <2>1. \A p \in dup : p \in Used(t, rq)
    BY <1>20, <1>2 DEF Used
  <2>2. \A p \in Page : f[p] = IF p \in Used(t, rq) THEN 0 ELSE 1
    BY <1>1 DEF FreeIs
  <2>3. \A p \in Page : (IF p \in dup THEN f[p] + 1 ELSE f[p])
                          = IF p \in Used(a.tree, rq2) THEN 0 ELSE 1
    BY <2>1, <2>2, <1>37
  <2> QED BY <2>3 DEF FreeIs, Release
<1>39. Keyed(a.tree, c2) /\ RowsOK(a.tree, c2, rq2)
  BY <1>30, <1>33, <1>34, <1>35 DEF Keyed, RowsOK
<1>40. Pools(a.tree, Release(f, a.dup), c2, rq2)
  BY <1>33, <1>36, <1>38, <1>39, <1>4 DEF Pools
<1>41. \A k \in Cached(t) : k \in Cached(a.tree) /\ a.tree.value[k] = t.value[k]
  BY <1>13, <1>33, <1>34
<1>42. a.dup \subseteq Own(rq[r])
  BY <1>4, <1>20, <1>2
<1> QED BY <1>40, <1>41, <1>42 DEF a

-----------------------------------------------------------------------------
(* What the pools say of the properties *)

\* The pools imply SlotOwnership.
LEMMA PoolsOwnership ==
  ASSUME Pools(tree, free, content, req)
  PROVE  SlotOwnership
<1>1. Holders = HoldersIn(req) /\ TreePages = PagesOf(tree) /\ \A r : OwnPages(r) = Own(req[r])
  BY DEF Holders, HoldersIn, HoldsKV, TreePages, PagesOf, OwnPages, Own
<1>2. Keyed(tree, content) /\ RowsOK(tree, content, req) /\ Apart(tree, req) /\ FreeIs(tree, free, req)
      /\ Sound(tree, LockedIn(req), LockOf(req))
  BY DEF Pools
<1>3. \A k, l \in Cached(tree) : tree.value[k] = tree.value[l] => k = l
  BY <1>2, ValuesApart
<1>4. ASSUME NEW r \in HoldersIn(req), NEW i \in DOMAIN req[r].row, NEW j \in DOMAIN req[r].row,
             req[r].row[i] = req[r].row[j]
      PROVE  i = j
  <2> DEFINE q == req[r]
             P == q.protected \div PageSize
  <2>1. RowShape(q) /\ Resident(tree, q) /\ Written(content, q)
    BY <1>2 DEF RowsOK, RowOK
  <2>2. P \in Nat /\ Len(q.row) \in Nat /\ i \in 1 .. Len(q.row) /\ j \in 1 .. Len(q.row)
    <3>1. P \in Nat /\ Len(q.row) \in Nat
      BY <2>1, OwnFacts
    <3>2. q.row \in Seq(Page)
      BY <2>1 DEF RowShape
    <3>3. DOMAIN q.row = 1 .. Len(q.row)
      BY <3>2
    <3> QED BY <3>1, <3>3
  <2>3. \A n \in 1 .. P : Prefix(q.lock, n * PageSize) \in Cached(tree)
                          /\ Len(Prefix(q.lock, n * PageSize)) = n * PageSize
                          /\ q.row[n] = tree.value[Prefix(q.lock, n * PageSize)]
    <3>1. LockOf(req)[r] = q.lock /\ r \in LockedIn(req)
      BY DEF LockOf, LockedIn, HoldersIn
    <3>2. P = Len(LockOf(req)[r]) \div PageSize
      BY <3>1, <2>1 DEF RowShape
    <3> QED BY <3>1, <3>2, <2>1, <1>2, LockedPath DEF Resident
  <2>4. \A n \in P + 1 .. Len(q.row) : q.row[n] \in Own(q)
    BY <2>1, OwnFacts
  <2>5. \A n \in 1 .. P : q.row[n] \in PagesOf(tree)
    BY <2>3 DEF PagesOf
  <2>6. Own(q) \cap PagesOf(tree) = {}
    BY <1>2 DEF Apart
  <2>7. i \in 1 .. P \/ i \in P + 1 .. Len(q.row)
    BY <2>2
  <2>8. j \in 1 .. P \/ j \in P + 1 .. Len(q.row)
    BY <2>2
  <2> HIDE DEF P
  <2>9. CASE i \in 1 .. P /\ j \in 1 .. P
    <3>1. Prefix(q.lock, i * PageSize) = Prefix(q.lock, j * PageSize)
      BY <2>9, <2>3, <1>4, <1>3
    <3>2. i * PageSize = j * PageSize
      BY <3>1, <2>9, <2>3
    <3>3. i \in Nat /\ j \in Nat
      BY <2>2
    <3>4. (i * PageSize) \div PageSize = i /\ (j * PageSize) \div PageSize = j
      BY <3>3, MulFacts
    <3> QED BY <3>2, <3>4
  <2>10. CASE i \in P + 1 .. Len(q.row) /\ j \in P + 1 .. Len(q.row)
    BY <2>10, <2>1, <1>4, OwnOnce DEF P
  <2>11. CASE i \in 1 .. P /\ j \in P + 1 .. Len(q.row)
    BY <2>11, <2>4, <2>5, <2>6, <1>4
  <2>12. CASE j \in 1 .. P /\ i \in P + 1 .. Len(q.row)
    BY <2>12, <2>4, <2>5, <2>6, <1>4
  <2> QED BY <2>7, <2>8, <2>9, <2>10, <2>11, <2>12
<1>5. \A p \in Page : free[p] = IF p \in PagesOf(tree) \/ \E r \in HoldersIn(req) : p \in Own(req[r])
                                THEN 0 ELSE 1
  <2>1. \A p : p \in Used(tree, req)
                 <=> p \in PagesOf(tree) \/ \E r \in HoldersIn(req) : p \in Own(req[r])
    BY DEF Used
  <2> QED BY <2>1, <1>2 DEF FreeIs
<1>6. \A r \in Holders : \A i, j \in DOMAIN req[r].row : req[r].row[i] = req[r].row[j] => i = j
  BY <1>4, <1>1
<1>7. \A p \in Page : free[p] = IF p \in TreePages \/ \E r \in Holders : p \in OwnPages(r)
                                THEN 0 ELSE 1
  BY <1>5, <1>1
<1>8. /\ \A r \in Holders : OwnPages(r) \cap TreePages = {}
      /\ \A r, s \in Holders : r # s => OwnPages(r) \cap OwnPages(s) = {}
  BY <1>2, <1>1 DEF Apart
<1> QED BY <1>3, <1>6, <1>7, <1>8 DEF SlotOwnership

\* The pools imply ContentRight.
LEMMA PoolsContent ==
  ASSUME Pools(tree, free, content, req)
  PROVE  ContentRight
<1>1. Holders = HoldersIn(req)
  BY DEF Holders, HoldersIn, HoldsKV
<1>2. Keyed(tree, content) /\ RowsOK(tree, content, req) /\ Sound(tree, LockedIn(req), LockOf(req))
  BY DEF Pools
<1>3. ASSUME NEW r \in HoldersIn(req), NEW i \in 1 .. CeilPages(req[r].committed)
      PROVE  content[req[r].row[i]] = Shown(req[r], i)
  <2> DEFINE q == req[r]
             P == q.protected \div PageSize
  <2>1. RowShape(q) /\ Resident(tree, q) /\ Written(content, q)
    BY <1>2 DEF RowsOK, RowOK
  <2>2. P \in Nat /\ Len(q.row) \in Nat /\ i \in 1 .. Len(q.row)
    BY <2>1, OwnFacts DEF RowShape
  <2>3. CASE i \in P + 1 .. Len(q.row)
    BY <2>3, <2>1 DEF Written
  <2>4. CASE i \in 1 .. P
    <3>1. LockOf(req)[r] = q.lock /\ r \in LockedIn(req)
      BY DEF LockOf, LockedIn, HoldersIn
    <3>2. P = Len(LockOf(req)[r]) \div PageSize
      BY <3>1, <2>1 DEF RowShape
    <3> DEFINE k == Prefix(q.lock, i * PageSize)
    <3>3. k \in Cached(tree) /\ IsPrefixOf(k, q.lock) /\ Len(k) = i * PageSize
      BY <3>1, <3>2, <2>4, <1>2, LockedPath
    <3>4. k \in Key /\ q.lock \in Key /\ q.dev \in Key /\ IsPrefixOf(q.lock, q.dev)
      BY <3>3, <1>2, WellFormedKeys, <2>1 DEF Sound, RowShape
    <3>5. content[q.row[i]] = k
      BY <3>3, <2>4, <2>1, <1>2 DEF Keyed, Resident
    <3> HIDE DEF k
    <3>6. IsPrefixOf(k, q.dev)
      BY <3>3, <3>4, PrefixTrans
    <3>7. k = Prefix(q.dev, i * PageSize)
      BY <3>3, <3>4, <3>6, PrefixIsCut
    <3>8. i * PageSize <= q.committed
      <4>1. Len(k) \in Nat /\ Len(k) <= Len(q.lock) /\ Len(q.lock) \in Nat
        BY <3>3, <3>4, PrefixLen
      <4> QED BY <4>1, <3>3, <2>1 DEF RowShape
    <3> QED BY <3>5, <3>7, <3>8 DEF Shown
  <2> QED BY <2>2, <2>3, <2>4
<1>4. \A r \in Holders : \A i \in 1 .. CeilPages(req[r].committed) :
        content[req[r].row[i]] = Shown(req[r], i)
  BY <1>3, <1>1
<1>5. \A k \in Cached(tree) : content[tree.value[k]] = k
  BY <1>2 DEF Keyed
<1> QED BY <1>4, <1>5 DEF ContentRight, Shown

\* The pools imply LockRefExact and AccountingExact.
LEMMA PoolsBooks ==
  ASSUME Pools(tree, free, content, req)
  PROVE  LockRefExact /\ AccountingExact
<1>1. Counted(tree, LockedIn(req), LockOf(req)) /\ Accounts(tree)
  BY DEF Pools, Sound
<1>2. Locked = LockedIn(req) /\ \A r \in Locked : LockOf(req)[r] = req[r].lock
  BY DEF Locked, LockedIn, LockOf
<1>3. \A n : {r \in Locked : IsPrefixOf(n, req[r].lock)}
               = {r \in LockedIn(req) : IsPrefixOf(n, LockOf(req)[r])}
  BY <1>2
<1>4. LockRefExact
  BY <1>1, <1>3 DEF LockRefExact, Counted
<1> QED BY <1>1, <1>4 DEF AccountingExact, Accounts, UnlockedNodes, LockedNodes

-----------------------------------------------------------------------------
(* The invariant *)

\* The lengths a request's record keeps, in order.
RecordOK(q) ==
  /\ q.phase \in {"waiting", "admitted", "running"} =>
       q.prompt # << >> /\ q.max_new \in Nat /\ Len(q.out) <= q.max_new
  /\ q.phase \in {"admitted", "running"} =>
       /\ q.protected \in Nat /\ q.prefix \in Nat /\ q.extend_end \in Nat
       /\ Whole(q.protected) /\ q.protected <= q.prefix /\ q.prefix <= q.extend_end
       /\ q.extend_end <= Len(q.prompt \o q.out)
       /\ q.lock = Prefix(q.prompt \o q.out, q.protected)
  /\ q.phase = "admitted" => q.prefix = q.protected

\* r is in the extend batch that is put together and not launched yet.
Extending(r) == pc \in {"admit", "extend"} /\ r \in todo

\* How far the KV of r has come in each part of the iteration.
StageOK(r) ==
  LET q == req[r] IN
  /\ Extending(r) /\ r # chunked => q.extend_end = Len(q.prompt \o q.out)
  /\ Extending(r) /\ q.phase = "running" => q.committed = q.prefix
  /\ ~Extending(r) /\ q.phase = "running" /\ pc # "crashed" =>
       /\ q.extend_end <= q.committed
       /\ r = chunked => q.committed = q.extend_end
       /\ r = chunked /\ pc = "admit" => q.prefix = q.extend_end
       /\ r # chunked => Len(q.dev) = q.committed + 1

Sizes == \A r \in Req : RecordOK(req[r]) /\ StageOK(r)

\* A chunk that was cut leaves no budget for another request in its pass.
Budget ==
  /\ rem_chunk \in Int /\ offset \in Int
  /\ pc = "admit" /\ chunked \notin todo \cup {NoReq} => todo = {} /\ rem_chunk = ChunkSize
  /\ pc = "admit" /\ chunked \in todo => rem_chunk < PageSize \/ RemTotal(tree, offset) <= 0

\* The result in flight is the last r needs.
LastResult(r) ==
  /\ Overlap /\ pc # "recv" /\ r \in ReqsOf(last_batch) /\ (pc = "process" => r \in todo)
  /\ last_batch.chunked # r
  /\ NextOutputFinishesByLength(r)

\* The loop still has r in hand.
Kept(r) ==
  \/ r \in running
  \/ r = chunked
  \/ Extending(r)
  \/ r \in ReqsOf(batch) /\ batch.kind = "extend"
  \/ pc = "recv" /\ r \in ReqsOf(last_batch) /\ last_batch.kind = "extend"
  \/ LastResult(r)

NoneLost ==
  /\ pc # "crashed" => \A r \in Req : HoldsKV(r) => Kept(r)
  /\ last_batch.chunked \notin running
  /\ pc = "recv" => last_batch.chunked \in {chunked, NoReq}

PoolsOK == Pools(tree, free, content, req)

Memory == Sizes /\ Budget /\ NoneLost /\ PoolsOK

\* A step leaves the locked paths of the requests that keep their lock alone.
PathsStay ==
  \A r \in Locked :
    r \in Locked' /\ req'[r].lock = req[r].lock =>
      \A k \in Cached(tree) : IsPrefixOf(k, req[r].lock) =>
        k \in Cached(tree') /\ tree'.value[k] = tree.value[k]

\* A step under which the locked paths are stable.
LEMMA StablePaths ==
  ASSUME NEW S, Stable(tree, tree', S, LockOf(req)), Locked \cap Locked' \subseteq S
  PROVE  PathsStay
<1>1. \A r \in Locked : LockOf(req)[r] = req[r].lock
  BY DEF Locked, LockOf
<1> QED BY <1>1 DEF PathsStay, Stable

\* A step that leaves the tree alone.
LEMMA SameTreePaths ==
  ASSUME tree' = tree
  PROVE  PathsStay
BY DEF PathsStay

\* Two records of a request with the same KV and the same lengths.
SameMemory(p, q) ==
  /\ SameRow(p, q)
  /\ p.phase = q.phase /\ p.prompt = q.prompt /\ p.out = q.out /\ p.max_new = q.max_new
  /\ p.prefix = q.prefix /\ p.extend_end = q.extend_end

\* RecordOK depends on these fields only.
LEMMA SameMemoryRecord ==
  ASSUME NEW p, NEW q, SameMemory(p, q), RecordOK(q)
  PROVE  RecordOK(p)
BY DEF SameMemory, SameRow, RecordOK

\* The pools do not see what changes outside what requests hold.
LEMMA SameMemoryPools ==
  ASSUME PoolsOK, UNCHANGED treeVars,
         \A r \in Req : \/ SameMemory(req'[r], req[r])
                        \/ /\ req[r].phase \notin {"admitted", "running"}
                           /\ req'[r].phase \notin {"admitted", "running"}
  PROVE  PoolsOK'
<1> DEFINE rq == req
           rq2 == req'
<1>1. \A r \in Req : (r \in LockedIn(rq2) <=> r \in LockedIn(rq))
                     /\ (r \in HoldersIn(rq2) <=> r \in HoldersIn(rq))
  BY DEF SameMemory, LockedIn, HoldersIn
<1>2. LockedIn(rq2) = LockedIn(rq) /\ HoldersIn(rq2) = HoldersIn(rq)
  BY <1>1 DEF LockedIn, HoldersIn
<1>3. \A r \in LockedIn(rq) : rq2[r].lock = rq[r].lock
  BY DEF SameMemory, SameRow, LockedIn
<1>4. \A r \in HoldersIn(rq) : SameRow(rq2[r], rq[r])
  BY DEF SameMemory, HoldersIn
<1>5. Pools(tree, free, content, rq)
  BY DEF PoolsOK
<1> HIDE DEF rq, rq2
<1>6. Pools(tree, free, content, rq2)
  BY <1>2, <1>3, <1>4, <1>5, PoolsKeep
<1> QED BY <1>6 DEF PoolsOK, treeVars, rq2

-----------------------------------------------------------------------------
(* Clients *)

\* A client's step changes no record of a request that holds a lock.
LEMMA RecvMemory ==
  ASSUME Control, Memory, pc = "recv",
         UNCHANGED <<tree, free, content, pc, todo, running, chunked, rem_chunk, offset,
                     batch, last_batch>>,
         \A r \in Req : \/ SameMemory(req'[r], req[r])
                        \/ /\ req[r].phase \notin {"admitted", "running"}
                           /\ req'[r].phase \notin {"admitted", "running"}
                           /\ RecordOK(req'[r])
  PROVE  Memory' /\ PathsStay
<1>1. PoolsOK'
  BY SameMemoryPools DEF Memory, treeVars
<1>2. \A r \in Req : RecordOK(req'[r])
  BY SameMemoryRecord DEF Memory, Sizes
<1>3. \A r \in Req : StageOK(r)'
  <2> SUFFICES ASSUME NEW r \in Req PROVE StageOK(r)'
    OBVIOUS
  <2>1. StageOK(r) /\ ~Extending(r) /\ ~Extending(r)'
    BY DEF Memory, Sizes, Extending
  <2> QED BY <2>1 DEF StageOK, SameMemory, SameRow
<1>4. Budget'
  BY DEF Memory, Budget
<1>5. NoneLost'
  <2> SUFFICES ASSUME NEW r \in Req, HoldsKV(r)' PROVE Kept(r)'
    BY DEF Memory, NoneLost
  <2>1. HoldsKV(r) /\ Kept(r) /\ SameMemory(req'[r], req[r])
    BY DEF HoldsKV, SameMemory, Memory, NoneLost
  <2> QED BY <2>1 DEF Kept, Extending, LastResult
<1> QED BY <1>1, <1>2, <1>3, <1>4, <1>5, SameTreePaths DEF Memory, Sizes

\* The smaller of two integers.
LEMMA MinTwo ==
  ASSUME NEW a \in Int, NEW b \in Int
  PROVE  Min({a, b}) = IF a <= b THEN a ELSE b
BY DEF Min

\* The smallest of three integers is an integer.
LEMMA MinThree ==
  ASSUME NEW a \in Int, NEW b \in Int, NEW c \in Int
  PROVE  Min({a, b, c}) \in Int
<1>1. \E x \in {a, b, c} : \A y \in {a, b, c} : x <= y
  OBVIOUS
<1> QED BY <1>1 DEF Min

\* A clipped integer is a natural number.
LEMMA MaxZero ==
  ASSUME NEW a \in Int
  PROVE  Max({0, a}) \in Nat
<1>1. \E x \in {0, a} : \A y \in {0, a} : x >= y
  OBVIOUS
<1>2. Max({0, a}) \in {0, a} /\ Max({0, a}) >= 0
  BY <1>1 DEF Max
<1> QED BY <1>2

\* A new request's record.
LEMMA NewReqRecord ==
  ASSUME NEW p \in Prompts
  PROVE  RecordOK(NewReq(p)) /\ NewReq(p).phase = "waiting"
<1>1. p \in Key /\ p # << >> /\ Len(p) \in Nat
  BY PromptsAssumption, PrefixLen
<1>2. Cardinality(Page) \in Nat
  BY PageAssumption, FS_CardinalityType
<1>3. Capacity \in Int
  BY <1>2, PageSizeAssumption DEF Capacity
<1>4. PagedTokens(Len(p)) \in Int
  <2>1. CeilPages(Len(p)) \in Nat
    BY <1>1, CeilFacts
  <2> QED BY <2>1, PageSizeAssumption DEF PagedTokens
<1>5. MaxNew(p) \in Nat
  <2>1. (Capacity - 1) - Len(p) - 1 \in Int /\ Capacity - PagedTokens(Len(p)) - PageSize - 1 \in Int
        /\ MaxNewTokens \in Int
    BY <1>1, <1>3, <1>4, PageSizeAssumption, BoundsAssumption
  <2> QED BY <2>1, MinThree, MaxZero DEF MaxNew
<1> HIDE DEF MaxNew
<1> QED BY <1>1, <1>5 DEF NewReq, RecordOK

\* handle_generate_request keeps the invariant.
LEMMA ArriveMemory ==
  ASSUME Control, Memory, NEW r \in Req, Arrive(r)
  PROVE  Memory' /\ PathsStay
<1>1. PICK p \in Prompts : req' = [req EXCEPT ![r] = NewReq(p)]
  BY DEF Arrive
<1>2. DOMAIN req = Req
  BY DEF Control, LoopInv, TypeOK
<1>3. RecordOK(NewReq(p)) /\ NewReq(p).phase = "waiting"
  BY NewReqRecord
<1>4. req[r].phase \notin {"admitted", "running"}
  BY DEF Arrive, Finished
<1>5. \A x \in Req : \/ SameMemory(req'[x], req[x])
                     \/ /\ req[x].phase \notin {"admitted", "running"}
                        /\ req'[x].phase \notin {"admitted", "running"}
                        /\ RecordOK(req'[x])
  BY <1>1, <1>2, <1>3, <1>4 DEF SameMemory, SameRow
<1> QED BY <1>5, RecvMemory DEF Arrive, treeVars, loopVars, passVars, batchVars

\* A finished record has no lengths to keep.
LEMMA FinishedRecord ==
  ASSUME NEW q
  PROVE  RecordOK(Finish(q)) /\ Finish(q).phase = "finished"
BY DEF Finish, IdleReq, NewReq, RecordOK

\* abort_request of a waiting request keeps the invariant.
LEMMA AbortWaitingMemory ==
  ASSUME Control, Memory, NEW r \in Req, AbortWaiting(r)
  PROVE  Memory' /\ PathsStay
<1>1. req' = [req EXCEPT ![r] = Finish(req[r])]
  BY DEF AbortWaiting
<1>2. DOMAIN req = Req
  BY DEF Control, LoopInv, TypeOK
<1>3. RecordOK(Finish(req[r])) /\ Finish(req[r]).phase = "finished"
  BY FinishedRecord
<1>4. req[r].phase \notin {"admitted", "running"}
  BY DEF AbortWaiting, Waiting
<1>5. \A x \in Req : \/ SameMemory(req'[x], req[x])
                     \/ /\ req[x].phase \notin {"admitted", "running"}
                        /\ req'[x].phase \notin {"admitted", "running"}
                        /\ RecordOK(req'[x])
  BY <1>1, <1>2, <1>3, <1>4 DEF SameMemory, SameRow
<1> QED BY <1>5, RecvMemory DEF AbortWaiting, treeVars, loopVars, passVars, batchVars

\* abort_request of a request with KV keeps the invariant.
LEMMA AbortInflightMemory ==
  ASSUME Control, Memory, NEW r \in Req, AbortInflight(r)
  PROVE  Memory' /\ PathsStay
<1>1. req' = [req EXCEPT ![r].to_finish = TRUE]
  BY DEF AbortInflight
<1>2. DOMAIN req = Req /\ \A x \in Req : DOMAIN req[x] = ReqFields
  BY DEF Control, LoopInv, TypeOK, RequestsOK, ControlOK
<1>3. SameMemory([req[r] EXCEPT !.to_finish = TRUE], req[r])
  <2> DEFINE q == req[r]
  <2>1. DOMAIN q = ReqFields
    BY <1>2
  <2> HIDE DEF q
  <2>2. SameMemory([q EXCEPT !.to_finish = TRUE], q)
    BY <2>1 DEF ReqFields, SameMemory, SameRow
  <2> QED BY <2>2 DEF q
<1>4. \A x \in Req : SameMemory(req'[x], req[x])
  BY <1>1, <1>2, <1>3 DEF SameMemory, SameRow
<1> QED BY <1>4, RecvMemory DEF AbortInflight, treeVars, passVars, batchVars

\* Empty pools, with nobody holding anything.
LEMMA EmptyPools ==
  ASSUME NEW rq, LockedIn(rq) = {}
  PROVE  Pools(EmptyTree, [p \in Page |-> 1], [p \in Page |-> << >>], rq)
<1>1. HoldersIn(rq) = {}
  BY LockedFinite
<1>2. Cached(EmptyTree) = {} /\ Nodes(EmptyTree) = {}
  BY DEF Cached, Nodes, EmptyTree
<1>3. PagesOf(EmptyTree) = {} /\ Used(EmptyTree, rq) = {}
  BY <1>1, <1>2 DEF PagesOf, Used
<1>4. \A S : NumTokens(EmptyTree, S) = 0
  <2>1. \A S : Segments(EmptyTree, S) = {}
    BY <1>2 DEF Segments
  <2>2. Cardinality({}) = 0
    BY FS_EmptySet
  <2> QED BY <2>1, <2>2, PageSizeAssumption DEF NumTokens
<1>5. Accounts(EmptyTree)
  BY <1>2, <1>4 DEF Accounts, EmptyTree
<1>6. Sound(EmptyTree, LockedIn(rq), LockOf(rq))
  BY <1>5, <1>2, EmptyTreeWellFormed DEF Sound, Anchored, Counted
<1> QED BY <1>1, <1>2, <1>3, <1>6 DEF Pools, RowsOK, Apart, FreeIs, Keyed

\* flush_cache, when nothing runs, empties pools nobody holds.
LEMMA FlushCacheMemory ==
  ASSUME Control, Memory, FlushCache
  PROVE  Memory' /\ PathsStay
<1>0. pc = "recv" /\ running = {} /\ chunked = NoReq /\ ReqsOf(last_batch) = {} /\ req' = req
      /\ pc' = "recv" /\ running' = {} /\ chunked' = NoReq /\ last_batch' = NoBatch
      /\ todo' = todo /\ batch' = batch /\ rem_chunk' = rem_chunk /\ offset' = offset
  BY DEF FlushCache, FullyIdle, loopVars, passVars
<1>1. todo = {} /\ ReqsOf(batch) = {}
      /\ \A r \in Req : req[r].phase # "admitted"
  BY <1>0, AtRecv
<1>2. \A r \in Req : ~HoldsKV(r)
  <2> SUFFICES ASSUME NEW r \in Req, HoldsKV(r) PROVE FALSE
    OBVIOUS
  <2>1. Kept(r)
    BY <1>0 DEF Memory, NoneLost
  <2>2. r # NoReq
    BY ReqAssumption
  <2> QED BY <2>1, <2>2, <1>0, <1>1 DEF Kept, Extending, LastResult
<1>3. LockedIn(req) = {}
  BY <1>1, <1>2 DEF LockedIn, HoldsKV
<1>4. PoolsOK'
  <2>1. tree' = EmptyTree /\ free' = [p \in Page |-> 1] /\ content' = [p \in Page |-> << >>]
    BY DEF FlushCache
  <2> QED BY <2>1, <1>0, <1>3, EmptyPools DEF PoolsOK
<1>5. Locked = {}
  BY <1>3 DEF Locked, LockedIn
<1>6. PathsStay
  BY <1>5 DEF PathsStay
<1>7. Sizes'
  BY <1>0, <1>1, <1>2 DEF Memory, Sizes, StageOK, Extending, HoldsKV
<1>8. Budget'
  BY <1>0 DEF Memory, Budget
<1>9. NoneLost'
  BY <1>0, <1>2, ReqAssumption DEF NoneLost, HoldsKV, NoBatch
<1> QED BY <1>4, <1>6, <1>7, <1>8, <1>9 DEF Memory

-----------------------------------------------------------------------------
(* Checkpoint and release of a request *)

\* The concatenation of two keys.
LEMMA ConcatKeys ==
  ASSUME NEW a \in Key, NEW b \in Key
  PROVE  /\ a \o b \in Key /\ Len(a \o b) = Len(a) + Len(b)
         /\ IsPrefixOf(a, a \o b)
         /\ Len(a) \in Nat /\ Len(b) \in Nat
<1>1. a \o b \in Key /\ Len(a \o b) = Len(a) + Len(b) /\ Len(a) \in Nat /\ Len(b) \in Nat
  BY DEF Key
<1>2. \A i \in 1 .. Len(a) : (a \o b)[i] = a[i]
  BY DEF Key
<1> QED BY <1>1, <1>2 DEF IsPrefixOf

\* What up_to tokens of the text publish.
LEMMA CheckpointKeyFacts ==
  ASSUME NEW q, q.prompt \in Key, q.out \in Key, q.dev \in Key,
         IsPrefixOf(q.prompt \o q.out, q.dev), NEW n \in Nat,
         q.protected \in Nat, Whole(q.protected), q.protected <= n,
         q.protected <= Len(q.prompt \o q.out)
  PROVE  LET key == PageAligned(Truncated(q.prompt \o q.out, n))
         IN /\ key \in Key /\ Whole(Len(key)) /\ Len(key) \in Nat
            /\ q.protected <= Len(key) /\ Len(key) <= n /\ Len(key) <= Len(q.prompt \o q.out)
            /\ IsPrefixOf(key, q.prompt \o q.out)
            /\ IsPrefixOf(key, q.dev)
            /\ key = Prefix(q.prompt \o q.out, Len(key))
            /\ Len(PageAligned(q.prompt)) < Len(key) => IsPrefixOf(PageAligned(q.prompt), key)
<1> DEFINE F == q.prompt \o q.out
           k == Truncated(F, n)
           key == PageAligned(k)
<1>1. F \in Key /\ Len(F) \in Nat /\ IsPrefixOf(q.prompt, F)
  BY ConcatKeys
<1> HIDE DEF F
<1>2. k \in Key /\ IsPrefixOf(k, F) /\ Len(k) \in Nat /\ Len(k) <= n /\ Len(k) <= Len(F)
      /\ q.protected <= Len(k)
  <2>1. CASE n <= Len(F)
    <3>1. n \in 0 .. Len(F)
      BY <2>1, <1>1
    <3> QED BY <3>1, <2>1, <1>1, PrefixFacts DEF Truncated
  <2>2. CASE ~(n <= Len(F))
    <3>1. k = F
      BY <2>2 DEF Truncated
    <3>2. q.protected <= Len(F)
      BY DEF F
    <3> QED BY <3>1, <3>2, <2>2, <1>1, PrefixRefl
  <2> QED BY <2>1, <2>2
<1> HIDE DEF k
<1>3. AlignDown(Len(k)) \in Nat /\ AlignDown(Len(k)) <= Len(k) /\ Whole(AlignDown(Len(k)))
      /\ q.protected <= AlignDown(Len(k))
  BY <1>2, AlignFacts
<1>4. AlignDown(Len(k)) \in 0 .. Len(k)
  BY <1>2, <1>3
<1>5. key \in Key /\ Len(key) = AlignDown(Len(k)) /\ IsPrefixOf(key, k)
  BY <1>2, <1>4, PrefixFacts DEF PageAligned
<1> HIDE DEF key
<1>6. IsPrefixOf(key, F)
  BY <1>1, <1>2, <1>5, PrefixTrans
<1>7. IsPrefixOf(key, q.dev)
  BY <1>1, <1>5, <1>6, PrefixTrans DEF F
<1>8. key = Prefix(F, Len(key))
  BY <1>1, <1>5, <1>6, PrefixIsCut
<1>9. Len(key) \in Nat /\ Len(key) <= n /\ Len(key) <= Len(F) /\ q.protected <= Len(key) /\ Whole(Len(key))
  BY <1>2, <1>3, <1>5
<1>10. PageAligned(q.prompt) \in Key /\ IsPrefixOf(PageAligned(q.prompt), q.prompt)
  <2>1. Len(q.prompt) \in Nat
    BY PrefixLen
  <2>2. AlignDown(Len(q.prompt)) \in 0 .. Len(q.prompt)
    BY <2>1, AlignFacts
  <2> QED BY <2>2, PrefixFacts DEF PageAligned
<1>11. IsPrefixOf(PageAligned(q.prompt), F)
  BY <1>1, <1>10, PrefixTrans
<1>12. Len(PageAligned(q.prompt)) < Len(key) => IsPrefixOf(PageAligned(q.prompt), key)
  <2>1. Len(PageAligned(q.prompt)) \in Nat
    BY <1>10, PrefixLen
  <2> QED BY <2>1, <1>1, <1>5, <1>6, <1>9, <1>10, <1>11, PrefixChain
<1> QED BY <1>5, <1>6, <1>7, <1>8, <1>9, <1>12 DEF F, k, key

\* q is the record of r, or that with the token of a result, and n of its
\* tokens may be published.
MayCheckpoint(rq, r, q, n) ==
  /\ DOMAIN rq = Req /\ r \in HoldersIn(rq)
  /\ ControlOK(q) /\ q.phase = "running" /\ SameRow(q, rq[r])
  /\ IsPrefixOf(q.prompt \o q.out, q.dev) /\ q.protected <= Len(q.prompt \o q.out)
  /\ n \in Nat /\ q.protected <= n /\ n <= q.committed

CheckpointMade(t, f, c, rq, r, q, n, rq2) ==
  /\ Pools(t, f, c, rq) /\ MayCheckpoint(rq, r, q, n)
  /\ OnlyAt(rq, rq2, r) /\ SameRow(rq2[r], Checkpoint(t, q, n).req) /\ rq2[r].phase = "running"

\* The pools after checkpoint a, and what it makes of the record.
CheckpointPools(t, f, c, a, rq2) ==
  /\ Pools(a.tree, Release(f, a.dup), Scrub(c, a.dup), rq2)
  /\ \A k \in Cached(t) : k \in Cached(a.tree) /\ a.tree.value[k] = t.value[k]

CheckpointRecord(q, n, a) ==
  /\ a.own = {} /\ DOMAIN a.req = ReqFields
  /\ a.req.phase = "running" /\ a.req.prompt = q.prompt /\ a.req.out = q.out
  /\ a.req.max_new = q.max_new /\ a.req.prefix = q.prefix
  /\ a.req.extend_end = q.extend_end /\ a.req.committed = q.committed
  /\ a.req.dev = q.dev
  /\ a.req.protected \in Nat /\ Whole(a.req.protected) /\ a.req.protected <= n
  /\ a.req.protected <= Len(q.prompt \o q.out)
  /\ a.req.lock = Prefix(q.prompt \o q.out, a.req.protected)

\* cache_unfinished_req keeps the pools.
LEMMA CheckpointStep ==
  ASSUME NEW t, NEW f, NEW c, NEW rq, NEW r, NEW q, NEW n, NEW rq2,
         CheckpointMade(t, f, c, rq, r, q, n, rq2)
  PROVE  /\ CheckpointPools(t, f, c, Checkpoint(t, q, n), rq2)
         /\ CheckpointRecord(q, n, Checkpoint(t, q, n))
<1> DEFINE key == PageAligned(Truncated(q.prompt \o q.out, n))
           a == Checkpoint(t, q, n)
<1> SUFFICES ASSUME DOMAIN rq = Req, r \in HoldersIn(rq),
                    ControlOK(q), q.phase = "running", SameRow(q, rq[r]),
                    IsPrefixOf(q.prompt \o q.out, q.dev), q.protected <= Len(q.prompt \o q.out),
                    n \in Nat, q.protected <= n, n <= q.committed, Pools(t, f, c, rq),
                    OnlyAt(rq, rq2, r), SameRow(rq2[r], Checkpoint(t, q, n).req),
                    rq2[r].phase = "running"
             PROVE  CheckpointPools(t, f, c, a, rq2) /\ CheckpointRecord(q, n, a)
  BY DEF MayCheckpoint, CheckpointMade
<1>0. r \in Req
  BY DEF HoldersIn
<1>1. RowShape(q)
  BY SameRowFacts DEF Pools, RowsOK, RowOK
<1>2. q.prompt \in Key /\ q.out \in Key /\ q.dev \in Key /\ DOMAIN q = ReqFields
      /\ q.protected \in Nat /\ Whole(q.protected) /\ q.committed \in Nat
  BY <1>1 DEF ControlOK, RowShape
<1>3. /\ key \in Key /\ Whole(Len(key)) /\ Len(key) \in Nat
      /\ q.protected <= Len(key) /\ Len(key) <= n /\ Len(key) <= Len(q.prompt \o q.out)
      /\ IsPrefixOf(key, q.dev)
      /\ key = Prefix(q.prompt \o q.out, Len(key))
      /\ Len(PageAligned(q.prompt)) < Len(key) => IsPrefixOf(PageAligned(q.prompt), key)
  BY <1>2, CheckpointKeyFacts
<1>4. a = CheckpointKey(t, q, key)
  BY DEF Checkpoint
<1> HIDE DEF key
<1>5. a.own = {} /\ a.req.protected = Len(key) /\ a.req.lock = key
      /\ DOMAIN a.req = ReqFields
      /\ a.req.phase = q.phase /\ a.req.prompt = q.prompt /\ a.req.out = q.out
      /\ a.req.max_new = q.max_new /\ a.req.prefix = q.prefix
      /\ a.req.extend_end = q.extend_end /\ a.req.committed = q.committed
      /\ a.req.dev = q.dev
  <2> DEFINE t1 == Publish(t, q, key)
             row2 == [i \in DOMAIN q.row |->
                        IF i \in (q.protected \div PageSize) + 1 .. Len(key) \div PageSize
                        THEN t1.value[Prefix(key, i * PageSize)] ELSE q.row[i]]
  <2>1. a = Adopt(t1, q, key, Len(LongestMatch(t, key)))
    BY <1>4 DEF CheckpointKey
  <2> HIDE DEF a
  <2>2. a.req = [q EXCEPT !.row = row2, !.protected = Len(key), !.lock = key] /\ a.own = {}
    BY <2>1 DEF Adopt
  <2> HIDE DEF row2
  <2> QED BY <2>2, <1>2 DEF ReqFields
<1>7. \A p \in Page \ a.dup : Scrub(c, a.dup)[p] = c[p]
  BY DEF Scrub
<1>8. Len(key) <= q.committed
  BY <1>2, <1>3
<1> HIDE DEF a
<1>9. SameRow(rq2[r], CheckpointKey(t, q, key).req) /\ rq2[r].phase = "running"
      /\ \A p \in Page \ CheckpointKey(t, q, key).dup : Scrub(c, a.dup)[p] = c[p]
  BY <1>4, <1>7 DEF a
<1>10. /\ Pools(a.tree, Release(f, a.dup), Scrub(c, a.dup), rq2)
       /\ \A k \in Cached(t) : k \in Cached(a.tree) /\ a.tree.value[k] = t.value[k]
  <2> DEFINE b == CheckpointKey(t, q, key)
  <2>1. Whole(Len(key)) /\ q.protected <= Len(key) /\ IsPrefixOf(key, q.dev) /\ key \in Key
    BY <1>3
  <2>2. Len(PageAligned(q.prompt)) < Len(key) => IsPrefixOf(PageAligned(q.prompt), key)
    BY <1>3
  <2>3. q.prompt \in Key /\ DOMAIN q = ReqFields
    BY <1>2
  <2>4. OnlyAt(rq, rq2, r)
    OBVIOUS
  <2> DEFINE c2 == Scrub(c, a.dup)
  <2>6. \A p \in Page \ CheckpointKey(t, q, key).dup : c2[p] = c[p]
    BY <1>9
  <2>7. SameRow(rq2[r], CheckpointKey(t, q, key).req)
    BY <1>9
  <2>8. rq2[r].phase = "running"
    BY <1>9
  <2> HIDE DEF c2
  <2>5. /\ Pools(b.tree, Release(f, b.dup), c2, rq2)
        /\ \A k \in Cached(t) : k \in Cached(b.tree) /\ b.tree.value[k] = t.value[k]
    <3>1. CheckpointCase(t, f, c, rq, r, q, key, rq2, c2)
      BY <2>1, <2>2, <2>3, <2>4, <2>6, <2>7, <2>8, <1>8 DEF CheckpointCase
    <3> QED BY <3>1, PoolsCheckpoint
  <2> QED BY <2>5, <1>4 DEF c2
<1>11. a.req.phase = "running" /\ a.req.protected \in Nat /\ Whole(a.req.protected)
       /\ a.req.protected <= n /\ a.req.protected <= Len(q.prompt \o q.out)
       /\ a.req.lock = Prefix(q.prompt \o q.out, a.req.protected)
  BY <1>3, <1>5
<1> QED BY <1>5, <1>10, <1>11 DEF CheckpointPools, CheckpointRecord

\* Returning no pages first changes nothing.
LEMMA ReleaseTwice ==
  ASSUME NEW t, NEW f, NEW rq, FreeIs(t, f, rq), NEW own
  PROVE  Release(Release(f, {}), own) = Release(f, own)
BY DEF FreeIs, Release

\* The pools after release rel, and what it leaves in the record of q.
ReleasePools(t, f, c, rel, rq2) ==
  /\ Pools(rel.tree, Release(f, rel.own), Scrub(c, rel.own), rq2)
  /\ rel.tree.value = t.value /\ rel.dup = {}
  /\ rel.dup \cup rel.own = rel.own
  /\ Release(Release(f, rel.dup), rel.own) = Release(f, rel.own)

ReleaseRecord(q, rel) ==
  /\ DOMAIN rel.req = ReqFields /\ rel.req.prompt = q.prompt /\ rel.req.out = q.out
  /\ rel.req.max_new = q.max_new

ReleaseMade(t, f, c, rq, r, rq2) ==
  /\ Pools(t, f, c, rq) /\ DOMAIN rq = Req /\ r \in HoldersIn(rq) /\ DOMAIN rq[r] = ReqFields
  /\ OnlyAt(rq, rq2, r) /\ rq2[r].phase \notin {"admitted", "running"}

\* release_kv_cache without an insert keeps the pools.
LEMMA ReleaseStep ==
  ASSUME NEW t, NEW f, NEW c, NEW rq, NEW r, NEW rq2, ReleaseMade(t, f, c, rq, r, rq2)
  PROVE  /\ ReleasePools(t, f, c, ReleaseKV(t, rq[r], FALSE), rq2)
         /\ ReleaseRecord(rq[r], ReleaseKV(t, rq[r], FALSE))
<1> USE DEF ReleaseMade
<1> DEFINE rel == ReleaseKV(t, rq[r], FALSE)
           q == rq[r]
<1>0. r \in Req
  BY DEF HoldersIn
<1>1. rel.tree = DecLockRef(t, q.lock) /\ rel.dup = {} /\ rel.own = Own(q)
      /\ rel.req = [q EXCEPT !.row = << >>, !.lock = Root, !.protected = 0]
  BY DEF ReleaseKV, FreeRow, Own
<1> HIDE DEF rel
<1>3. \A p \in Page \ Own(rq[r]) : Scrub(c, Own(rq[r]))[p] = c[p]
  BY DEF Scrub
<1>4. Pools(DecLockRef(t, rq[r].lock), Release(f, Own(rq[r])), Scrub(c, Own(rq[r])), rq2)
      /\ DecLockRef(t, rq[r].lock).value = t.value
  BY <1>3, PoolsFree
<1>5. Release(Release(f, {}), rel.own) = Release(f, rel.own)
  BY ReleaseTwice DEF Pools
<1> HIDE DEF q
<1>6. DOMAIN rel.req = ReqFields /\ rel.req.prompt = q.prompt /\ rel.req.out = q.out
      /\ rel.req.max_new = q.max_new
  BY <1>1 DEF ReqFields, q
<1>7. ReleasePools(t, f, c, rel, rq2)
  BY <1>1, <1>4, <1>5 DEF ReleasePools, q
<1>8. ReleaseRecord(q, rel)
  BY <1>6 DEF ReleaseRecord
<1> QED BY <1>7, <1>8 DEF rel, q

\* The pools after a release that publishes first.
FinishPools(t, f, c, rel, rq2) ==
  /\ Pools(rel.tree, Release(Release(f, rel.dup), rel.own), Scrub(c, rel.dup \cup rel.own), rq2)
  /\ \A k \in Cached(t) : k \in Cached(rel.tree) /\ rel.tree.value[k] = t.value[k]

FinishMade(t, f, c, rq, r, q, rq2) ==
  /\ Pools(t, f, c, rq) /\ MayCheckpoint(rq, r, q, OwnedKvLen(q))
  /\ OnlyAt(rq, rq2, r) /\ rq2[r].phase \notin {"admitted", "running"}

\* release_kv_cache with the insert of the finished text keeps the pools.
LEMMA FinishStep ==
  ASSUME NEW t, NEW f, NEW c, NEW rq, NEW r, NEW q, NEW rq2, FinishMade(t, f, c, rq, r, q, rq2)
  PROVE  FinishPools(t, f, c, ReleaseKV(t, q, TRUE), rq2)
<1> USE DEF FinishMade
<1> DEFINE n == OwnedKvLen(q)
           a == Checkpoint(t, q, n)
           w == a.req
           rel == ReleaseKV(t, q, TRUE)
           rq1 == [rq EXCEPT ![r] = w]
           f1 == Release(f, a.dup)
           c1 == Scrub(c, a.dup)
<1>0. r \in Req /\ DOMAIN rq = Req
  BY DEF MayCheckpoint, HoldersIn
<1>1. rel.tree = DecLockRef(a.tree, w.lock) /\ rel.dup = a.dup /\ rel.own = Own(w)
  BY DEF ReleaseKV, FreeRow, Own
<1>2. w.phase = "running"
  <2>1. DOMAIN q = ReqFields /\ q.phase = "running"
    BY DEF MayCheckpoint, ControlOK
  <2> QED BY <2>1, CheckpointControl DEF SameControl
<1>3. SameRow(w, Checkpoint(t, q, n).req)
  BY DEF SameRow
<1> HIDE DEF n, rel, w
<1>4. MayCheckpoint(rq, r, q, n)
  BY DEF n
<1>6. rq1[r] = w /\ OnlyAt(rq, rq1, r) /\ OnlyAt(rq1, rq2, r)
  BY <1>0 DEF OnlyAt
<1> HIDE DEF rq1
<1>13. SameRow(rq1[r], Checkpoint(t, q, n).req) /\ rq1[r].phase = "running"
  BY <1>2, <1>3, <1>6
<1>5. /\ Pools(a.tree, Release(f, a.dup), Scrub(c, a.dup), rq1)
      /\ \A k \in Cached(t) : k \in Cached(a.tree) /\ a.tree.value[k] = t.value[k]
  <2>1. CheckpointMade(t, f, c, rq, r, q, n, rq1)
    BY <1>4, <1>6, <1>13 DEF CheckpointMade
  <2>2. CheckpointPools(t, f, c, Checkpoint(t, q, n), rq1)
    BY <2>1, CheckpointStep
  <2> QED BY <2>2 DEF CheckpointPools
<1> HIDE DEF a
<1>7. r \in HoldersIn(rq1)
  BY <1>6, <1>2, <1>0 DEF HoldersIn
<1>8. Pools(a.tree, f1, c1, rq1)
  BY <1>5
<1>9. \A p \in Page \ Own(rq1[r]) : Scrub(c1, Own(w))[p] = c1[p]
  BY <1>6 DEF Scrub
<1> HIDE DEF f1, c1
<1>10. Pools(DecLockRef(a.tree, rq1[r].lock), Release(f1, Own(rq1[r])), Scrub(c1, Own(w)), rq2)
       /\ DecLockRef(a.tree, rq1[r].lock).value = a.tree.value
  BY <1>6, <1>7, <1>8, <1>9, PoolsFree
<1>11. Scrub(c1, Own(w)) = Scrub(c, a.dup \cup Own(w))
  BY DEF Scrub, c1
<1>12. Pools(rel.tree, Release(Release(f, rel.dup), rel.own), Scrub(c, rel.dup \cup rel.own), rq2)
       /\ rel.tree.value = a.tree.value
  BY <1>1, <1>6, <1>10, <1>11 DEF f1
<1>14. FinishPools(t, f, c, rel, rq2)
  BY <1>5, <1>12 DEF Cached, FinishPools
<1> QED BY <1>14 DEF rel

\* The output of a request is a prefix of what the device has generated.
LEMMA FillIsPrefix ==
  ASSUME Control, NEW r \in Req, HoldsKV(r)
  PROVE  /\ IsPrefixOf(Fill(r), req[r].dev) /\ Fill(r) = req[r].prompt \o req[r].out
         /\ Fill(r) \in Key /\ req[r].dev \in Key
         /\ OldToken(r) \in Key /\ NewToken(r) \in Key
         /\ req[r].dev = (Fill(r) \o OldToken(r)) \o NewToken(r)
<1>1. ControlOK(req[r]) /\ req[r].dev = (Fill(r) \o OldToken(r)) \o NewToken(r)
  BY DEF Control, RequestsOK, ResultsFollowed, Followed
<1>2. Fill(r) \in Key
  BY <1>1, ConcatKeys DEF Fill, ControlOK
<1>3. \A b \in Batch : r \in ReqsOf(b) => b.tok[r] \in Token
  BY PromptsAssumption DEF Batch, ReqsOf
<1>4. OldToken(r) \in Key /\ NewToken(r) \in Key
  <2>1. batch \in Batch /\ last_batch \in Batch
    BY DEF Control, LoopInv, TypeOK
  <2>2. DueOld(r) => last_batch.tok[r] \in Token
    BY <2>1, <1>3 DEF DueOld
  <2>3. DueNew(r) => batch.tok[r] \in Token
    BY <2>1, <1>3 DEF DueNew
  <2> QED BY <2>2, <2>3 DEF OldToken, NewToken, Key
<1> HIDE DEF Fill
<1>5. Fill(r) \o OldToken(r) \in Key /\ IsPrefixOf(Fill(r), Fill(r) \o OldToken(r))
  BY <1>2, <1>4, ConcatKeys
<1>6. IsPrefixOf(Fill(r) \o OldToken(r), req[r].dev)
  BY <1>1, <1>4, <1>5, ConcatKeys
<1>7. req[r].dev \in Key
  BY <1>1 DEF ControlOK
<1>8. IsPrefixOf(Fill(r), req[r].dev)
  BY <1>2, <1>5, <1>6, <1>7, PrefixTrans
<1> QED BY <1>1, <1>2, <1>4, <1>7, <1>8 DEF Fill

-----------------------------------------------------------------------------
(* A scheduling pass begins *)

\* The pass begins with an empty batch and the full chunk budget.
LEMMA BeginPassMemory ==
  ASSUME Control, Memory, pc = "recv", BeginPass(req', chunked'), PoolsOK',
         chunked' \in {chunked, NoReq},
         \A x \in Req : RecordOK(req'[x]),
         \A x \in Req : x # chunked => req'[x] = req[x],
         chunked # NoReq =>
           \/ chunked' = NoReq /\ req'[chunked].phase = "finished"
           \/ /\ req'[chunked].phase = "running"
              /\ req'[chunked].prefix = req'[chunked].extend_end
              /\ req'[chunked].extend_end = req[chunked].extend_end
              /\ req'[chunked].committed = req[chunked].committed
              /\ chunked' = chunked
  PROVE  Memory'
<1>1. /\ pc' = "admit" /\ UNCHANGED <<todo, batch, last_batch, queue>>
      /\ running' = Merged(req', chunked') /\ rem_chunk' = ChunkSize /\ offset' \in Int
  BY DEF BeginPass, batchVars
<1>2. /\ todo = {} /\ ReqsOf(batch) = {} /\ batch.kind = "none"
      /\ \A x \in Req : req[x].phase # "admitted"
      /\ chunked # NoReq => HoldsKV(chunked)
  BY AtRecv
<1>3. last_batch.chunked \in {chunked, NoReq} /\ last_batch.chunked \notin running
  BY DEF Memory, NoneLost
<1>4. \A x \in Req : StageOK(x)'
  <2> SUFFICES ASSUME NEW x \in Req PROVE StageOK(x)'
    OBVIOUS
  <2>1. ~Extending(x)' /\ ~Extending(x) /\ StageOK(x)
    BY <1>1, <1>2 DEF Extending, Memory, Sizes
  <2>2. CASE x = chunked
    <3>1. x # NoReq /\ HoldsKV(x)
      BY <2>2, <1>2, ReqAssumption
    <3>2. req[x].phase = "running" /\ req[x].committed = req[x].extend_end
          /\ req[x].extend_end <= req[x].committed
      BY <2>1, <2>2, <3>1 DEF StageOK, HoldsKV
    <3> QED BY <3>1, <3>2, <2>1, <2>2, <1>1 DEF StageOK
  <2>3. CASE x # chunked
    <3>1. req'[x] = req[x]
      BY <2>3
    <3>2. x # chunked'
      BY <2>3, ReqAssumption
    <3> QED BY <3>1, <3>2, <2>1, <2>3, <1>1 DEF StageOK
  <2> QED BY <2>2, <2>3
<1>5. Budget'
  BY <1>1, <1>2, BoundsAssumption DEF Budget
<1>6. \A x \in Req : HoldsKV(x)' => Kept(x)'
  <2> SUFFICES ASSUME NEW x \in Req, HoldsKV(x)', x # chunked' PROVE Kept(x)'
    BY DEF Kept
  <2>1. x # chunked
    BY ReqAssumption DEF HoldsKV
  <2>2. req'[x] = req[x] /\ HoldsKV(x)
    BY <2>1 DEF HoldsKV
  <2>3. Kept(x)
    BY <2>2 DEF Memory, NoneLost
  <2>4. x \in running \/ (x \in ReqsOf(last_batch) /\ last_batch.kind = "extend")
    BY <2>1, <2>3, <1>2 DEF Kept, Extending, LastResult
  <2>5. req'[x].phase # "finished" /\ x # last_batch.chunked
    BY <2>1, <1>3, ReqAssumption DEF HoldsKV
  <2>6. CASE x \in running'
    BY <2>6 DEF Kept
  <2>7. CASE x \notin running'
    <3>1. Overlap /\ NextOutputFinishesByLength(x) /\ x \in ReqsOf(last_batch)
      BY <2>4, <2>5, <2>7, <1>1 DEF Merged
    <3>2. NextOutputFinishesByLength(x)'
      BY <3>1, <2>2 DEF NextOutputFinishesByLength
    <3>3. LastResult(x)'
      BY <3>1, <3>2, <2>5, <1>1 DEF LastResult, ReqsOf
    <3> QED BY <3>3 DEF Kept
  <2> QED BY <2>6, <2>7
<1>7. last_batch.chunked \notin running'
  BY <1>1, <1>3 DEF Merged
<1>8. NoneLost'
  BY <1>1, <1>6, <1>7 DEF NoneLost
<1> QED BY <1>4, <1>5, <1>8 DEF Memory, Sizes

\* A pass without a chunked request keeps the invariant.
LEMMA ScheduleMemory ==
  ASSUME Control, Memory, Schedule
  PROVE  Memory' /\ PathsStay
<1>1. /\ pc = "recv" /\ chunked = NoReq /\ BeginPass(req, NoReq)
      /\ UNCHANGED <<tree, free, content, req, chunked>>
  BY DEF Schedule, treeVars
<1>2. BeginPass(req', chunked')
  BY <1>1
<1>3. PoolsOK'
  BY <1>1 DEF Memory, PoolsOK
<1>4. \A x \in Req : RecordOK(req'[x])
  BY <1>1 DEF Memory, Sizes
<1>5. Memory'
  BY <1>1, <1>2, <1>3, <1>4, BeginPassMemory
<1> QED BY <1>1, <1>5, SameTreePaths

\* Returning no pages afterwards changes nothing.
LEMMA ReleaseNone ==
  ASSUME NEW f, NEW S
  PROVE  Release(Release(f, S), {}) = Release(f, S)
BY DEF Release

\* A request that holds KV can be checkpointed up to what it has committed.
LEMMA HolderMayCheckpoint ==
  ASSUME Control, Memory, NEW r \in Req, HoldsKV(r),
         NEW n \in Nat, req[r].protected <= n, n <= req[r].committed
  PROVE  MayCheckpoint(req, r, req[r], n)
<1>1. DOMAIN req = Req /\ r \in HoldersIn(req) /\ ControlOK(req[r]) /\ req[r].phase = "running"
  BY DEF Control, LoopInv, TypeOK, RequestsOK, HoldersIn, HoldsKV
<1>2. IsPrefixOf(req[r].prompt \o req[r].out, req[r].dev)
  BY FillIsPrefix
<1>3. req[r].protected <= Len(req[r].prompt \o req[r].out)
  <2>1. RecordOK(req[r])
    BY DEF Memory, Sizes
  <2>2. Len(req[r].prompt \o req[r].out) \in Nat
    BY <1>1, ConcatKeys DEF ControlOK
  <2> DEFINE L == Len(req[r].prompt \o req[r].out)
  <2>3. req[r].protected \in Nat /\ req[r].prefix \in Nat /\ req[r].extend_end \in Nat
        /\ req[r].protected <= req[r].prefix /\ req[r].prefix <= req[r].extend_end
        /\ req[r].extend_end <= L
    BY <2>1, <1>1 DEF RecordOK
  <2> HIDE DEF L
  <2>4. L \in Nat
    BY <2>2 DEF L
  <2>5. req[r].protected <= L
    BY <2>3, <2>4
  <2> QED BY <2>5 DEF L
<1> QED BY <1>1, <1>2, <1>3 DEF MayCheckpoint, SameRow

\* The record of a checkpoint of the extended tokens.
LEMMA ResumedRecord ==
  ASSUME NEW q, NEW n \in Nat, NEW a, CheckpointRecord(q, n, a), RecordOK(q), q.phase = "running",
         n = q.extend_end, ControlOK(q)
  PROVE  /\ RecordOK(Resume(a.req)) /\ SameRow(Resume(a.req), a.req)
         /\ Resume(a.req).phase = "running" /\ Resume(a.req).prefix = q.extend_end
         /\ Resume(a.req).extend_end = q.extend_end /\ Resume(a.req).committed = q.committed
         /\ Resume(a.req).dev = q.dev /\ Resume(a.req).out = q.out
         /\ Resume(a.req).max_new = q.max_new /\ Resume(a.req).prompt = q.prompt
<1> DEFINE w == a.req
           v == Resume(w)
<1>1. /\ DOMAIN w = ReqFields /\ w.phase = "running" /\ w.prompt = q.prompt /\ w.out = q.out
      /\ w.max_new = q.max_new /\ w.extend_end = q.extend_end /\ w.committed = q.committed
      /\ w.dev = q.dev
      /\ w.protected \in Nat /\ Whole(w.protected) /\ w.protected <= n
      /\ w.lock = Prefix(w.prompt \o w.out, w.protected)
  BY DEF CheckpointRecord
<1> HIDE DEF w
<1>2. v.prefix = w.extend_end /\ SameRow(v, w)
      /\ v.phase = w.phase /\ v.prompt = w.prompt /\ v.out = w.out /\ v.max_new = w.max_new
      /\ v.extend_end = w.extend_end /\ v.protected = w.protected /\ v.lock = w.lock
      /\ v.committed = w.committed /\ v.dev = w.dev
  BY <1>1 DEF Resume, SameRow, ReqFields
<1> HIDE DEF v
<1>3. /\ q.prompt # << >> /\ q.max_new \in Nat /\ Len(q.out) <= q.max_new
      /\ q.extend_end \in Nat /\ q.extend_end <= Len(q.prompt \o q.out)
  BY DEF RecordOK
<1>4. v.prompt \o v.out = q.prompt \o q.out /\ w.prompt \o w.out = q.prompt \o q.out
  BY <1>1, <1>2
<1>5. v.extend_end <= Len(v.prompt \o v.out) /\ v.lock = Prefix(v.prompt \o v.out, v.protected)
  BY <1>1, <1>2, <1>3, <1>4
<1>6. v.prefix = n /\ v.extend_end = n /\ v.protected <= n /\ v.protected \in Nat
      /\ Whole(v.protected) /\ v.phase = "running"
  BY <1>1, <1>2
<1>7. v.prompt # << >> /\ v.max_new \in Nat /\ Len(v.out) <= v.max_new
  BY <1>1, <1>2, <1>3
<1>8. v.prefix <= v.extend_end /\ v.protected <= v.prefix
  BY <1>6
<1>9. RecordOK(v)
  BY <1>5, <1>6, <1>7, <1>8 DEF RecordOK
<1> QED BY <1>1, <1>2, <1>9 DEF v, w

\* Stashing the chunked request publishes the pages of its chunks.
LEMMA StashChunkMemory ==
  ASSUME Control, Memory, StashChunk
  PROVE  Memory' /\ PathsStay
<1> DEFINE q == req[chunked]
           n == q.extend_end
           a == Checkpoint(tree, q, n)
<1>1. /\ pc = "recv" /\ chunked # NoReq /\ BeginPass(req', chunked) /\ chunked' = chunked
      /\ IF q.extend_end > q.prefix THEN Effect(chunked, a, Resume(a.req))
         ELSE UNCHANGED <<treeVars, req>>
  BY DEF StashChunk
<1>2. DOMAIN req = Req /\ chunked \in Req /\ HoldsKV(chunked) /\ q.phase = "running"
  BY <1>1, AtRecv DEF Control, LoopInv, TypeOK, HoldsKV
<1>3. RecordOK(q) /\ ControlOK(q) /\ q.committed = q.extend_end
  <2>1. ~Extending(chunked)
    BY <1>1 DEF Extending
  <2> QED BY <1>1, <1>2, <2>1 DEF Memory, Sizes, StageOK, Control, RequestsOK
<1>4. n \in Nat /\ q.protected <= n /\ n <= q.committed /\ q.prefix <= n
      /\ q.protected \in Nat /\ q.prefix \in Nat
  BY <1>2, <1>3 DEF RecordOK
<1>5. BeginPass(req', chunked')
  BY <1>1
<1>6. CASE n > q.prefix
  <2>1. Effect(chunked, a, Resume(a.req))
    BY <1>1, <1>6
  <2>2. req'[chunked] = Resume(a.req) /\ OnlyAt(req, req', chunked)
    BY <2>1, <1>2 DEF Effect, OnlyAt
  <2>3. DOMAIN q = ReqFields
    BY <1>3 DEF ControlOK
  <2>4. MayCheckpoint(req, chunked, q, n)
    BY <1>2, <1>4, HolderMayCheckpoint
  <2>5. SameControl(a.req, q) /\ SameControl(Resume(a.req), q)
    BY <2>3, CheckpointControl
  <2>6. SameRow(Resume(a.req), Checkpoint(tree, q, n).req)
    <3>1. DOMAIN a.req = ReqFields
      BY <2>5 DEF SameControl
    <3> HIDE DEF a
    <3>2. SameRow(Resume(a.req), a.req)
      BY <3>1 DEF Resume, SameRow, ReqFields
    <3> QED BY <3>2 DEF a
  <2>7. req'[chunked].phase = "running"
    BY <2>2, <2>5, <1>2 DEF SameControl
  <2>8. CheckpointMade(tree, free, content, req, chunked, q, n, req')
    BY <2>2, <2>4, <2>6, <2>7 DEF CheckpointMade, Memory, PoolsOK
  <2>9. CheckpointPools(tree, free, content, Checkpoint(tree, q, n), req')
        /\ CheckpointRecord(q, n, Checkpoint(tree, q, n))
    BY <2>8, CheckpointStep
  <2> HIDE DEF a
  <2>10. CheckpointPools(tree, free, content, a, req') /\ CheckpointRecord(q, n, a)
    BY <2>9 DEF a
  <2>11. a.own = {} /\ Release(Release(free, a.dup), a.own) = Release(free, a.dup)
    BY <2>10, ReleaseNone DEF CheckpointRecord
  <2>12. PoolsOK'
    <3>1. tree' = a.tree /\ free' = Release(free, a.dup) /\ content' = Scrub(content, a.dup)
      BY <2>1, <2>11 DEF Effect
    <3> QED BY <3>1, <2>10 DEF PoolsOK, CheckpointPools
  <2>13. PathsStay
    BY <2>1, <2>10 DEF PathsStay, CheckpointPools, Effect
  <2>14. /\ RecordOK(Resume(a.req)) /\ SameRow(Resume(a.req), a.req)
         /\ Resume(a.req).phase = "running" /\ Resume(a.req).prefix = q.extend_end
         /\ Resume(a.req).extend_end = q.extend_end /\ Resume(a.req).committed = q.committed
    BY <2>10, <1>2, <1>3, <1>4, ResumedRecord
  <2>15. \A x \in Req : x # chunked => req'[x] = req[x]
    BY <2>2 DEF OnlyAt
  <2>16. \A x \in Req : RecordOK(req'[x])
    BY <2>2, <2>14, <2>15 DEF Memory, Sizes
  <2>17. /\ req'[chunked].phase = "running"
         /\ req'[chunked].prefix = req'[chunked].extend_end
         /\ req'[chunked].extend_end = req[chunked].extend_end
         /\ req'[chunked].committed = req[chunked].committed
         /\ chunked' = chunked
    BY <2>2, <2>14, <1>1
  <2>18. Memory'
    BY <1>1, <1>5, <2>12, <2>15, <2>16, <2>17, BeginPassMemory
  <2> QED BY <2>13, <2>18
<1>7. CASE ~(n > q.prefix)
  <2>1. UNCHANGED <<tree, free, content, req>>
    BY <1>1, <1>7 DEF treeVars
  <2>2. n = q.prefix
    BY <1>7, <1>4
  <2>3. PoolsOK' /\ \A x \in Req : RecordOK(req'[x])
    BY <2>1 DEF Memory, Sizes, PoolsOK
  <2>4. Memory'
    BY <1>1, <1>2, <1>5, <2>1, <2>2, <2>3, BeginPassMemory
  <2> QED BY <2>1, <2>4, SameTreePaths
<1> QED BY <1>6, <1>7

\* Tearing down an aborted chunked request returns its pages.
LEMMA AbortChunkMemory ==
  ASSUME Control, Memory, AbortChunk
  PROVE  Memory' /\ PathsStay
<1> DEFINE q == req[chunked]
           rel == ReleaseKV(tree, q, FALSE)
<1>1. /\ pc = "recv" /\ chunked # NoReq /\ BeginPass(req', NoReq) /\ chunked' = NoReq
      /\ Effect(chunked, rel, Finish(q))
  BY DEF AbortChunk
<1>2. DOMAIN req = Req /\ chunked \in Req /\ HoldsKV(chunked) /\ chunked \in HoldersIn(req)
  BY <1>1, AtRecv DEF Control, LoopInv, TypeOK, HoldsKV, HoldersIn
<1>3. ControlOK(q) /\ DOMAIN q = ReqFields
  BY <1>2 DEF Control, RequestsOK, ControlOK
<1>4. req'[chunked] = Finish(q) /\ OnlyAt(req, req', chunked)
  BY <1>1, <1>2 DEF Effect, OnlyAt
<1>5. req'[chunked].phase = "finished" /\ RecordOK(req'[chunked])
  <2>1. Finish(q).phase = "finished"
    BY <1>3, FinishControl DEF ControlOK
  <2> QED BY <2>1, <1>4 DEF RecordOK
<1>6. ReleasePools(tree, free, content, ReleaseKV(tree, req[chunked], FALSE), req')
  <2>1. ReleaseMade(tree, free, content, req, chunked, req')
    BY <1>2, <1>3, <1>4, <1>5 DEF ReleaseMade, Memory, PoolsOK
  <2> QED BY <2>1, ReleaseStep
<1> HIDE DEF rel
<1>14. ReleasePools(tree, free, content, rel, req')
  BY <1>6 DEF rel
<1>7. tree' = rel.tree /\ free' = Release(free, rel.own) /\ content' = Scrub(content, rel.own)
  BY <1>1, <1>14 DEF Effect, ReleasePools
<1>8. PoolsOK'
  BY <1>14, <1>7 DEF PoolsOK, ReleasePools
<1>9. PathsStay
  BY <1>14, <1>7 DEF PathsStay, Cached, ReleasePools
<1>10. \A x \in Req : x # chunked => req'[x] = req[x]
  BY <1>4 DEF OnlyAt
<1>11. \A x \in Req : RecordOK(req'[x])
  BY <1>10, <1>5 DEF Memory, Sizes
<1>12. BeginPass(req', chunked')
  BY <1>1
<1>13. Memory'
  BY <1>1, <1>5, <1>8, <1>10, <1>11, <1>12, BeginPassMemory
<1> QED BY <1>9, <1>13

-----------------------------------------------------------------------------
(* The admission pass *)

\* rem_total_tokens is an integer: what is free and evictable less the
\* reservations.
LEMMA RemTotalFacts ==
  ASSUME Memory
  PROVE  /\ AvailableSize(free) \in Nat /\ tree.evictable_size \in Nat
         /\ \A o \in Int : RemTotal(tree, o) = AvailableSize(free) + tree.evictable_size - o
<1>1. WellFormed(tree) /\ Accounts(tree)
  BY DEF Memory, PoolsOK, Pools, Sound
<1>2. tree.evictable_size \in Nat
  BY <1>1, SegmentsFinite DEF Accounts
<1>3. IsFiniteSet(FreePages(free))
  BY PageAssumption, FS_Subset DEF FreePages
<1>4. Cardinality(FreePages(free)) \in Nat
  BY <1>3, FS_CardinalityType
<1>5. AvailableSize(free) \in Nat
  BY <1>4, PageSizeAssumption DEF AvailableSize
<1> QED BY <1>2, <1>5 DEF RemTotal

\* AlignDown of a budget that may be negative.
LEMMA AlignSigned ==
  ASSUME NEW n \in Int
  PROVE  /\ AlignDown(n) \in Int
         /\ AlignDown(n) <= n
         /\ n < PageSize => AlignDown(n) <= 0
         /\ AlignDown(n) > 0 => n \in Nat
<1>1. PageSize \in Nat /\ PageSize > 0 /\ n \div PageSize \in Int
  BY PageSizeAssumption
<1> DEFINE d == n \div PageSize
<1>2. d \in Int /\ d * PageSize \in Int /\ d * PageSize <= n /\ n < d * PageSize + PageSize
  BY <1>1
<1> HIDE DEF d
<1>3. ASSUME n < PageSize PROVE d * PageSize <= 0
  <2>1. CASE d <= 0
    BY <2>1, <1>1, <1>2
  <2>2. CASE d >= 1
    <3>1. d * PageSize >= PageSize
      BY <2>2, <1>1, <1>2
    <3> QED BY <3>1, <1>1, <1>2, <1>3
  <2> QED BY <2>1, <2>2, <1>2
<1>4. AlignDown(n) = d * PageSize
  BY DEF AlignDown, d
<1> QED BY <1>2, <1>3, <1>4

\* One request more in the batch that is put together.
LEMMA PassStepMemory ==
  ASSUME Control, Memory, pc = "admit", pc' = "admit", UNCHANGED <<running, last_batch>>,
         NEW r \in Req, todo' = todo \cup {r}, PoolsOK', Budget', RecordOK(req'[r]), StageOK(r)',
         \A x \in Req : x # r => req'[x] = req[x],
         chunked \in {NoReq, r}, chunked' \in {NoReq, r}
  PROVE  Memory'
<1>1. \A x \in Req : RecordOK(req'[x])
  BY DEF Memory, Sizes
<1>2. ASSUME NEW x \in Req, x # r PROVE StageOK(x)'
  <2>1. (Extending(x)' <=> Extending(x)) /\ req'[x] = req[x] /\ StageOK(x)
    BY <1>2 DEF Extending, Memory, Sizes
  <2>2. x # chunked /\ x # chunked'
    BY <1>2, ReqAssumption
  <2> QED BY <2>1, <2>2 DEF StageOK
<1>3. ASSUME NEW x \in Req, HoldsKV(x)' PROVE Kept(x)'
  <2>1. CASE x = r
    BY <2>1 DEF Kept, Extending
  <2>2. CASE x # r
    <3>1. HoldsKV(x) /\ req'[x] = req[x] /\ x # chunked
      BY <2>2, <1>3, ReqAssumption DEF HoldsKV
    <3>2. Kept(x) /\ ReqsOf(batch) = {}
      BY <3>1, AtAdmit DEF Memory, NoneLost
    <3> QED BY <3>1, <3>2 DEF Kept, Extending, LastResult, NextOutputFinishesByLength, ReqsOf
  <2> QED BY <2>1, <2>2
<1>4. NoneLost'
  BY <1>3 DEF Memory, NoneLost
<1> QED BY <1>1, <1>2, <1>4 DEF Memory, Sizes

\* The end of the pass keeps the invariant.
LEMMA EndPassMemory ==
  ASSUME Control, Memory, pc = "admit", chunked \in todo \cup {NoReq}, EndPass(todo),
         UNCHANGED <<todo, running, chunked, batch, last_batch>>, PoolsOK',
         \A x \in Req : RecordOK(req'[x]) /\ req'[x].phase = req[x].phase,
         \A x \in Req : req[x].phase # "waiting" => req'[x] = req[x]
  PROVE  Memory'
<1>1. /\ pc' = IF todo = {} THEN "decode" ELSE "extend"
      /\ rem_chunk' = 0 /\ offset' = 0
  BY DEF EndPass
<1>2. \A x \in Req : Extending(x)' <=> Extending(x)
  BY <1>1 DEF Extending
<1>3. ASSUME NEW x \in Req PROVE StageOK(x)'
  <2>1. RecordOK(req'[x]) /\ StageOK(x) /\ (x = chunked => Extending(x))
    BY ReqAssumption DEF Memory, Sizes, Extending
  <2>2. CASE req[x].phase # "waiting"
    <3>1. req'[x] = req[x]
      BY <2>2
    <3> QED BY <3>1, <2>1, <1>1, <1>2 DEF StageOK
  <2>3. CASE req[x].phase = "waiting"
    <3>1. ~Extending(x)
      BY <2>3, AtAdmit DEF Extending, ToExtend, HoldsKV
    <3> QED BY <3>1, <2>3, <1>2 DEF StageOK
  <2> QED BY <2>2, <2>3
<1>4. ASSUME NEW x \in Req, HoldsKV(x)' PROVE Kept(x)'
  <2>1. HoldsKV(x) /\ req'[x] = req[x]
    BY <1>4 DEF HoldsKV
  <2>2. Kept(x)
    BY <2>1 DEF Memory, NoneLost
  <2> QED BY <2>1, <2>2, <1>1, <1>2 DEF Kept, LastResult, NextOutputFinishesByLength, ReqsOf
<1>5. NoneLost'
  BY <1>1, <1>4 DEF Memory, NoneLost
<1>6. Budget'
  BY <1>1 DEF Budget
<1> QED BY <1>3, <1>5, <1>6 DEF Memory, Sizes

\* A pass that runs out of requests keeps the invariant.
LEMMA ClosePassMemory ==
  ASSUME Control, Memory, ClosePass
  PROVE  Memory' /\ PathsStay
<1>1. /\ pc = "admit" /\ chunked \in todo \cup {NoReq} /\ EndPass(todo)
      /\ UNCHANGED <<tree, free, content, req, todo, running, chunked, batch, last_batch>>
  BY DEF ClosePass, treeVars, batchVars
<1>2. PoolsOK' /\ \A x \in Req : RecordOK(req'[x])
  BY <1>1 DEF Memory, Sizes, PoolsOK
<1>3. Memory'
  BY <1>1, <1>2, EndPassMemory
<1> QED BY <1>1, <1>3, SameTreePaths

\* What a waiting request's match gives.
LEMMA MatchFacts ==
  ASSUME Control, Memory, NEW r \in Req, req[r].phase = "waiting", NEW m, m = MatchedPrefix(r)
  PROVE  /\ m \in Cached(tree) \cup {Root} /\ m \in Key /\ Whole(Len(m)) /\ Len(m) \in Nat
         /\ Fill(r) \in Key /\ Len(Fill(r)) \in Nat /\ Len(m) < Len(Fill(r))
         /\ m = Prefix(Fill(r), Len(m))
<1> DEFINE F == Fill(r)
           k == Prefix(F, Len(F) - 1)
           p == PageAligned(k)
<1>1. ControlOK(req[r]) /\ req[r].prompt # << >> /\ req[r].prompt \in Key /\ req[r].out \in Key
  BY DEF Control, RequestsOK, ControlOK, Memory, Sizes, RecordOK
<1>2. F \in Key /\ Len(F) = Len(req[r].prompt) + Len(req[r].out) /\ Len(req[r].prompt) \in Nat
      /\ Len(req[r].out) \in Nat
  BY <1>1, ConcatKeys DEF Fill
<1>3. Len(req[r].prompt) # 0
  BY <1>1 DEF Key
<1> HIDE DEF F
<1>4. Len(F) \in Nat /\ Len(F) - 1 \in 0 .. Len(F) /\ Len(F) - 1 < Len(F)
  <2>1. \A a, b \in Nat : a # 0 => a + b \in Nat /\ (a + b) - 1 \in 0 .. a + b /\ (a + b) - 1 < a + b
    OBVIOUS
  <2> QED BY <1>2, <1>3, <2>1
<1>5. k \in Key /\ Len(k) = Len(F) - 1 /\ IsPrefixOf(k, F)
  BY <1>2, <1>4, PrefixFacts
<1> HIDE DEF k
<1>6. Len(k) \in Nat
  BY <1>4, <1>5
<1>7. AlignDown(Len(k)) \in 0 .. Len(k)
  BY <1>6, AlignFacts
<1>8. p \in Key /\ IsPrefixOf(p, k)
  BY <1>5, <1>7, PrefixFacts DEF PageAligned
<1>9. m = LongestMatch(tree, p)
  BY DEF MatchedPrefix, p, k, F
<1> HIDE DEF p
<1>10. WellFormed(tree)
  BY DEF Memory, PoolsOK, Pools, Sound
<1>11. m \in Cached(tree) \cup {Root} /\ m \in Key /\ IsPrefixOf(m, p) /\ Whole(Len(m))
  BY <1>8, <1>9, <1>10, LongestMatchFacts
<1>12. IsPrefixOf(m, k)
  BY <1>5, <1>8, <1>11, PrefixTrans
<1>13. IsPrefixOf(m, F)
  BY <1>2, <1>5, <1>11, <1>12, PrefixTrans
<1>14. Len(m) \in Nat /\ Len(m) <= Len(k)
  BY <1>5, <1>11, <1>12, PrefixLen
<1>15. m = Prefix(F, Len(m))
  BY <1>2, <1>11, <1>13, PrefixIsCut
<1>16. Len(m) < Len(F)
  <2>1. \A a, b, c \in Nat : a <= b /\ b < c => a < c
    OBVIOUS
  <2> QED BY <2>1, <1>4, <1>5, <1>6, <1>14
<1> QED BY <1>2, <1>4, <1>11, <1>14, <1>15, <1>16 DEF F

\* A rejected request leaves at most a split in the tree.
LEMMA RejectMemory ==
  ASSUME Control, Memory, NEW r \in Req, Reject(r)
  PROVE  Memory' /\ PathsStay
<1>1. PICK m \in {MatchedPrefix(r)} :
        /\ tree' = SplitNode(tree, m)
        /\ req' = [req EXCEPT ![r].prefix = Len(m), ![r].protected = Len(m)]
  BY DEF Reject
<1>2. /\ pc = "admit" /\ chunked \in todo \cup {NoReq} /\ EndPass(todo) /\ req[r].phase = "waiting"
      /\ UNCHANGED <<free, content, todo, running, chunked, batch, last_batch>>
  BY DEF Reject, PassOpen, Waiting, batchVars
<1>3. DOMAIN req = Req /\ DOMAIN req[r] = ReqFields
  BY DEF Control, LoopInv, TypeOK, RequestsOK, ControlOK
<1>4. req'[r].phase = "waiting" /\ req'[r].prompt = req[r].prompt /\ req'[r].out = req[r].out
      /\ req'[r].max_new = req[r].max_new
      /\ \A x \in Req : x # r => req'[x] = req[x]
  BY <1>1, <1>2, <1>3 DEF ReqFields
<1>5. \A x \in Req : RecordOK(req'[x])
  BY <1>2, <1>4 DEF Memory, Sizes, RecordOK
<1>6. m \in Cached(tree) \cup {Root}
  BY <1>2, MatchFacts
<1>7. Pools(SplitNode(tree, m), free, content, req) /\ SplitNode(tree, m).value = tree.value
  BY <1>6, PoolsSplit DEF Memory, PoolsOK
<1> DEFINE rq2 == req'
<1>8. LockedIn(rq2) = LockedIn(req) /\ HoldersIn(rq2) = HoldersIn(req)
  <2>1. \A x \in Req : rq2[x].phase = req[x].phase
    BY <1>2, <1>4
  <2> QED BY <2>1 DEF LockedIn, HoldersIn
<1>9. \A x \in LockedIn(req) : rq2[x] = req[x]
  BY <1>2, <1>4 DEF LockedIn
<1>10. \A x \in LockedIn(req) : rq2[x].lock = req[x].lock
  BY <1>9
<1>11. \A x \in HoldersIn(req) : SameRow(rq2[x], req[x])
  BY <1>9, LockedFinite DEF SameRow
<1> HIDE DEF rq2
<1>12. Pools(SplitNode(tree, m), free, content, rq2)
  BY <1>7, <1>8, <1>10, <1>11, PoolsKeep
<1>13. PoolsOK'
  BY <1>1, <1>2, <1>12 DEF PoolsOK, rq2
<1>14. PathsStay
  BY <1>1, <1>7 DEF PathsStay, Cached
<1>15. \A x \in Req : RecordOK(req'[x]) /\ req'[x].phase = req[x].phase
  BY <1>2, <1>4, <1>5
<1>16. \A x \in Req : req[x].phase # "waiting" => req'[x] = req[x]
  BY <1>2, <1>4
<1>17. Memory'
  BY <1>2, <1>13, <1>15, <1>16, EndPassMemory
<1> QED BY <1>14, <1>17

\* The estimate of new tokens is clipped from above only.
LEMMA EstimateFacts ==
  ASSUME NEW n \in Int
  PROVE  MaxNewEstimate(n) \in Int /\ (n >= 0 => MaxNewEstimate(n) >= 0)
BY BoundsAssumption DEF MaxNewEstimate

\* Tokens rounded up to whole pages.
LEMMA PagedFacts ==
  ASSUME NEW n \in Nat
  PROVE  PagedTokens(n) \in Nat /\ n <= PagedTokens(n) /\ (Whole(n) => PagedTokens(n) = n)
<1>1. CeilPages(n) \in Nat
  BY CeilFacts
<1>2. n <= CeilPages(n) * PageSize /\ (Whole(n) => CeilPages(n) = n \div PageSize)
  BY CeilFacts
<1>3. PagedTokens(n) \in Nat
  BY <1>1, PageSizeAssumption DEF PagedTokens
<1>4. Whole(n) => n = (n \div PageSize) * PageSize
  BY WholeMultiple
<1> QED BY <1>2, <1>3, <1>4 DEF PagedTokens

\* add_chunked_req keeps the invariant: a chunk that is cut spends the
\* budget of the pass.
LEMMA AddChunkedReqMemory ==
  ASSUME Control, Memory, AddChunkedReq
  PROVE  Memory' /\ PathsStay
<1>0. PICK r : r = chunked
  OBVIOUS
<1> DEFINE q == req[r]
           left == Len(Fill(r)) - q.prefix
           room == RemTotal(tree, offset)
           rem == IF room <= 0 THEN rem_chunk ELSE Min({rem_chunk, room})
           new == Min({left, rem})
<1>1. /\ pc = "admit" /\ r \notin todo \cup {NoReq} /\ pc' = "admit"
      /\ req' = [req EXCEPT ![r].extend_end = q.prefix + new]
      /\ todo' = todo \cup {r}
      /\ rem_chunk' = rem_chunk - PagedTokens(new)
      /\ offset' = offset + PagedTokens(new) + PageSize
                     + (IF left <= rem THEN MaxNewEstimate(q.max_new) ELSE 0)
      /\ chunked' = IF left <= rem THEN NoReq ELSE r
      /\ UNCHANGED <<tree, free, content, running, last_batch>>
  BY <1>0 DEF AddChunkedReq, treeVars
<1>2. DOMAIN req = Req /\ r \in Req /\ ControlOK(q) /\ DOMAIN q = ReqFields
  BY <1>0, <1>1 DEF Control, LoopInv, TypeOK, RequestsOK, ControlOK
<1>3. HoldsKV(r) /\ q.phase = "running"
  <2>1. q.phase # "admitted"
    BY <1>1, <1>2, AtAdmit
  <2> QED BY <2>1, <1>0, <1>1 DEF Control, Placed, ChunkIs, HoldsKV
<1>4. todo = {} /\ rem_chunk = ChunkSize /\ rem_chunk \in Nat /\ rem_chunk > 0 /\ offset \in Int
  BY <1>0, <1>1, BoundsAssumption DEF Memory, Budget
<1>5. /\ RecordOK(q) /\ q.prefix \in Nat /\ q.prefix <= Len(q.prompt \o q.out)
      /\ q.max_new \in Nat /\ q.committed = q.extend_end /\ q.prefix = q.extend_end
      /\ q.protected <= q.prefix /\ q.protected \in Nat
  <2>1. RecordOK(q) /\ StageOK(r) /\ ~Extending(r)
    BY <1>1, <1>2 DEF Memory, Sizes, Extending
  <2>2. q.committed = q.extend_end /\ q.prefix = q.extend_end
    BY <2>1, <1>0, <1>1, <1>3 DEF StageOK
  <2> QED BY <2>1, <2>2, <1>3 DEF RecordOK
<1>6. Fill(r) = q.prompt \o q.out /\ Len(Fill(r)) \in Nat
  BY <1>2, ConcatKeys DEF Fill, ControlOK
<1>7. left \in Nat /\ q.prefix + left = Len(Fill(r))
  <2>1. \A a, b \in Nat : b <= a => a - b \in Nat /\ b + (a - b) = a
    OBVIOUS
  <2>2. q.prefix \in Nat /\ q.prefix <= Len(Fill(r))
    BY <1>5, <1>6
  <2> QED BY <1>6, <2>1, <2>2
<1>8. /\ AvailableSize(free) \in Nat /\ tree.evictable_size \in Nat
      /\ \A o \in Int : RemTotal(tree, o) = AvailableSize(free) + tree.evictable_size - o
  BY RemTotalFacts
<1>9. room \in Int /\ room = AvailableSize(free) + tree.evictable_size - offset
  BY <1>4, <1>8
<1> HIDE DEF left, room
<1>10. rem \in Nat /\ rem > 0 /\ (room <= 0 => rem = rem_chunk)
       /\ (rem = rem_chunk \/ rem = room)
  <2>1. room > 0 => Min({rem_chunk, room}) = IF rem_chunk <= room THEN rem_chunk ELSE room
    BY <1>4, <1>9, MinTwo
  <2> QED BY <1>4, <1>9, <2>1
<1> HIDE DEF rem
<1>11. new = IF left <= rem THEN left ELSE rem
  BY <1>7, <1>10, MinTwo
<1> HIDE DEF new
<1>12. new \in Nat /\ new <= left
  BY <1>7, <1>10, <1>11
<1>13. PagedTokens(new) \in Nat /\ new <= PagedTokens(new)
  BY <1>12, PagedFacts
<1>14. MaxNewEstimate(q.max_new) \in Int
  <2>1. q.max_new \in Int
    BY <1>5
  <2> HIDE DEF q
  <2> QED BY <2>1, EstimateFacts
<1> DEFINE w == req'[r]
<1>15. w = [q EXCEPT !.extend_end = q.prefix + new] /\ \A x \in Req : x # r => req'[x] = req[x]
  BY <1>1, <1>2
<1>16. /\ SameRow(w, q) /\ w.phase = q.phase /\ w.prompt = q.prompt /\ w.out = q.out
       /\ w.max_new = q.max_new /\ w.prefix = q.prefix /\ w.extend_end = q.prefix + new
       /\ w.committed = q.committed /\ w.protected = q.protected /\ w.lock = q.lock
  <2> HIDE DEF q
  <2> QED BY <1>15, <1>2 DEF SameRow, ReqFields
<1> HIDE DEF q, w
<1>17. q.prefix + new <= Len(q.prompt \o q.out) /\ q.prefix <= q.prefix + new
       /\ q.prefix + new \in Nat
  <2>1. q.prefix + left = Len(q.prompt \o q.out)
    BY <1>6, <1>7
  <2>2. \A a, b, c \in Nat : b <= c => a + b <= a + c /\ a <= a + b /\ a + b \in Nat
    OBVIOUS
  <2>3. q.prefix \in Nat /\ new \in Nat /\ left \in Nat /\ new <= left
    BY <1>5, <1>7, <1>12
  <2>4. q.prefix + new <= q.prefix + left /\ q.prefix <= q.prefix + new /\ q.prefix + new \in Nat
    BY <2>2, <2>3
  <2> QED BY <2>1, <2>4
<1>18. RecordOK(w)
  BY <1>5, <1>16, <1>17, <1>3 DEF RecordOK
<1>19. StageOK(r)'
  <2>1. Extending(r)'
    BY <1>1 DEF Extending
  <2>2. r # chunked' => w.extend_end = Len(w.prompt \o w.out)
    <3>1. r # chunked' => new = left
      BY <1>1, <1>11
    <3>2. q.prefix + left = Len(w.prompt \o w.out)
      BY <1>6, <1>7, <1>16
    <3> QED BY <3>1, <3>2, <1>16
  <2>3. w.committed = w.prefix
    BY <1>5, <1>16
  <2> QED BY <2>1, <2>2, <2>3 DEF StageOK, w
<1>20. Budget'
  <2>1. rem_chunk' \in Int /\ offset' \in Int
    BY <1>1, <1>4, <1>13, <1>14, PageSizeAssumption
  <2>2. chunked' \in todo' \cup {NoReq}
    BY <1>1
  <2>3. ASSUME chunked' \in todo'
        PROVE  rem_chunk' < PageSize \/ RemTotal(tree, offset)' <= 0
    <3>1. chunked' = r /\ ~(left <= rem)
      BY <2>3, <1>1, <1>4, ReqAssumption, <1>2
    <3>2. new = rem /\ offset' = offset + PagedTokens(new) + PageSize
      BY <3>1, <1>1, <1>11, <1>4, <1>13, PageSizeAssumption
    <3>3. CASE rem = rem_chunk
      BY <3>2, <3>3, <1>1, <1>4, <1>13, PageSizeAssumption
    <3>4. CASE rem = room
      <4>1. RemTotal(tree, offset)' = AvailableSize(free) + tree.evictable_size - offset'
        BY <1>1 DEF RemTotal
      <4> QED BY <4>1, <3>2, <3>4, <1>4, <1>8, <1>9, <1>13, PageSizeAssumption
    <3> QED BY <3>3, <3>4, <1>10
  <2> QED BY <2>1, <2>2, <2>3 DEF Budget
<1>21. PoolsOK'
  <2> DEFINE rq2 == req'
  <2>1. \A x \in Req : rq2[x].phase = req[x].phase /\ rq2[x].lock = req[x].lock
                       /\ SameRow(rq2[x], req[x])
    BY <1>15, <1>16 DEF SameRow, q, w
  <2>2. LockedIn(rq2) = LockedIn(req) /\ HoldersIn(rq2) = HoldersIn(req)
    BY <2>1 DEF LockedIn, HoldersIn
  <2>3. Pools(tree, free, content, req)
    BY DEF Memory, PoolsOK
  <2>4. \A x \in LockedIn(req) : rq2[x].lock = req[x].lock
    BY <2>1 DEF LockedIn
  <2>5. \A x \in HoldersIn(req) : SameRow(rq2[x], req[x])
    BY <2>1 DEF HoldersIn
  <2> HIDE DEF rq2
  <2>6. Pools(tree, free, content, rq2)
    BY <2>2, <2>3, <2>4, <2>5, PoolsKeep
  <2> QED BY <2>6, <1>1 DEF PoolsOK, rq2
<1>22. RecordOK(req'[r])
  BY <1>18 DEF w
<1>23. \A x \in Req : x # r => req'[x] = req[x]
  BY <1>15
<1>24. chunked \in {NoReq, r} /\ chunked' \in {NoReq, r}
  BY <1>0, <1>1
<1>25. Memory'
  BY <1>1, <1>2, <1>19, <1>20, <1>21, <1>22, <1>23, <1>24, PassStepMemory
<1> QED BY <1>25, <1>1, SameTreePaths

\* The extend length: all that is missing, or the whole pages of the budget.
LEMMA ExtendLenFacts ==
  ASSUME NEW all \in Nat, all > 0, NEW rem \in Int
  PROVE  LET n == IF PagedTokens(all) <= rem THEN all ELSE AlignDown(rem)
         IN /\ n \in Int /\ n <= all
            /\ n < all => n = AlignDown(rem)
            /\ rem < PageSize => n <= 0
<1> DEFINE n == IF PagedTokens(all) <= rem THEN all ELSE AlignDown(rem)
<1>1. CeilPages(all) \in Nat
  BY CeilFacts
<1>2. all <= CeilPages(all) * PageSize /\ CeilPages(all) * PageSize < all + PageSize
      /\ CeilPages(all) * PageSize \in Nat
  BY <1>1, CeilFacts, MulFacts
<1>3. /\ AlignDown(rem) \in Int
      /\ AlignDown(rem) <= rem
      /\ rem < PageSize => AlignDown(rem) <= 0
      /\ AlignDown(rem) > 0 => rem \in Nat
  BY AlignSigned
<1>4. PageSize \in Nat /\ PageSize > 0
  BY PageSizeAssumption
<1>5. CASE PagedTokens(all) <= rem
  <2>1. n = all /\ rem >= all
    BY <1>5, <1>2 DEF PagedTokens
  <2>2. CeilPages(all) # 0
    <3>1. CeilPages(all) = 0 => CeilPages(all) * PageSize = 0
      BY <1>4
    <3> QED BY <3>1, <1>2
  <2>3. 1 * PageSize <= CeilPages(all) * PageSize /\ 1 * PageSize = PageSize
    BY <1>1, <1>4, <2>2, MulFacts
  <2>4. rem >= PageSize
    BY <2>3, <1>5, <1>2, <1>4 DEF PagedTokens
  <2> QED BY <2>1, <2>4, <1>4
<1>6. CASE ~(PagedTokens(all) <= rem)
  <2>1. n = AlignDown(rem)
    BY <1>6
  <2>2. CASE AlignDown(rem) <= 0
    <3>1. n <= all
      BY <2>1, <2>2, <1>3
    <3> QED BY <3>1, <2>1, <2>2, <1>3
  <2>3. CASE AlignDown(rem) > 0
    <3> DEFINE d == rem \div PageSize
               e == CeilPages(all)
    <3>1. rem \in Nat
      BY <2>3, <1>3
    <3>2. d \in Nat /\ d * PageSize <= rem /\ AlignDown(rem) = d * PageSize /\ d * PageSize \in Nat
      BY <3>1, DivFacts DEF AlignDown
    <3>3. rem < e * PageSize
      BY <1>6, <1>2, <3>1 DEF PagedTokens
    <3>4. e \in Nat /\ e * PageSize < all + PageSize /\ e * PageSize \in Nat
      BY <1>1, <1>2
    <3> HIDE DEF d, e
    <3>5. d * PageSize < e * PageSize
      BY <3>1, <3>2, <3>3, <3>4
    <3>6. d < e
      BY <3>2, <3>4, <3>5, MulFacts
    <3>7. d + 1 <= e /\ d + 1 \in Nat /\ (d + 1) * PageSize = d * PageSize + PageSize
      BY <3>2, <3>4, <3>6, MulFacts
    <3>8. (d + 1) * PageSize <= e * PageSize
      BY <3>7, <3>4, MulFacts
    <3>9. d * PageSize < all
      BY <3>2, <3>4, <3>7, <3>8, <1>4
    <3>10. n <= all
      BY <3>2, <3>9, <2>1
    <3> QED BY <3>10, <2>1, <1>3
  <2> QED BY <2>2, <2>3, <1>3
<1> QED BY <1>5, <1>6

\* Pinning takes nothing from what can be evicted but the pinned path.
LEMMA PinnedSize ==
  ASSUME Memory, NEW m \in Cached(tree) \cup {Root}
  PROVE  Pinned(m).evictable_size \in Int /\ Pinned(m).evictable_size <= tree.evictable_size
<1> DEFINE s == SplitNode(tree, m)
           t == IncLockRef(s, m)
<1>1. Sound(tree, LockedIn(req), LockOf(req))
  BY DEF Memory, PoolsOK, Pools
<1>2. Sound(s, LockedIn(req), LockOf(req))
  BY <1>1, SplitSound
<1>3. s.evictable_size = tree.evictable_size
  <2>1. DOMAIN tree = TreeFields
    BY <1>1 DEF Sound, WellFormed, Shape
  <2> QED BY <2>1 DEF SplitNode, TreeFields
<1> HIDE DEF s
<1>4. DOMAIN s = TreeFields /\ WellFormed(s)
  BY <1>2 DEF Sound, WellFormed, Shape
<1>5. t.evictable_size = s.evictable_size
                           - NumTokens(s, {n \in PathTo(s, m) : s.lock_ref[n] = 0})
  BY <1>4 DEF IncLockRef, TreeFields
<1>6. NumTokens(s, {n \in PathTo(s, m) : s.lock_ref[n] = 0}) \in Nat
  BY <1>4, SegmentsFinite
<1>7. tree.evictable_size \in Nat
  BY RemTotalFacts
<1> HIDE DEF t
<1>8. t.evictable_size \in Int /\ t.evictable_size <= tree.evictable_size
  BY <1>3, <1>5, <1>6, <1>7
<1> QED BY <1>8 DEF t, s, Pinned

\* What admitting request r with match m comes to.
LEMMA AdmitFacts ==
  ASSUME Control, Memory, NEW r \in Req, Admit(r)
  PROVE  \E m \in {MatchedPrefix(r)}, n \in Nat :
           /\ pc = "admit" /\ pc' = "admit" /\ req[r].phase = "waiting" /\ chunked = NoReq
           /\ n > 0 /\ Len(m) + n <= Len(Fill(r))
           /\ n < Len(Fill(r)) - Len(m) => n = AlignDown(rem_chunk)
           /\ tree' = Pinned(m)
           /\ req' = [req EXCEPT ![r] =
                        [@ EXCEPT !.phase = "admitted", !.prefix = Len(m),
                                  !.protected = Len(m), !.lock = m,
                                  !.extend_end = Len(m) + n]]
           /\ rem_chunk' = rem_chunk - PagedTokens(n)
           /\ offset' \in Int
           /\ chunked' = IF n < Len(Fill(r)) - Len(m) THEN r ELSE NoReq
           /\ todo' = todo \cup {r}
           /\ UNCHANGED <<free, content, running, last_batch>>
<1> DEFINE m == MatchedPrefix(r)
           all == Len(Fill(r)) - Len(m)
           n == ExtendLen(r, m)
<1>1. PassOpen /\ req[r].phase = "waiting" /\ Admitted(r, m, Pinned(m))
  BY DEF Admit, Waiting
<1>2. /\ m \in Cached(tree) \cup {Root} /\ Len(m) \in Nat
      /\ Len(Fill(r)) \in Nat /\ Len(m) < Len(Fill(r))
  BY <1>1, MatchFacts
<1> HIDE DEF m
<1>3. all \in Nat /\ all > 0 /\ \A i \in Nat : i <= all => Len(m) + i <= Len(Fill(r))
  <2>1. \A a, b \in Nat : a < b => b - a \in Nat /\ b - a > 0
                                   /\ \A i \in Nat : i <= b - a => a + i <= b
    OBVIOUS
  <2> QED BY <1>2, <2>1
<1>4. rem_chunk \in Int /\ offset \in Int
  BY DEF Memory, Budget
<1>5. n = IF PagedTokens(all) <= rem_chunk THEN all ELSE AlignDown(rem_chunk)
  BY DEF ExtendLen
<1> HIDE DEF all, n
<1>6. n \in Int /\ n <= all /\ (n < all => n = AlignDown(rem_chunk))
      /\ (rem_chunk < PageSize => n <= 0)
  BY <1>3, <1>4, <1>5, ExtendLenFacts
<1>7. n > 0 /\ FitsBudget(Pinned(m), r, m)
  BY <1>1 DEF Admitted, n
<1>8. req[r].max_new \in Nat /\ Len(req[r].out) \in Nat /\ Len(req[r].out) <= req[r].max_new
  <2>1. req[r].out \in Key
    BY DEF Control, RequestsOK, ControlOK
  <2> QED BY <2>1, <1>1, PrefixLen DEF Memory, Sizes, RecordOK
<1>9. chunked = NoReq
  <2> SUFFICES ASSUME chunked \in todo PROVE FALSE
    BY <1>1 DEF PassOpen
  <2>1. rem_chunk < PageSize \/ RemTotal(tree, offset) <= 0
    BY <1>1 DEF PassOpen, Memory, Budget
  <2>2. ~(rem_chunk < PageSize)
    BY <1>6, <1>7
  <2>3. RemTotal(tree, offset) > 0
    <3> DEFINE est == MaxNewEstimate(req[r].max_new - Len(req[r].out))
               p == Pinned(m).evictable_size
    <3>1. est \in Int /\ est >= 0
      <4>1. req[r].max_new - Len(req[r].out) \in Int /\ req[r].max_new - Len(req[r].out) >= 0
        BY <1>8
      <4> QED BY <4>1, EstimateFacts
    <3>2. all + est + PageSize < AvailableSize(free) + p - offset
      BY <1>7 DEF FitsBudget, RemTotal, all
    <3>3. p \in Int /\ p <= tree.evictable_size
      BY <1>2, PinnedSize
    <3>4. AvailableSize(free) \in Nat /\ tree.evictable_size \in Nat
          /\ RemTotal(tree, offset) = AvailableSize(free) + tree.evictable_size - offset
      BY <1>4, RemTotalFacts
    <3> HIDE DEF est, p
    <3> QED BY <3>1, <3>2, <3>3, <3>4, <1>3, <1>4, PageSizeAssumption
  <2>4. RemTotal(tree, offset) \in Int
    BY <1>4, RemTotalFacts
  <2> QED BY <2>1, <2>2, <2>3, <2>4
<1>10. n \in Nat
  BY <1>6, <1>7
<1>11. PagedTokens(n) \in Nat
  BY <1>10, PagedFacts
<1>12. offset' \in Int
  <2>1. MaxNewEstimate(req[r].max_new) \in Int
    <3>1. req[r].max_new \in Int
      BY <1>8
    <3> QED BY <3>1, EstimateFacts
  <2>2. offset' = offset + PagedTokens(n) + PageSize
                    + (IF n < all THEN 0 ELSE MaxNewEstimate(req[r].max_new))
    BY <1>1 DEF Admitted, n, all
  <2> QED BY <2>1, <2>2, <1>4, <1>11, PageSizeAssumption
<1>13. /\ tree' = Pinned(m)
       /\ req' = [req EXCEPT ![r] =
                    [@ EXCEPT !.phase = "admitted", !.prefix = Len(m),
                              !.protected = Len(m), !.lock = m,
                              !.extend_end = Len(m) + n]]
       /\ rem_chunk' = rem_chunk - PagedTokens(n)
       /\ chunked' = IF n < all THEN r ELSE NoReq
       /\ todo' = todo \cup {r}
       /\ pc = "admit" /\ pc' = "admit"
       /\ UNCHANGED <<free, content, running, last_batch>>
  BY <1>1, <1>9 DEF Admitted, PassOpen, n, all
<1>14. Len(m) + n <= Len(Fill(r))
  BY <1>3, <1>6, <1>10
<1>15. m \in {MatchedPrefix(r)}
  BY DEF m
<1> QED BY <1>1, <1>6, <1>7, <1>9, <1>10, <1>12, <1>13, <1>14, <1>15 DEF all

\* An admission keeps the invariant, and is never of a second chunked
\* request.
LEMMA AdmitMemory ==
  ASSUME Control, Memory, NEW r \in Req, Admit(r)
  PROVE  Memory' /\ PathsStay /\ chunked = NoReq
<1>1. PICK m \in {MatchedPrefix(r)}, n \in Nat :
           /\ pc = "admit" /\ pc' = "admit" /\ req[r].phase = "waiting" /\ chunked = NoReq
           /\ n > 0 /\ Len(m) + n <= Len(Fill(r))
           /\ n < Len(Fill(r)) - Len(m) => n = AlignDown(rem_chunk)
           /\ tree' = Pinned(m)
           /\ req' = [req EXCEPT ![r] =
                        [@ EXCEPT !.phase = "admitted", !.prefix = Len(m),
                                  !.protected = Len(m), !.lock = m,
                                  !.extend_end = Len(m) + n]]
           /\ rem_chunk' = rem_chunk - PagedTokens(n)
           /\ offset' \in Int
           /\ chunked' = IF n < Len(Fill(r)) - Len(m) THEN r ELSE NoReq
           /\ todo' = todo \cup {r}
           /\ UNCHANGED <<free, content, running, last_batch>>
  BY AdmitFacts
<1>2. /\ m \in Cached(tree) \cup {Root} /\ m \in Key /\ Whole(Len(m)) /\ Len(m) \in Nat
      /\ Fill(r) \in Key /\ Len(Fill(r)) \in Nat /\ m = Prefix(Fill(r), Len(m))
  BY <1>1, MatchFacts
<1> HIDE DEF MatchedPrefix
<1>3. DOMAIN req = Req /\ DOMAIN req[r] = ReqFields
  BY DEF Control, LoopInv, TypeOK, RequestsOK, ControlOK
<1> DEFINE q == req[r]
           w == req'[r]
           e == Len(m) + n
<1>4. w = [q EXCEPT !.phase = "admitted", !.prefix = Len(m), !.protected = Len(m), !.lock = m,
                    !.extend_end = e]
      /\ \A x \in Req : x # r => req'[x] = req[x]
  BY <1>1, <1>3
<1> HIDE DEF e
<1>5. /\ w.phase = "admitted" /\ w.prefix = Len(m) /\ w.protected = Len(m) /\ w.lock = m
      /\ w.extend_end = e /\ w.prompt = q.prompt /\ w.out = q.out /\ w.max_new = q.max_new
  <2> HIDE DEF q
  <2> QED BY <1>3, <1>4 DEF ReqFields, q
<1>6. Fill(r) = w.prompt \o w.out /\ Len(w.prompt \o w.out) = Len(Fill(r))
  BY <1>5 DEF Fill
<1>7. e \in Nat /\ Len(m) <= e /\ e <= Len(w.prompt \o w.out) /\ m = Prefix(w.prompt \o w.out, Len(m))
  <2>1. e \in Nat /\ Len(m) <= e
    BY <1>1, <1>2 DEF e
  <2>2. e <= Len(Fill(r))
    BY <1>1 DEF e
  <2> QED BY <2>1, <2>2, <1>2, <1>6
<1>8. w.prompt # << >> /\ w.max_new \in Nat /\ Len(w.out) <= w.max_new
  BY <1>1, <1>5 DEF Memory, Sizes, RecordOK
<1> HIDE DEF w, q
<1>9. RecordOK(w)
  <2>1. w.protected \in Nat /\ w.prefix \in Nat /\ w.extend_end \in Nat /\ Whole(w.protected)
        /\ w.protected <= w.prefix /\ w.prefix <= w.extend_end /\ w.prefix = w.protected
    BY <1>2, <1>5, <1>7
  <2>2. w.extend_end <= Len(w.prompt \o w.out)
    BY <1>5, <1>7
  <2>3. w.lock = Prefix(w.prompt \o w.out, w.protected)
    BY <1>5, <1>7
  <2> QED BY <2>1, <2>2, <2>3, <1>8 DEF RecordOK
<1>10. StageOK(r)'
  <2>1. r # chunked' => w.extend_end = Len(w.prompt \o w.out)
    <3>1. r # chunked' => ~(n < Len(Fill(r)) - Len(m))
      BY <1>1
    <3>2. \A a, b, c \in Nat : a + b <= c /\ ~(b < c - a) => a + b = c
      OBVIOUS
    <3>3. r # chunked' => e = Len(Fill(r))
      BY <3>1, <3>2, <1>1, <1>2 DEF e
    <3> QED BY <3>3, <1>5, <1>6
  <2> QED BY <2>1, <1>1, <1>5 DEF StageOK, Extending, w
<1>11. Budget'
  <2>1. rem_chunk \in Int
    BY DEF Memory, Budget
  <2>2. PagedTokens(n) \in Nat
    BY PagedFacts
  <2>3. chunked' \in todo' \cup {NoReq}
    BY <1>1
  <2>4. ASSUME chunked' \in todo' PROVE rem_chunk' < PageSize
    <3>1. NoReq \notin todo'
      BY <1>1, AtAdmit, ReqAssumption
    <3>2. n = AlignDown(rem_chunk)
      BY <2>4, <3>1, <1>1
    <3>3. rem_chunk \in Nat
      BY <3>2, <2>1, <1>1, AlignSigned
    <3>4. Whole(n)
      BY <3>2, <3>3, AlignFacts
    <3>5. PagedTokens(n) = n
      BY <3>4, PagedFacts
    <3>6. rem_chunk < n + PageSize
      BY <3>2, <3>3, DivFacts DEF AlignDown
    <3> QED BY <3>3, <3>5, <3>6, <1>1, PageSizeAssumption
  <2>5. rem_chunk' \in Int
    BY <1>1, <2>1, <2>2
  <2> QED BY <2>3, <2>4, <2>5, <1>1 DEF Budget
<1>12. Pools(Pinned(m), free, content, req') /\ Pinned(m).value = tree.value
  <2>1. r \notin LockedIn(req)
    BY <1>1 DEF LockedIn
  <2>2. OnlyAt(req, req', r)
    BY <1>4 DEF OnlyAt
  <2>3. req'[r].phase = "admitted" /\ req'[r].lock = m
    BY <1>5 DEF w
  <2>4. Pools(tree, free, content, req)
    BY DEF Memory, PoolsOK
  <2> DEFINE rq2 == req'
  <2>5. OnlyAt(req, rq2, r) /\ rq2[r].phase = "admitted" /\ rq2[r].lock = m
    BY <2>2, <2>3
  <2> HIDE DEF rq2
  <2>6. Pools(IncLockRef(SplitNode(tree, m), m), free, content, rq2)
        /\ IncLockRef(SplitNode(tree, m), m).value = tree.value
    BY <2>1, <2>4, <2>5, <1>2, PoolsPin
  <2> QED BY <2>6 DEF Pinned, rq2
<1>13. PoolsOK' /\ PathsStay
  BY <1>1, <1>12 DEF PoolsOK, PathsStay, Cached
<1>14. RecordOK(req'[r]) /\ chunked \in {NoReq, r} /\ chunked' \in {NoReq, r}
  BY <1>1, <1>9 DEF w
<1>15. \A x \in Req : x # r => req'[x] = req[x]
  BY <1>4
<1>16. Memory'
  BY <1>1, <1>10, <1>11, <1>13, <1>14, <1>15, PassStepMemory
<1> QED BY <1>1, <1>13, <1>16

-----------------------------------------------------------------------------
(* The decode memory check and retraction *)

\* Requests leave the running batch: they give up their KV, or their result in
\* flight is their last.
LEMMA DecodeStepMemory ==
  ASSUME Control, Memory, pc \in {"decode", "retract"}, running' \subseteq running,
         UNCHANGED <<chunked, batch, last_batch, rem_chunk, offset>>,
         pc' \in {"retract", "alloc_decode", "process"},
         pc' = "process" => todo' = ToProcess(queue), PoolsOK',
         \A x \in Req : \/ req'[x] = req[x]
                        \/ req'[x].phase \notin {"admitted", "running"} /\ RecordOK(req'[x]),
         \A x \in running \ running' :
           HoldsKV(x)' => /\ Overlap /\ x \in ReqsOf(last_batch)
                          /\ NextOutputFinishesByLength(x)
  PROVE  Memory'
<1>1. chunked = NoReq /\ todo = {} /\ ReqsOf(batch) = {}
  BY DEF Control, Placed, ChunkIs, TodoIs, BatchesAre, BatchOK
<1>2. \A x \in Req : ~Extending(x) /\ ~Extending(x)' /\ x # chunked
  BY <1>1, ReqAssumption DEF Extending
<1>3. \A x \in Req : RecordOK(req'[x])
  BY DEF Memory, Sizes
<1>4. ASSUME NEW x \in Req PROVE StageOK(x)'
  <2>1. CASE req'[x] = req[x]
    <3>1. StageOK(x)
      BY DEF Memory, Sizes
    <3> QED BY <3>1, <2>1, <1>2 DEF StageOK
  <2>2. CASE req'[x].phase \notin {"admitted", "running"}
    BY <2>2, <1>2 DEF StageOK
  <2> QED BY <2>1, <2>2
<1>5. Budget'
  BY DEF Memory, Budget
<1>6. last_batch.chunked \notin running
  BY DEF Memory, NoneLost
<1>7. Overlap /\ pc' = "process" => todo' = ReqsOf(last_batch)
  BY NothingLaunched
<1>8. ASSUME NEW x \in Req, HoldsKV(x)' PROVE Kept(x)'
  <2>1. req'[x] = req[x] /\ HoldsKV(x)
    BY <1>8 DEF HoldsKV
  <2>2. Kept(x)
    BY <2>1 DEF Memory, NoneLost
  <2>3. x \in running \/ LastResult(x)
    BY <2>2, <1>1, <1>2 DEF Kept
  <2>4. CASE x \in running'
    BY <2>4 DEF Kept
  <2>5. CASE LastResult(x)
    <3>1. LastResult(x)'
      BY <2>5, <2>1, <1>7 DEF LastResult, NextOutputFinishesByLength, ReqsOf
    <3> QED BY <3>1 DEF Kept
  <2>6. CASE x \in running \ running'
    <3>1. Overlap /\ x \in ReqsOf(last_batch) /\ NextOutputFinishesByLength(x)
          /\ last_batch.chunked # x
      BY <2>6, <1>6, <1>8
    <3>2. LastResult(x)'
      BY <3>1, <2>1, <1>7 DEF LastResult, NextOutputFinishesByLength, ReqsOf
    <3> QED BY <3>2 DEF Kept
  <2> QED BY <2>3, <2>4, <2>5, <2>6
<1>9. NoneLost'
  BY <1>6, <1>8 DEF NoneLost
<1> QED BY <1>3, <1>4, <1>5, <1>9 DEF Memory, Sizes

\* A request filtered out of the running batch has its last result in
\* flight.
LEMMA UpdateRunningBatchMemory ==
  ASSUME Control, Memory, UpdateRunningBatch
  PROVE  Memory' /\ PathsStay
<1> DEFINE run == running \ FinishingInflight
<1>1. /\ pc = "decode" /\ running' = run
      /\ UNCHANGED <<req, chunked, batch, last_batch, rem_chunk, offset>>
      /\ pc' \in {"retract", "alloc_decode", "process"}
      /\ pc' = "process" => todo' = ToProcess(queue)
  BY DEF UpdateRunningBatch, NoBatchToRun, batchVars, passVars
<1>2. \/ UNCHANGED <<tree, free, content>>
      \/ \E e \in Evictions(tree, free, DecodeNeed(run)) :
           tree' = e.tree /\ free' = e.free /\ content' = Scrub(content, e.gone)
  BY DEF UpdateRunningBatch, treeVars
<1>3. PoolsOK' /\ PathsStay
  <2>1. CASE UNCHANGED <<tree, free, content>>
    BY <2>1, <1>1, SameTreePaths DEF Memory, PoolsOK
  <2>2. CASE \E e \in Evictions(tree, free, DecodeNeed(run)) :
               tree' = e.tree /\ free' = e.free /\ content' = Scrub(content, e.gone)
    <3>1. PICK e \in Evictions(tree, free, DecodeNeed(run)) :
            tree' = e.tree /\ free' = e.free /\ content' = Scrub(content, e.gone)
      BY <2>2
    <3>2. Pools(tree, free, content, req)
      BY DEF Memory, PoolsOK
    <3> DEFINE num == DecodeNeed(run)
    <3>3. e \in Evictions(tree, free, num)
      OBVIOUS
    <3> HIDE DEF num
    <3>4. Pools(e.tree, e.free, Scrub(content, e.gone), req)
          /\ Stable(tree, e.tree, LockedIn(req), LockOf(req))
      BY <3>2, <3>3, PoolsEvictScrub
    <3>5. PoolsOK'
      BY <3>1, <3>4, <1>1 DEF PoolsOK
    <3>6. Locked = LockedIn(req)
      BY DEF Locked, LockedIn
    <3>7. PathsStay
      BY <3>1, <3>4, <3>6, StablePaths
    <3> QED BY <3>5, <3>7
  <2> QED BY <1>2, <2>1, <2>2
<1>4. \A x \in running \ running' :
        Overlap /\ x \in ReqsOf(last_batch) /\ NextOutputFinishesByLength(x)
  <2> SUFFICES ASSUME NEW x \in FinishingInflight
               PROVE  Overlap /\ x \in ReqsOf(last_batch) /\ NextOutputFinishesByLength(x)
    BY <1>1
  <2>1. Overlap /\ queue # << >> /\ x \in ReqsOf(Head(queue)) /\ NextOutputFinishesByLength(x)
    BY DEF FinishingInflight
  <2>2. queue = (IF Overlap /\ last_batch.kind # "none" THEN <<last_batch>> ELSE << >>) \o << >>
    BY <1>1 DEF Control, Placed, QueueIs
  <2>3. Head(queue) = last_batch
    BY <2>1, <2>2
  <2> QED BY <2>1, <2>3
<1> HIDE DEF run
<1>5. Memory'
  <2>1. running' \subseteq running
    BY <1>1 DEF run
  <2>2. pc \in {"decode", "retract"}
    BY <1>1
  <2>3. \A x \in Req : req'[x] = req[x]
    BY <1>1
  <2> QED BY <1>1, <1>3, <1>4, <2>1, <2>2, <2>3, DecodeStepMemory
<1> QED BY <1>3, <1>5

\* Pages overwritten in two steps or in one.
LEMMA ScrubTwice ==
  ASSUME NEW c, NEW A, NEW B
  PROVE  Scrub(Scrub(c, A), B) = Scrub(c, A \cup B)
BY DEF Scrub

\* A retracted request keeps its text and its limit.
LEMMA ResetRecord ==
  ASSUME NEW q, DOMAIN q = ReqFields, q.prompt # << >>, q.max_new \in Nat, Len(q.out) <= q.max_new
  PROVE  RecordOK(ResetForRetract(q, "waiting"))
<1> DEFINE w == ResetForRetract(q, "waiting")
<1>1. w.phase = "waiting" /\ w.prompt = q.prompt /\ w.max_new = q.max_new /\ w.out = q.out
  BY DEF ResetForRetract, ReqFields
<1> HIDE DEF w
<1>2. RecordOK(w)
  BY <1>1 DEF RecordOK
<1> QED BY <1>2 DEF w

\* retract_decode of one request returns its pages.
LEMMA RetractMemory ==
  ASSUME Control, Memory, NEW r \in Req, Retract(r)
  PROVE  Memory' /\ PathsStay
<1>1. pc = "retract" /\ r \in running /\ todo = {}
  BY DEF Retract, Control, Placed, TodoIs
<1>2. DOMAIN req = Req /\ ControlOK(req[r]) /\ DOMAIN req[r] = ReqFields
  BY DEF Control, LoopInv, TypeOK, RequestsOK, ControlOK
<1>3. HoldsKV(r) /\ r \in HoldersIn(req) /\ req[r].phase = "running"
  BY <1>1 DEF Control, Placed, Members, HoldsKV, HoldersIn
<1>4. req[r].prompt # << >> /\ req[r].max_new \in Nat /\ Len(req[r].out) <= req[r].max_new
  BY <1>3 DEF Memory, Sizes, RecordOK
<1>5. Pools(tree, free, content, req)
  BY DEF Memory, PoolsOK
<1> DEFINE rel == ReleaseKV(tree, req[r], FALSE)
<1>6. ASSUME req'[r].phase \notin {"admitted", "running"}, OnlyAt(req, req', r)
      PROVE  ReleasePools(tree, free, content, rel, req') /\ ReleaseRecord(req[r], rel)
  <2>1. ReleaseMade(tree, free, content, req, r, req')
    BY <1>6, <1>2, <1>3, <1>5 DEF ReleaseMade
  <2> QED BY <2>1, ReleaseStep
<1>7. DOMAIN rel.req = ReqFields /\ rel.req.prompt = req[r].prompt /\ rel.req.out = req[r].out
      /\ rel.req.max_new = req[r].max_new
  BY <1>2 DEF ReleaseKV, FreeRow, ReqFields
<1> HIDE DEF rel
<1>8. CASE running # {r}
  <2> DEFINE q == ResetForRetract(rel.req, "waiting")
             rest == running \ {r}
             n1 == Cardinality(rest) * RetractSteps
             n2 == DecodeNeed(rest)
  <2>1. RetractOne(r)
    BY <1>8 DEF Retract
  <2>2. /\ running' = rest /\ req' = [req EXCEPT ![r] = q]
        /\ UNCHANGED <<chunked, batch, last_batch, rem_chunk, offset>>
        /\ pc' \in {"retract", "alloc_decode"}
    BY <2>1, <1>1 DEF RetractOne, rel, batchVars, passVars
  <2>3. PICK e1 \in Evictions(rel.tree, Release(free, rel.own), n1) :
        \E e2 \in Evictions(e1.tree, e1.free, n2) :
          /\ tree' = e2.tree /\ free' = e2.free
          /\ content' = Scrub(content, rel.own \cup e1.gone \cup e2.gone)
    BY <2>1 DEF RetractOne, rel
  <2>4. PICK e2 \in Evictions(e1.tree, e1.free, n2) :
          /\ tree' = e2.tree /\ free' = e2.free
          /\ content' = Scrub(content, rel.own \cup e1.gone \cup e2.gone)
    BY <2>3
  <2>5. q.phase = "waiting" /\ RecordOK(q)
    BY <1>4, <1>7, ResetRecord DEF ResetForRetract, ReqFields
  <2> HIDE DEF q, n1, n2
  <2>6. req'[r] = q /\ \A x \in Req : x # r => req'[x] = req[x]
    BY <1>2, <2>2
  <2>7. ReleasePools(tree, free, content, rel, req')
    BY <1>6, <2>5, <2>6 DEF OnlyAt
  <2>8. Pools(rel.tree, Release(free, rel.own), Scrub(content, rel.own), req')
        /\ rel.tree.value = tree.value
    BY <2>7 DEF ReleasePools
  <2> DEFINE c0 == Scrub(content, rel.own)
             c1 == Scrub(c0, e1.gone)
             rq == req'
  <2>9. Pools(e1.tree, e1.free, c1, rq) /\ Stable(rel.tree, e1.tree, LockedIn(rq), LockOf(rq))
    <3> HIDE DEF rq
    <3>1. Pools(rel.tree, Release(free, rel.own), c0, rq)
      BY <2>8 DEF rq
    <3> HIDE DEF c0
    <3> QED BY <3>1, PoolsEvictScrub
  <2>10. Pools(e2.tree, e2.free, Scrub(c1, e2.gone), rq)
         /\ Stable(e1.tree, e2.tree, LockedIn(rq), LockOf(rq))
    <3> HIDE DEF rq, c1
    <3> QED BY <2>9, PoolsEvictScrub
  <2>11. Scrub(c1, e2.gone) = content'
    <3> DEFINE A == rel.own \cup e1.gone
    <3>1. c1 = Scrub(content, A)
      BY ScrubTwice
    <3>2. Scrub(Scrub(content, A), e2.gone) = Scrub(content, A \cup e2.gone)
      BY ScrubTwice
    <3> HIDE DEF c1
    <3> QED BY <3>1, <3>2, <2>4
  <2>12. PoolsOK'
    BY <2>4, <2>10, <2>11 DEF PoolsOK
  <2>13. PathsStay
    <3> SUFFICES ASSUME NEW x \in Locked, x \in Locked', req'[x].lock = req[x].lock,
                        NEW k \in Cached(tree), IsPrefixOf(k, req[x].lock)
                 PROVE  k \in Cached(tree') /\ tree'.value[k] = tree.value[k]
      BY DEF PathsStay
    <3>1. x \in LockedIn(rq) /\ LockOf(rq)[x] = req[x].lock
      BY DEF Locked, LockedIn, LockOf
    <3>2. k \in Cached(rel.tree) /\ rel.tree.value[k] = tree.value[k]
      BY <2>8 DEF Cached
    <3>3. k \in Cached(e1.tree) /\ e1.tree.value[k] = rel.tree.value[k]
      BY <3>1, <3>2, <2>9 DEF Stable
    <3>4. k \in Cached(e2.tree) /\ e2.tree.value[k] = e1.tree.value[k]
      BY <3>1, <3>3, <2>10 DEF Stable
    <3> QED BY <3>2, <3>3, <3>4, <2>4
  <2>14. Memory'
    <3>1. \A x \in Req : \/ req'[x] = req[x]
                         \/ req'[x].phase \notin {"admitted", "running"} /\ RecordOK(req'[x])
      BY <2>5, <2>6
    <3>2. \A x \in running \ running' : ~HoldsKV(x)'
      BY <2>2, <2>5, <2>6 DEF HoldsKV
    <3>3. running' \subseteq running /\ pc \in {"decode", "retract"} /\ pc' # "process"
          /\ pc' \in {"retract", "alloc_decode", "process"}
      BY <2>2, <1>1
    <3> QED BY <3>1, <3>2, <3>3, <2>2, <2>12, DecodeStepMemory
  <2> QED BY <2>13, <2>14
<1>9. CASE running = {r}
  <2> DEFINE q == Finish(ResetForRetract(req[r], "finished"))
  <2>1. AbortLast(r)
    BY <1>9 DEF Retract
  <2>2. /\ running' = {} /\ Effect(r, rel, q) /\ pc' = "process" /\ todo' = ToProcess(queue)
        /\ UNCHANGED <<chunked, batch, last_batch, rem_chunk, offset>>
    BY <2>1 DEF AbortLast, rel, NoBatchToRun, batchVars, passVars
  <2>3. q.phase = "finished"
    BY <1>2, ResetControl
  <2> HIDE DEF q
  <2>4. RecordOK(q)
    BY <2>3 DEF RecordOK
  <2>5. req'[r] = q /\ \A x \in Req : x # r => req'[x] = req[x]
    BY <1>2, <2>2 DEF Effect
  <2>6. ReleasePools(tree, free, content, rel, req')
    BY <1>6, <2>3, <2>5 DEF OnlyAt
  <2>7. tree' = rel.tree /\ free' = Release(free, rel.own) /\ content' = Scrub(content, rel.own)
    BY <2>2, <2>6 DEF Effect, ReleasePools
  <2>8. PoolsOK' /\ PathsStay
    BY <2>6, <2>7 DEF PoolsOK, ReleasePools, PathsStay, Cached
  <2>9. Memory'
    <3>1. \A x \in Req : \/ req'[x] = req[x]
                         \/ req'[x].phase \notin {"admitted", "running"} /\ RecordOK(req'[x])
      BY <2>3, <2>4, <2>5
    <3>2. \A x \in running \ running' : ~HoldsKV(x)'
      BY <1>9, <2>3, <2>5 DEF HoldsKV
    <3>3. running' \subseteq running /\ pc \in {"decode", "retract"}
          /\ pc' \in {"retract", "alloc_decode", "process"}
      BY <2>2, <1>1
    <3> QED BY <3>1, <3>2, <3>3, <2>2, <2>8, DecodeStepMemory
  <2> QED BY <2>8, <2>9
<1> QED BY <1>8, <1>9

-----------------------------------------------------------------------------
(* Allocation and the forward of a request *)

\* A prefix of a prefix, cut from either.
LEMMA PrefixSame ==
  ASSUME NEW a \in Key, NEW b \in Key, IsPrefixOf(a, b), NEW n \in 0 .. Len(a)
  PROVE  Prefix(b, n) = Prefix(a, n)
<1> DEFINE p == Prefix(a, n)
<1>1. p \in Key /\ Len(p) = n /\ IsPrefixOf(p, a)
  BY PrefixFacts
<1> HIDE DEF p
<1>2. IsPrefixOf(p, b)
  BY <1>1, PrefixTrans
<1>3. p = Prefix(b, Len(p))
  BY <1>1, <1>2, PrefixIsCut
<1> QED BY <1>1, <1>3 DEF p

\* The allocator hands out different pages of its free list.
LEMMA AllocFacts ==
  ASSUME NEW f, NEW n \in Nat, n <= Cardinality(FreePages(f))
  PROVE  /\ AllocPages(f, n) \in [1 .. n -> FreePages(f)]
         /\ \A i, j \in 1 .. n : AllocPages(f, n)[i] = AllocPages(f, n)[j] => i = j
<1> DEFINE F == FreePages(f)
<1>1. IsFiniteSet(F)
  BY PageAssumption, FS_Subset DEF FreePages
<1> HIDE DEF F
<1>2. PICK m \in Nat : ExistsBijection(1 .. m, F)
  BY <1>1, FS_NatBijection
<1>3. Cardinality(F) = m
  BY <1>2, FS_CountingElements
<1>4. PICK g : g \in Bijection(1 .. m, F)
  BY <1>2 DEF ExistsBijection
<1>5. g \in [1 .. m -> F] /\ \A i, j \in 1 .. m : g[i] = g[j] => i = j
  BY <1>4 DEF Bijection, Injection, IsInjective
<1>6. n <= m
  BY <1>3 DEF F
<1>7. \A i \in 1 .. n : i \in 1 .. m
  BY <1>6
<1> DEFINE h == [i \in 1 .. n |-> g[i]]
<1>8. h \in Injection(1 .. n, F)
  BY <1>5, <1>7 DEF Injection, IsInjective
<1>9. AllocPages(f, n) \in Injection(1 .. n, F)
  BY <1>8 DEF AllocPages, F
<1> QED BY <1>9 DEF Injection, IsInjective, F

\* Request r grows from from to to tokens: rq2 is rq with the new pages in its
\* row, and the device writes the KV of text.
GrowCase(t, f, c, rq, r, held, from, to, text, new, need, rq2) ==
  /\ Pools(t, f, c, rq) /\ r \in LockedIn(rq) /\ OnlyAt(rq, rq2, r)
  /\ rq2[r].phase = "running" /\ rq2[r].lock = rq[r].lock /\ rq2[r].protected = rq[r].protected
  /\ rq2[r].dev \in Key /\ IsPrefixOf(text, rq2[r].dev) /\ rq2[r].committed = to
  /\ from \in Nat /\ to \in Nat /\ from <= to /\ text \in Key /\ to <= Len(text)
  /\ rq[r].lock \in Key /\ rq[r].protected \in Nat /\ Whole(rq[r].protected)
  /\ Len(rq[r].lock) = rq[r].protected /\ rq[r].protected <= from /\ IsPrefixOf(rq[r].lock, text)
  /\ held \in Seq(Page) /\ Len(held) = CeilPages(from)
  /\ \A i \in 1 .. rq[r].protected \div PageSize :
       held[i] = t.value[Prefix(rq[r].lock, i * PageSize)]
  /\ r \in HoldersIn(rq) =>
       held = rq[r].row /\ rq[r].committed = from /\ IsPrefixOf(text, rq[r].dev)
  /\ r \notin HoldersIn(rq) => from = rq[r].protected
  /\ need = CeilPages(to) - CeilPages(from)
  /\ new \in [1 .. need -> FreePages(f)]
  /\ \A i, j \in 1 .. need : new[i] = new[j] => i = j
  /\ rq2[r].row = held \o new

\* The pages a forward takes come from the free list and hold the text of
\* the request.
LEMMA GrowStep ==
  ASSUME NEW t, NEW f, NEW c, NEW rq, NEW r, NEW held, NEW from, NEW to, NEW text, NEW new,
         NEW need, NEW rq2, GrowCase(t, f, c, rq, r, held, from, to, text, new, need, rq2)
  PROVE  Pools(t, Take(f, {new[i] : i \in 1 .. need}), Write(c, rq2[r].row, text, from, to), rq2)
<1> DEFINE q == rq[r]
           w == rq2[r]
           P == q.protected \div PageSize
           D == from \div PageSize
           H == CeilPages(from)
           L == CeilPages(to)
           row == w.row
           got == {new[i] : i \in 1 .. need}
           old == IF r \in HoldersIn(rq) THEN Own(q) ELSE {}
           c2 == Write(c, row, text, from, to)
<1>1. /\ Pools(t, f, c, rq) /\ r \in LockedIn(rq) /\ OnlyAt(rq, rq2, r)
      /\ w.phase = "running" /\ w.lock = q.lock /\ w.protected = q.protected
      /\ w.dev \in Key /\ IsPrefixOf(text, w.dev) /\ w.committed = to
  BY DEF GrowCase
<1>2. /\ from \in Nat /\ to \in Nat /\ from <= to /\ text \in Key /\ to <= Len(text)
      /\ q.lock \in Key /\ q.protected \in Nat /\ Whole(q.protected)
      /\ Len(q.lock) = q.protected /\ q.protected <= from /\ IsPrefixOf(q.lock, text)
  BY DEF GrowCase
<1>3. /\ held \in Seq(Page) /\ Len(held) = H
      /\ \A i \in 1 .. P : held[i] = t.value[Prefix(q.lock, i * PageSize)]
      /\ r \in HoldersIn(rq) => held = q.row /\ q.committed = from /\ IsPrefixOf(text, q.dev)
      /\ r \notin HoldersIn(rq) => from = q.protected
  BY DEF GrowCase
<1>4. /\ need = L - H
      /\ new \in [1 .. need -> FreePages(f)]
      /\ \A i, j \in 1 .. need : new[i] = new[j] => i = j
      /\ row = held \o new
  BY DEF GrowCase
<1>5. /\ RowsOK(t, c, rq) /\ FreeIs(t, f, rq)
  BY <1>1 DEF Pools
<1>6. P \in Nat /\ D \in Nat /\ P <= D
  BY <1>2, DivFacts, DivMono
<1>7. H \in Nat /\ L \in Nat
  BY <1>2, CeilFacts
<1>8. D <= H /\ H <= L
  BY <1>2, CeilFacts, CeilMono
<1>9. r \notin HoldersIn(rq) => H = P
  BY <1>2, <1>3, CeilFacts
<1> HIDE DEF P, D, H, L
<1>10. need \in Nat /\ L = H + need
  BY <1>4, <1>7, <1>8
<1>11. new \in Seq(Page) /\ Len(new) = need
  <2>1. FreePages(f) \subseteq Page
    BY DEF FreePages
  <2>2. new \in [1 .. need -> Page]
    BY <2>1, <1>4
  <2> QED BY <2>2, <1>10
<1> HIDE DEF row
<1>12. /\ row \in Seq(Page) /\ Len(row) = L
       /\ \A i \in 1 .. H : row[i] = held[i]
       /\ \A i \in 1 .. need : row[H + i] = new[i]
  <2>0. held \in Seq(Page) /\ new \in Seq(Page) /\ row = held \o new
    BY <1>3, <1>4, <1>11
  <2>1. row \in Seq(Page)
    BY <2>0
  <2>2. Len(row) = Len(held) + Len(new)
    BY <2>0
  <2>3. ASSUME NEW i \in 1 .. H PROVE row[i] = held[i]
    <3>1. i \in 1 .. H + need /\ i <= H
      BY <1>7, <1>10
    <3> QED BY <3>1, <1>3, <1>4, <1>11
  <2>4. ASSUME NEW i \in 1 .. need PROVE row[H + i] = new[i]
    <3>1. i \in Nat /\ i # 0 /\ i <= need
      BY <1>10
    <3>2. H + i \in 1 .. H + need /\ ~(H + i <= H) /\ (H + i) - H = i
      BY <3>1, <1>7, <1>10
    <3> QED BY <3>2, <1>3, <1>4, <1>11
  <2> QED BY <2>1, <2>2, <2>3, <2>4, <1>3, <1>10, <1>11
<1>13. \A p : p \in got <=> \E i \in H + 1 .. L : p = row[i]
  <2>1. ASSUME NEW i \in H + 1 .. L PROVE row[i] \in got
    <3>1. i - H \in 1 .. need /\ H + (i - H) = i
      BY <1>7, <1>10
    <3> QED BY <3>1, <1>12
  <2>2. ASSUME NEW i \in 1 .. need PROVE \E j \in H + 1 .. L : new[i] = row[j]
    <3>1. H + i \in H + 1 .. L
      BY <1>7, <1>10
    <3> QED BY <3>1, <1>12
  <2> QED BY <2>1, <2>2
<1>14. \A p : p \in old <=> \E i \in P + 1 .. H : p = row[i]
  <2>1. CASE r \in HoldersIn(rq)
    <3>1. RowShape(q)
      BY <2>1, <1>5 DEF RowsOK, RowOK
    <3>2. \A p : p \in Own(q) <=> \E i \in P + 1 .. H : p = q.row[i]
      BY <3>1, <2>1, <1>3, OwnFacts DEF P
    <3>3. \A i \in P + 1 .. H : i \in 1 .. H
      BY <1>6, <1>7
    <3>4. \A i \in P + 1 .. H : row[i] = q.row[i]
      BY <3>3, <1>3, <1>12, <2>1
    <3> QED BY <3>2, <3>4, <2>1
  <2>2. CASE r \notin HoldersIn(rq)
    BY <2>2, <1>9, <1>6, <1>7
  <2> QED BY <2>1, <2>2
<1>15. \A p : p \in Own(w) <=> \E i \in P + 1 .. L : p = row[i]
  BY <1>1, <1>12 DEF Own, PrivatePages, P, row
<1>16. Own(w) = old \cup got
  <2>1. \A i \in P + 1 .. L : i \in P + 1 .. H \/ i \in H + 1 .. L
    BY <1>6, <1>7, <1>8
  <2>2. \A i \in P + 1 .. H : i \in P + 1 .. L
    BY <1>6, <1>7, <1>8
  <2>3. \A i \in H + 1 .. L : i \in P + 1 .. L
    BY <1>6, <1>7, <1>8
  <2>4. \A p : p \in Own(w) <=> p \in old \/ p \in got
    BY <2>1, <2>2, <2>3, <1>13, <1>14, <1>15
  <2> HIDE DEF old, got
  <2> QED BY <2>4
<1>17. got \subseteq Page /\ got \cap Used(t, rq) = {}
  <2>1. \A p \in FreePages(f) : p \in Page /\ p \notin Used(t, rq)
    BY <1>5 DEF FreePages, FreeIs
  <2> QED BY <2>1, <1>4
<1>18. old \cap got = {}
  <2>1. old \subseteq Used(t, rq)
    BY DEF Used
  <2> QED BY <2>1, <1>17
<1> HIDE DEF old, got
<1>19. ASSUME NEW i \in P + 1 .. L, NEW j \in P + 1 .. L, row[i] = row[j] PROVE i = j
  <2>1. (i \in P + 1 .. H \/ i \in H + 1 .. L) /\ (j \in P + 1 .. H \/ j \in H + 1 .. L)
    BY <1>6, <1>7, <1>8
  <2>2. CASE i \in P + 1 .. H /\ j \in P + 1 .. H
    <3>1. r \in HoldersIn(rq)
      BY <2>2, <1>6, <1>7, <1>9
    <3>2. RowShape(q) /\ Written(c, q)
      BY <3>1, <1>5 DEF RowsOK, RowOK
    <3>3. i \in 1 .. H /\ j \in 1 .. H
      BY <2>2, <1>6, <1>7
    <3>4. q.row[i] = q.row[j]
      BY <3>1, <3>3, <1>3, <1>12, <1>19
    <3>5. i \in (q.protected \div PageSize) + 1 .. Len(q.row)
          /\ j \in (q.protected \div PageSize) + 1 .. Len(q.row)
      BY <2>2, <3>1, <1>3 DEF P
    <3> QED BY <3>2, <3>4, <3>5, OwnOnce
  <2>3. CASE i \in H + 1 .. L /\ j \in H + 1 .. L
    <3>1. i - H \in 1 .. need /\ H + (i - H) = i /\ j - H \in 1 .. need /\ H + (j - H) = j
      BY <2>3, <1>7, <1>10
    <3>2. new[i - H] = new[j - H]
      BY <3>1, <1>12, <1>19
    <3>3. i - H = j - H
      BY <3>1, <3>2, <1>4
    <3> QED BY <3>1, <3>3
  <2>4. CASE i \in P + 1 .. H /\ j \in H + 1 .. L
    <3>1. row[i] \in old /\ row[j] \in got
      BY <2>4, <1>13, <1>14
    <3> QED BY <3>1, <1>18, <1>19
  <2>5. CASE j \in P + 1 .. H /\ i \in H + 1 .. L
    <3>1. row[j] \in old /\ row[i] \in got
      BY <2>5, <1>13, <1>14
    <3> QED BY <3>1, <1>18, <1>19
  <2> QED BY <2>1, <2>2, <2>3, <2>4, <2>5
<1>20. \A i \in D + 1 .. L : i \in P + 1 .. L /\ i \in 1 .. L
  BY <1>6, <1>7
<1>21. ASSUME NEW i \in D + 1 .. L
       PROVE  c2[row[i]] = Prefix(text, IF i * PageSize <= to THEN i * PageSize ELSE to)
  <2>1. row[i] \in Page
    BY <1>12, <1>20
  <2> DEFINE j == CHOOSE j \in D + 1 .. L : row[j] = row[i]
  <2>2. j \in D + 1 .. L /\ row[j] = row[i]
    OBVIOUS
  <2>3. c2[row[i]] = Prefix(text, IF j * PageSize <= to THEN j * PageSize ELSE to)
    BY <2>1 DEF Write, D, L
  <2> HIDE DEF j
  <2>4. j = i
    BY <2>2, <1>19, <1>20
  <2> QED BY <2>3, <2>4
<1>22. \A p \in Page : (\A i \in D + 1 .. L : row[i] # p) => c2[p] = c[p]
  BY DEF Write, D, L
<1> HIDE DEF c2
<1>23. \A p \in Page \ (old \cup got) : c2[p] = c[p]
  <2>1. \A i \in D + 1 .. L : row[i] \in old \cup got
    BY <1>15, <1>16, <1>20
  <2> QED BY <2>1, <1>22
<1>24. \A n \in 0 .. to : Prefix(w.dev, n) = Prefix(text, n)
  <2>1. Len(text) \in Nat
    BY <1>2, PrefixLen
  <2>2. \A n \in 0 .. to : n \in 0 .. Len(text)
    BY <2>1, <1>2
  <2> QED BY <2>2, <1>1, <1>2, PrefixSame
<1>25. RowShape(w)
  <2>1. IsPrefixOf(w.lock, w.dev)
    BY <1>1, <1>2, PrefixTrans
  <2>2. to <= Len(w.dev) /\ w.protected <= to
    <3>1. Len(text) \in Nat /\ Len(w.dev) \in Nat /\ Len(text) <= Len(w.dev)
      BY <1>1, <1>2, PrefixLen
    <3> QED BY <3>1, <1>1, <1>2
  <2>3. row \in Seq(Page) /\ Len(row) = CeilPages(w.committed)
    BY <1>1, <1>12 DEF L
  <2> QED BY <2>1, <2>2, <2>3, <1>1, <1>2 DEF RowShape, row
<1>26. Resident(t, w)
  <2>1. \A i \in 1 .. P : i \in 1 .. H
    BY <1>6, <1>7, <1>8
  <2>2. \A i \in 1 .. P : row[i] = t.value[Prefix(q.lock, i * PageSize)]
    BY <2>1, <1>3, <1>12 DEF P
  <2> QED BY <2>2, <1>1 DEF Resident, row, P
<1>27. Written(c2, w)
  <2> SUFFICES ASSUME NEW i \in P + 1 .. L PROVE c2[row[i]] = Shown(w, i)
    BY <1>1, <1>12 DEF Written, row, P
  <2>1. i \in Nat /\ i * PageSize \in Nat
    <3>1. i \in Nat
      BY <1>6, <1>7
    <3> QED BY <3>1, MulFacts
  <2> DEFINE n == IF i * PageSize <= to THEN i * PageSize ELSE to
  <2>2. n \in 0 .. to /\ Shown(w, i) = Prefix(w.dev, n)
    BY <2>1, <1>1, <1>2 DEF Shown
  <2>3. Shown(w, i) = Prefix(text, n)
    BY <2>2, <1>24
  <2>4. CASE i \in D + 1 .. L
    BY <2>3, <2>4, <1>21
  <2>5. CASE i \notin D + 1 .. L
    <3>1. i <= D /\ i \in P + 1 .. H
      BY <2>5, <2>1, <1>6, <1>7, <1>8
    <3>2. r \in HoldersIn(rq)
      BY <3>1, <1>6, <1>7, <1>9
    <3>3. i * PageSize <= D * PageSize /\ D * PageSize <= from /\ D * PageSize \in Nat
      BY <3>1, <2>1, <1>2, <1>6, MulFacts, DivFacts DEF D
    <3>4. i * PageSize <= from
      BY <3>3, <2>1, <1>2
    <3>5. RowShape(q) /\ Written(c, q)
      BY <3>2, <1>5 DEF RowsOK, RowOK
    <3>6. c[q.row[i]] = Shown(q, i)
      <4>1. Len(q.row) = H
        BY <3>2, <1>3
      <4> QED BY <4>1, <3>1, <3>5 DEF Written, P
    <3>7. Shown(q, i) = Prefix(q.dev, i * PageSize)
      BY <3>2, <3>4, <1>3 DEF Shown
    <3>8. Prefix(q.dev, i * PageSize) = Prefix(text, i * PageSize)
      <4>1. q.dev \in Key /\ IsPrefixOf(text, q.dev)
        BY <3>2, <3>5, <1>3 DEF RowShape
      <4>2. i * PageSize \in 0 .. Len(text)
        <5>1. Len(text) \in Nat
          BY <1>2, PrefixLen
        <5> QED BY <5>1, <3>4, <2>1, <1>2
      <4> QED BY <4>1, <4>2, <1>2, PrefixSame
    <3>9. n = i * PageSize
      BY <3>4, <2>1, <1>2
    <3>10. i \in 1 .. H /\ row[i] = q.row[i] /\ row[i] \in Page
      <4>1. i \in 1 .. H /\ i \in 1 .. L
        BY <3>1, <1>6, <1>7, <1>8
      <4> QED BY <4>1, <3>2, <1>3, <1>12
    <3>11. \A j \in D + 1 .. L : row[j] # row[i]
      BY <2>5, <1>19, <1>20
    <3>12. c2[row[i]] = c[row[i]]
      BY <3>10, <3>11, <1>22
    <3> QED BY <3>6, <3>7, <3>8, <3>9, <3>10, <3>12, <2>3
  <2> QED BY <2>4, <2>5
<1>28. RowOK(t, c2, rq2[r])
  BY <1>25, <1>26, <1>27 DEF RowOK
<1>29. Own(rq2[r]) = old \cup got /\ got \in SUBSET Page /\ got \cap Used(t, rq) = {}
       /\ old = (IF r \in HoldersIn(rq) THEN Own(rq[r]) ELSE {})
  BY <1>16, <1>17 DEF old
<1>30. rq2[r].phase = "running" /\ rq2[r].lock = rq[r].lock
  BY <1>1
<1> HIDE DEF q, w
<1>31. Pools(t, Take(f, got), c2, rq2)
  <2>1. r \in LockedIn(rq) /\ OnlyAt(rq, rq2, r) /\ Pools(t, f, c, rq)
    BY <1>1
  <2>2. old = (IF r \in HoldersIn(rq) THEN Own(rq[r]) ELSE {})
    BY <1>29
  <2>3. got \in SUBSET Page /\ got \cap Used(t, rq) = {}
    BY <1>29
  <2>4. Own(rq2[r]) = old \cup got
    BY <1>29
  <2>5. Own(rq2[r]) = old \cup got /\ \A p \in Page \ (old \cup got) : c2[p] = c[p]
    BY <2>4, <1>23
  <2>6. rq2[r].phase = "running" /\ rq2[r].lock = rq[r].lock
    BY <1>30
  <2>7. RowOK(t, c2, rq2[r])
    BY <1>28
  <2> DEFINE F == Take(f, got)
  <2>8. F = Take(f, got)
    OBVIOUS
  <2> HIDE DEF F
  <2>9. Pools(t, F, c2, rq2)
    BY ONLY <2>1, <2>2, <2>3, <2>5, <2>6, <2>7, <2>8, PoolsGrow
  <2> QED BY <2>8, <2>9
<1> QED BY <1>31 DEF c2, got, row, w

\* What is left to show of a launch: the record and the pools it makes.
LEMMA LaunchMemory ==
  ASSUME Control, Memory, NEW r \in Req, r \in todo, NEW kind \in {"extend", "decode"}, NEW tok,
         \/ pc = "extend" /\ kind = "extend"
         \/ pc = "alloc_decode" /\ kind = "decode",
         AddToBatch(kind, r, tok), UNCHANGED <<running, chunked, rem_chunk, offset, last_batch>>,
         OnlyAt(req, req', r), req'[r].out = req[r].out, req'[r].max_new = req[r].max_new,
         RecordOK(req'[r]), PoolsOK',
         req'[r].extend_end <= req'[r].committed,
         r = chunked => req'[r].committed = req'[r].extend_end,
         r # chunked => Len(req'[r].dev) = req'[r].committed + 1
  PROVE  Memory'
<1>1. pc \in {"extend", "alloc_decode"}
  OBVIOUS
<1>2. /\ ReqsOf(batch)' = ReqsOf(batch) \cup {r} /\ batch'.kind = kind
      /\ \/ todo # {r} /\ todo' = todo \ {r} /\ pc' = pc
         \/ /\ todo = {r} /\ pc' = "process"
            /\ todo' = ReqsOf(IF Overlap THEN last_batch ELSE batch')
  BY <1>1, LaunchFacts
<1>3. \A x \in Req : x # r => req'[x] = req[x]
  BY DEF OnlyAt
<1>4. \A x \in Req : RecordOK(req'[x])
  BY <1>3 DEF Memory, Sizes
<1>5. ~Extending(r)' /\ \A x \in Req : x # r => (Extending(x)' <=> Extending(x))
  BY <1>2 DEF Extending
<1>6. ASSUME NEW x \in Req PROVE StageOK(x)'
  <2>1. CASE x = r
    <3>1. pc' # "admit"
      BY <1>2
    <3> QED BY <2>1, <3>1, <1>5 DEF StageOK
  <2>2. CASE x # r
    <3>1. StageOK(x) /\ req'[x] = req[x] /\ (Extending(x)' <=> Extending(x)) /\ pc' # "admit"
          /\ pc # "crashed"
      BY <2>2, <1>2, <1>3, <1>5 DEF Memory, Sizes
    <3> QED BY <3>1 DEF StageOK
  <2> QED BY <2>1, <2>2
<1>7. Budget'
  BY <1>2 DEF Memory, Budget
<1>8. ASSUME NEW x \in Req, HoldsKV(x)' PROVE Kept(x)'
  <2>1. CASE x = r
    <3>1. pc = "alloc_decode" => r \in running
      BY DEF Control, Placed, TodoIs
    <3> QED BY <2>1, <3>1, <1>2 DEF Kept
  <2>2. CASE x # r
    <3>1. req'[x] = req[x] /\ HoldsKV(x)
      BY <2>2, <1>3, <1>8 DEF HoldsKV
    <3>2. Kept(x)
      BY <3>1, <1>1 DEF Memory, NoneLost
    <3>3. CASE LastResult(x)
      <4>1. LastResult(x)'
        BY <3>3, <3>1, <1>2 DEF LastResult, NextOutputFinishesByLength, ReqsOf
      <4> QED BY <4>1 DEF Kept
    <3>4. CASE x \in ReqsOf(batch) /\ batch.kind = "extend"
      <4>1. kind = "extend"
        BY <3>4 DEF Control, Placed, BatchesAre
      <4> QED BY <4>1, <3>4, <1>2 DEF Kept
    <3>5. CASE x \in running \/ x = chunked \/ Extending(x)
      BY <3>5, <2>2, <1>5 DEF Kept
    <3> QED BY <3>2, <3>3, <3>4, <3>5, <1>1 DEF Kept
  <2> QED BY <2>1, <2>2
<1>9. NoneLost'
  <2>1. last_batch'.chunked \notin running' /\ pc' # "recv"
    BY <1>2 DEF Memory, NoneLost
  <2> QED BY <2>1, <1>8 DEF NoneLost
<1> QED BY <1>4, <1>6, <1>7, <1>9 DEF Memory, Sizes

\* The allocator comes short: the eviction for the batch is all that happened.
LEMMA CrashMemory ==
  ASSUME Control, Memory, pc \in {"extend", "alloc_decode"}, Crash,
         NEW num, NEW e \in Evictions(tree, free, num), tree' = e.tree, free' = e.free
  PROVE  Memory' /\ PathsStay
<1>1. /\ pc' = "crashed"
      /\ UNCHANGED <<req, content, todo, running, chunked, rem_chunk, offset, batch, last_batch>>
  BY DEF Crash, loopVars, passVars, batchVars
<1>2. Pools(tree, free, content, req)
  BY DEF Memory, PoolsOK
<1>3. Pools(e.tree, e.free, content, req) /\ Stable(tree, e.tree, LockedIn(req), LockOf(req))
  BY <1>2, PoolsEvictScrub
<1>4. PoolsOK'
  BY <1>1, <1>3 DEF PoolsOK
<1>5. PathsStay
  <2>1. Locked = LockedIn(req)
    BY DEF Locked, LockedIn
  <2> QED BY <1>3, <2>1, StablePaths
<1>6. \A x \in Req : RecordOK(req'[x]) /\ StageOK(x)'
  BY <1>1 DEF Memory, Sizes, StageOK, Extending
<1>7. Budget' /\ NoneLost'
  BY <1>1 DEF Memory, Budget, NoneLost
<1> QED BY <1>4, <1>5, <1>6, <1>7 DEF Memory, Sizes

\* A key with one token appended.
LEMMA AppendKey ==
  ASSUME NEW a \in Key, NEW tok \in Token
  PROVE  /\ Append(a, tok) \in Key /\ Len(Append(a, tok)) = Len(a) + 1 /\ Len(a) \in Nat
         /\ IsPrefixOf(a, Append(a, tok))
<1>1. Append(a, tok) \in Key /\ Len(Append(a, tok)) = Len(a) + 1 /\ Len(a) \in Nat
  BY DEF Key
<1>2. \A i \in 1 .. Len(a) : Append(a, tok)[i] = a[i]
  BY DEF Key
<1> QED BY <1>1, <1>2 DEF IsPrefixOf

\* The lengths of a request that is locked.
LEMMA LockedRecord ==
  ASSUME Control, Memory, NEW r \in Req, req[r].phase \in {"admitted", "running"}
  PROVE  /\ Fill(r) \in Key /\ Len(Fill(r)) \in Nat /\ Fill(r) = req[r].prompt \o req[r].out
         /\ req[r].protected \in Nat /\ req[r].prefix \in Nat /\ req[r].extend_end \in Nat
         /\ Whole(req[r].protected) /\ req[r].protected <= req[r].prefix
         /\ req[r].prefix <= req[r].extend_end /\ req[r].extend_end <= Len(Fill(r))
         /\ req[r].lock \in Key /\ Len(req[r].lock) = req[r].protected
         /\ IsPrefixOf(req[r].lock, Fill(r)) /\ req[r].lock = Prefix(Fill(r), req[r].protected)
         /\ r \in LockedIn(req)
         /\ DOMAIN req = Req /\ DOMAIN req[r] = ReqFields
<1>1. RecordOK(req[r]) /\ ControlOK(req[r]) /\ DOMAIN req = Req /\ DOMAIN req[r] = ReqFields
  BY DEF Memory, Sizes, Control, RequestsOK, LoopInv, TypeOK, ControlOK
<1>2. Fill(r) \in Key /\ Len(Fill(r)) \in Nat /\ Fill(r) = req[r].prompt \o req[r].out
  BY <1>1, ConcatKeys, PrefixLen DEF ControlOK, Fill
<1>3. /\ req[r].protected \in Nat /\ req[r].prefix \in Nat /\ req[r].extend_end \in Nat
      /\ Whole(req[r].protected) /\ req[r].protected <= req[r].prefix
      /\ req[r].prefix <= req[r].extend_end /\ req[r].extend_end <= Len(Fill(r))
      /\ req[r].lock = Prefix(Fill(r), req[r].protected)
  BY <1>1, <1>2 DEF RecordOK
<1> DEFINE F == Fill(r)
           p == req[r].protected
           k == req[r].lock
<1>4. F \in Key /\ Len(F) \in Nat /\ k = Prefix(F, p)
  BY <1>2, <1>3
<1>6. p \in 0 .. Len(F)
  <2> DEFINE L == Len(F)
  <2>1. L \in Nat /\ p \in Nat /\ req[r].prefix \in Nat /\ req[r].extend_end \in Nat
        /\ p <= req[r].prefix /\ req[r].prefix <= req[r].extend_end /\ req[r].extend_end <= L
    BY <1>2, <1>3
  <2> HIDE DEF L, F, p
  <2>2. p \in 0 .. L
    BY <2>1
  <2> QED BY <2>2 DEF L
<1> HIDE DEF F, p, k
<1>7. k \in Key /\ Len(k) = p /\ IsPrefixOf(k, F)
  BY <1>4, <1>6, PrefixFacts
<1>5. req[r].lock \in Key /\ Len(req[r].lock) = req[r].protected /\ IsPrefixOf(req[r].lock, Fill(r))
  BY <1>7 DEF F, p, k
<1> QED BY <1>1, <1>2, <1>3, <1>5 DEF LockedIn

\* The row a forward starts from: the request's own, or the tree's pages of the
\* prefix it matched, which the eviction for the batch leaves where they are.
HeldBy(r) ==
  IF HoldsKV(r) THEN req[r].row
  ELSE [i \in 1 .. req[r].prefix \div PageSize |-> tree.value[Prefix(Fill(r), i * PageSize)]]

HeldOK(s, r, held) ==
  /\ held \in Seq(Page) /\ Len(held) = CeilPages(req[r].prefix)
  /\ \A i \in 1 .. req[r].protected \div PageSize :
       held[i] = s.value[Prefix(req[r].lock, i * PageSize)]
  /\ r \in HoldersIn(req) => held = req[r].row /\ req[r].committed = req[r].prefix
                             /\ IsPrefixOf(Fill(r), req[r].dev)
  /\ r \notin HoldersIn(req) => req[r].prefix = req[r].protected

\* The pages a forward starts from are still there after the eviction for
\* its batch.
LEMMA HeldFacts ==
  ASSUME Control, Memory, NEW r \in Req, r \in todo, pc = "extend",
         NEW s, NEW f, NEW c, Pools(s, f, c, req), Stable(tree, s, LockedIn(req), LockOf(req))
  PROVE  HeldOK(s, r, HeldBy(r))
<1> DEFINE q == req[r]
           F == Fill(r)
           P == q.protected \div PageSize
<1>1. q.phase \in {"admitted", "running"}
  BY AtBuild DEF HoldsKV
<1>2. /\ F \in Key /\ Len(F) \in Nat
      /\ q.protected \in Nat /\ q.prefix \in Nat /\ Whole(q.protected)
      /\ q.lock \in Key /\ Len(q.lock) = q.protected /\ IsPrefixOf(q.lock, F) /\ r \in LockedIn(req)
  BY <1>1, LockedRecord
<1>3. RecordOK(q) /\ StageOK(r) /\ Extending(r)
  BY DEF Memory, Sizes, Extending
<1>4. CASE HoldsKV(r)
  <2>1. r \in HoldersIn(req) /\ q.phase = "running"
    BY <1>4 DEF HoldersIn, HoldsKV
  <2>2. RowShape(q) /\ Resident(s, q)
    BY <2>1 DEF Pools, RowsOK, RowOK
  <2>3. q.committed = q.prefix
    BY <2>1, <1>3 DEF StageOK
  <2>4. IsPrefixOf(F, q.dev)
    BY <1>4, FillIsPrefix
  <2>5. HeldBy(r) = q.row
    BY <1>4 DEF HeldBy
  <2> QED BY <2>1, <2>2, <2>3, <2>4, <2>5 DEF HeldOK, RowShape, Resident
<1>5. CASE ~HoldsKV(r)
  <2>1. q.prefix = q.protected /\ r \notin HoldersIn(req)
    BY <1>1, <1>3, <1>5 DEF RecordOK, HoldsKV, HoldersIn
  <2>2. P \in Nat /\ CeilPages(q.prefix) = P
    BY <2>1, <1>2, CeilFacts
  <2>3. HeldBy(r) = [i \in 1 .. P |-> tree.value[Prefix(F, i * PageSize)]]
    BY <2>1, <1>5 DEF HeldBy
  <2>4. Sound(tree, LockedIn(req), LockOf(req)) /\ WellFormed(tree)
    BY DEF Memory, PoolsOK, Pools, Sound
  <2>5. LockOf(req)[r] = q.lock
    BY DEF LockOf
  <2> HIDE DEF F
  <2>6. ASSUME NEW i \in 1 .. P
        PROVE  /\ tree.value[Prefix(F, i * PageSize)] \in Page
               /\ tree.value[Prefix(F, i * PageSize)] = s.value[Prefix(q.lock, i * PageSize)]
    <3> DEFINE k == Prefix(q.lock, i * PageSize)
    <3>1. i \in 1 .. Len(LockOf(req)[r]) \div PageSize
      BY <2>5, <1>2
    <3>2. k \in Cached(tree) /\ IsPrefixOf(k, q.lock) /\ Len(k) = i * PageSize
      BY <3>1, <2>4, <2>5, <1>2, LockedPath
    <3>3. Prefix(F, i * PageSize) = k
      <4>1. i * PageSize \in 0 .. Len(q.lock)
        <5>1. k \in Key
          BY <3>2, <2>4, WellFormedKeys
        <5> HIDE DEF k
        <5>2. Len(k) \in Nat /\ Len(k) <= Len(q.lock)
          BY <5>1, <3>2, <1>2, PrefixLen
        <5> QED BY <5>2, <3>2, <1>2
      <4> QED BY <4>1, <1>2, PrefixSame
    <3>4. s.value[k] = tree.value[k]
      BY <3>2, <2>5, <1>2 DEF Stable
    <3>5. tree.value[k] \in Page
      BY <3>2, <2>4, TreePagesArePages
    <3> QED BY <3>3, <3>4, <3>5
  <2> DEFINE held == HeldBy(r)
  <2>7. held \in [1 .. P -> Page]
    BY <2>3, <2>6
  <2>8. \A i \in 1 .. P : held[i] = s.value[Prefix(q.lock, i * PageSize)]
    BY <2>3, <2>6
  <2> HIDE DEF held
  <2>9. held \in Seq(Page) /\ Len(held) = P
    BY <2>7, <2>2
  <2>10. HeldOK(s, r, held)
    BY <2>1, <2>2, <2>8, <2>9 DEF HeldOK
  <2> QED BY <2>10 DEF held
<1> QED BY <1>4, <1>5

\* The forward of a request after the eviction e: the pages of new are the only
\* ones that leave the free list, and the row shows the request's own text.
GrownBy(e, r, from, to, text, new, need) ==
  /\ tree' = e.tree
  /\ free' = Take(e.free, {new[i] : i \in 1 .. need})
  /\ content' = Write(Scrub(content, e.gone), req'[r].row, text, from, to)

\* A forward keeps the pools and the locked paths, its eviction included.
LEMMA GrowPools ==
  ASSUME Control, Memory, NEW r \in Req, NEW num, NEW e \in Evictions(tree, free, num),
         NEW held, NEW from, NEW to, NEW text, NEW new, NEW need,
         GrownBy(e, r, from, to, text, new, need), req[r].phase \in {"admitted", "running"},
         req'[r].lock = req[r].lock,
         GrowCase(e.tree, e.free, Scrub(content, e.gone), req, r, held, from, to, text, new, need, req')
  PROVE  PoolsOK' /\ PathsStay
<1> DEFINE rq2 == req'
           c1 == Scrub(content, e.gone)
<1>1. GrowCase(e.tree, e.free, c1, req, r, held, from, to, text, new, need, rq2)
  OBVIOUS
<1> HIDE DEF rq2, c1
<1>2. Pools(e.tree, Take(e.free, {new[i] : i \in 1 .. need}), Write(c1, rq2[r].row, text, from, to), rq2)
  BY <1>1, GrowStep
<1>3. PoolsOK'
  BY <1>2 DEF PoolsOK, GrownBy, rq2, c1
<1>4. Stable(tree, e.tree, LockedIn(req), LockOf(req))
  BY PoolsEvictScrub DEF Memory, PoolsOK
<1>5. Locked = LockedIn(req) /\ tree' = e.tree
  BY DEF Locked, LockedIn, GrownBy
<1> QED BY <1>3, <1>4, <1>5, StablePaths

\* The extend of one request keeps the invariant.
LEMMA ExtendMemory ==
  ASSUME Control, Memory, NEW r \in Req, Extend(r)
  PROVE  Memory' /\ PathsStay
<1> DEFINE q == req[r]
           F == Fill(r)
           need == CeilPages(q.extend_end) - CeilPages(q.prefix)
           held == HeldBy(r)
           num == ExtendDemand
<1>1. pc = "extend" /\ r \in todo
  BY DEF Extend
<1>2. PICK e \in Evictions(tree, free, num) :
        /\ tree' = e.tree
        /\ \/ free' = e.free /\ Crash
           \/ \E new \in {AllocPages(e.free, need)}, tok \in Sampled :
                /\ ~(need > Cardinality(FreePages(e.free)))
                /\ free' = Take(e.free, {new[i] : i \in 1 .. need})
                /\ content' = Write(Scrub(content, e.gone), held \o new, F, q.prefix, q.extend_end)
                /\ req' = [req EXCEPT ![r] =
                     [@ EXCEPT !.phase = "running", !.row = held \o new, !.committed = q.extend_end,
                               !.retracted = FALSE,
                               !.middle = IF r = chunked THEN q.middle + 1 ELSE q.middle,
                               !.dev = IF r = chunked THEN F ELSE Append(F, tok)]]
                /\ AddToBatch("extend", r, tok)
                /\ UNCHANGED <<loopVars, passVars, last_batch>>
  BY DEF Extend, HeldBy
<1> HIDE DEF num
<1>3. CASE free' = e.free /\ Crash
  BY <1>1, <1>2, <1>3, CrashMemory
<1>4. CASE ~(free' = e.free /\ Crash)
  <2>1. PICK new \in {AllocPages(e.free, need)}, tok \in Sampled :
                /\ ~(need > Cardinality(FreePages(e.free)))
                /\ free' = Take(e.free, {new[i] : i \in 1 .. need})
                /\ content' = Write(Scrub(content, e.gone), held \o new, F, q.prefix, q.extend_end)
                /\ req' = [req EXCEPT ![r] =
                     [@ EXCEPT !.phase = "running", !.row = held \o new, !.committed = q.extend_end,
                               !.retracted = FALSE,
                               !.middle = IF r = chunked THEN q.middle + 1 ELSE q.middle,
                               !.dev = IF r = chunked THEN F ELSE Append(F, tok)]]
                /\ AddToBatch("extend", r, tok)
                /\ UNCHANGED <<loopVars, passVars, last_batch>>
    BY <1>2, <1>4
  <2> DEFINE row == held \o new
             dev == IF r = chunked THEN F ELSE Append(F, tok)
             mid == IF r = chunked THEN q.middle + 1 ELSE q.middle
             c1 == Scrub(content, e.gone)
  <2>2. q.phase \in {"admitted", "running"}
    BY <1>1, AtBuild DEF HoldsKV
  <2>3. /\ F \in Key /\ Len(F) \in Nat /\ F = q.prompt \o q.out
        /\ q.protected \in Nat /\ q.prefix \in Nat /\ q.extend_end \in Nat
        /\ Whole(q.protected) /\ q.protected <= q.prefix
        /\ q.prefix <= q.extend_end /\ q.extend_end <= Len(F)
        /\ q.lock \in Key /\ Len(q.lock) = q.protected /\ IsPrefixOf(q.lock, F)
        /\ r \in LockedIn(req) /\ DOMAIN req = Req /\ DOMAIN q = ReqFields
    BY <2>2, LockedRecord
  <2>4. tok \in Token
    BY PromptsAssumption
  <2> HIDE DEF F
  <2>5. dev \in Key /\ IsPrefixOf(F, dev) /\ (r # chunked => Len(dev) = Len(F) + 1)
    BY <2>3, <2>4, AppendKey, PrefixRefl
  <2> HIDE DEF row, dev, mid, held, need, c1
  <2>6. /\ req' = [req EXCEPT ![r] =
                     [@ EXCEPT !.phase = "running", !.row = row, !.committed = q.extend_end,
                               !.retracted = FALSE, !.middle = mid, !.dev = dev]]
        /\ content' = Write(c1, row, F, q.prefix, q.extend_end)
    BY <2>1 DEF row, dev, mid, c1
  <2> DEFINE w == [q EXCEPT !.phase = "running", !.row = row, !.committed = q.extend_end,
                            !.retracted = FALSE, !.middle = mid, !.dev = dev]
  <2>7. req' = [req EXCEPT ![r] = w]
    BY <2>6
  <2>8. /\ w.phase = "running" /\ w.row = row /\ w.committed = q.extend_end /\ w.dev = dev
        /\ w.lock = q.lock /\ w.protected = q.protected /\ w.prefix = q.prefix
        /\ w.extend_end = q.extend_end /\ w.prompt = q.prompt /\ w.out = q.out
        /\ w.max_new = q.max_new
    BY <2>3 DEF ReqFields
  <2> HIDE DEF w
  <2>9. req'[r] = w /\ OnlyAt(req, req', r)
    BY <2>7, <2>3 DEF OnlyAt
  <2>10. CeilPages(q.extend_end) \in Nat /\ CeilPages(q.prefix) \in Nat
         /\ CeilPages(q.prefix) <= CeilPages(q.extend_end)
    BY <2>3, CeilFacts, CeilMono
  <2>11. need \in Nat
    BY <2>10 DEF need
  <2>12. need <= Cardinality(FreePages(e.free))
    <3>1. FreePages(e.free) \subseteq Page
      BY DEF FreePages
    <3>2. Cardinality(FreePages(e.free)) \in Nat
      BY <3>1, PageAssumption, FS_Subset, FS_CardinalityType
    <3> QED BY <3>2, <2>1, <2>11
  <2>13. /\ new \in [1 .. need -> FreePages(e.free)]
         /\ \A i, j \in 1 .. need : new[i] = new[j] => i = j
    BY <2>1, <2>11, <2>12, AllocFacts
  <2>14. Pools(e.tree, e.free, c1, req) /\ Stable(tree, e.tree, LockedIn(req), LockOf(req))
    BY PoolsEvictScrub DEF Memory, PoolsOK, c1
  <2>15. HeldOK(e.tree, r, held)
    BY <1>1, <2>14, HeldFacts DEF held
  <2>16. GrowCase(e.tree, e.free, c1, req, r, held, q.prefix, q.extend_end, F, new, need, req')
    <3>1. /\ req'[r].phase = "running" /\ req'[r].lock = q.lock /\ req'[r].protected = q.protected
          /\ req'[r].dev \in Key /\ IsPrefixOf(F, req'[r].dev) /\ req'[r].committed = q.extend_end
          /\ req'[r].row = held \o new
      BY <2>5, <2>8, <2>9 DEF row
    <3>2. /\ held \in Seq(Page) /\ Len(held) = CeilPages(q.prefix)
          /\ \A i \in 1 .. q.protected \div PageSize :
               held[i] = e.tree.value[Prefix(q.lock, i * PageSize)]
          /\ r \in HoldersIn(req) => held = q.row /\ q.committed = q.prefix /\ IsPrefixOf(F, q.dev)
          /\ r \notin HoldersIn(req) => q.prefix = q.protected
      BY <2>15 DEF HeldOK, F
    <3>3. need = CeilPages(q.extend_end) - CeilPages(q.prefix)
      BY DEF need
    <3> HIDE DEF q
    <3> QED BY <3>1, <3>2, <3>3, <2>3, <2>9, <2>13, <2>14 DEF GrowCase, q
  <2>17. GrownBy(e, r, q.prefix, q.extend_end, F, new, need)
    BY <1>2, <2>1, <2>6, <2>8, <2>9 DEF GrownBy, c1
  <2>18. PoolsOK' /\ PathsStay
    <3>1. req'[r].lock = req[r].lock
      BY <2>8, <2>9
    <3> QED BY <3>1, <2>2, <2>16, <2>17, GrowPools DEF c1
  <2>19. RecordOK(q) /\ StageOK(r) /\ Extending(r)
    BY <1>1 DEF Memory, Sizes, Extending
  <2>20. RecordOK(req'[r])
    BY <2>2, <2>8, <2>9, <2>19 DEF RecordOK
  <2>21. r # chunked => Len(dev) = q.extend_end + 1
    BY <2>3, <2>5, <2>19 DEF StageOK
  <2>22. /\ req'[r].out = req[r].out /\ req'[r].max_new = req[r].max_new
         /\ req'[r].extend_end <= req'[r].committed
         /\ r = chunked => req'[r].committed = req'[r].extend_end
         /\ r # chunked => Len(req'[r].dev) = req'[r].committed + 1
    BY <2>3, <2>8, <2>9, <2>21
  <2>23. AddToBatch("extend", r, tok) /\ UNCHANGED <<running, chunked, rem_chunk, offset, last_batch>>
    BY <2>1 DEF loopVars, passVars
  <2>24. Memory'
    BY <1>1, <2>9, <2>18, <2>20, <2>22, <2>23, LaunchMemory
  <2> QED BY <2>18, <2>24
<1> QED BY <1>3, <1>4

\* A decode step takes a page when the pages of the request are full.
LEMMA DecodeNeeds ==
  ASSUME NEW n \in Nat
  PROVE  /\ (IF n % PageSize = 0 THEN 1 ELSE 0) = CeilPages(n + 1) - CeilPages(n)
         /\ (IF n % PageSize = 0 THEN 1 ELSE 0) \in Nat
<1> DEFINE d == n \div PageSize
           m == n % PageSize
           e == (n + PageSize) \div PageSize
<1>0. PageSize \in Nat /\ PageSize > 0
  BY PageSizeAssumption
<1>1. n = d * PageSize + m /\ m \in 0 .. PageSize - 1 /\ d \in Nat
  BY <1>0, SMTT(60)
<1>2. n + PageSize \in Nat
  BY <1>0
<1>3. e \in Nat /\ e * PageSize <= n + PageSize /\ n + PageSize < e * PageSize + PageSize
      /\ e * PageSize \in Nat
  BY <1>2, DivFacts
<1> HIDE DEF d, e, m
<1>4. d * PageSize \in Nat /\ (d + 1) * PageSize = d * PageSize + PageSize
      /\ (d + 1) + 1 \in Nat /\ d + 1 \in Nat
  BY <1>1, MulFacts
<1>5. ((d + 1) + 1) * PageSize = (d + 1) * PageSize + PageSize
  BY <1>4, MulFacts
<1>6. e + 1 \in Nat /\ (e + 1) * PageSize = e * PageSize + PageSize
  BY <1>3, MulFacts
<1>7. CeilPages(n + 1) = e
  <2>1. n + 1 + PageSize - 1 = n + PageSize
    BY <1>0
  <2> QED BY <2>1 DEF CeilPages, e
<1>8. CeilPages(n) = IF Whole(n) THEN d ELSE d + 1
  BY CeilFacts DEF d
<1>9. Whole(n) <=> m = 0
  <2>1. Whole(n) <=> d * PageSize = n
    BY DEF Whole, AlignDown, d
  <2> QED BY <2>1, <1>0, <1>1, <1>4
<1>10. e * PageSize < ((d + 1) + 1) * PageSize /\ (d + 1) * PageSize < (e + 1) * PageSize
  BY <1>0, <1>1, <1>3, <1>4, <1>5, <1>6
<1>11. e < (d + 1) + 1 /\ d + 1 < e + 1
  BY <1>3, <1>4, <1>6, <1>10, MulFacts
<1>12. e = d + 1
  BY <1>1, <1>3, <1>11
<1> QED BY <1>1, <1>7, <1>8, <1>9, <1>12 DEF m

\* The decode of one request keeps the invariant.
LEMMA DecodeMemory ==
  ASSUME Control, Memory, NEW r \in Req, Decode(r)
  PROVE  Memory' /\ PathsStay
<1> DEFINE q == req[r]
           need == IF q.committed % PageSize = 0 THEN 1 ELSE 0
           num == DecodeDemand
<1>1. pc = "alloc_decode" /\ r \in todo
  BY DEF Decode
<1>2. PICK e \in Evictions(tree, free, num) :
        /\ tree' = e.tree
        /\ \/ free' = e.free /\ Crash
           \/ \E new \in {AllocPages(e.free, need)}, tok \in Sampled :
                /\ ~(need > Cardinality(FreePages(e.free)))
                /\ free' = Take(e.free, {new[i] : i \in 1 .. need})
                /\ content' = Write(Scrub(content, e.gone), q.row \o new, q.dev,
                                    q.committed, q.committed + 1)
                /\ req' = [req EXCEPT ![r] =
                     [@ EXCEPT !.row = q.row \o new, !.committed = q.committed + 1,
                               !.dev = Append(q.dev, tok)]]
                /\ AddToBatch("decode", r, tok)
                /\ UNCHANGED <<loopVars, passVars, last_batch>>
  BY DEF Decode
<1> HIDE DEF num
<1>3. CASE free' = e.free /\ Crash
  BY <1>1, <1>2, <1>3, CrashMemory
<1>4. CASE ~(free' = e.free /\ Crash)
  <2>1. PICK new \in {AllocPages(e.free, need)}, tok \in Sampled :
                /\ ~(need > Cardinality(FreePages(e.free)))
                /\ free' = Take(e.free, {new[i] : i \in 1 .. need})
                /\ content' = Write(Scrub(content, e.gone), q.row \o new, q.dev,
                                    q.committed, q.committed + 1)
                /\ req' = [req EXCEPT ![r] =
                     [@ EXCEPT !.row = q.row \o new, !.committed = q.committed + 1,
                               !.dev = Append(q.dev, tok)]]
                /\ AddToBatch("decode", r, tok)
                /\ UNCHANGED <<loopVars, passVars, last_batch>>
    BY <1>2, <1>4
  <2> DEFINE row == q.row \o new
             dev == Append(q.dev, tok)
             to == q.committed + 1
             c1 == Scrub(content, e.gone)
  <2>2. HoldsKV(r) /\ q.phase = "running" /\ r \in HoldersIn(req) /\ chunked = NoReq
    BY <1>1, AtBuild DEF HoldsKV, HoldersIn, Control, Placed, TodoIs, ChunkIs
  <2>3. r # chunked
    BY <2>2, ReqAssumption
  <2>4. r \in LockedIn(req) /\ DOMAIN req = Req /\ DOMAIN q = ReqFields
    BY <2>2, LockedRecord
  <2>5. Pools(e.tree, e.free, c1, req)
    BY PoolsEvictScrub DEF Memory, PoolsOK
  <2>6. RowShape(q) /\ Resident(e.tree, q)
    BY <2>2, <2>5 DEF Pools, RowsOK, RowOK
  <2>7. /\ q.row \in Seq(Page) /\ q.lock \in Key /\ q.dev \in Key
        /\ q.protected \in Nat /\ q.committed \in Nat
        /\ Whole(q.protected) /\ Len(q.lock) = q.protected
        /\ q.protected <= q.committed /\ q.committed <= Len(q.dev)
        /\ Len(q.row) = CeilPages(q.committed)
        /\ IsPrefixOf(q.lock, q.dev)
    BY <2>6 DEF RowShape
  <2>8. RecordOK(q) /\ StageOK(r) /\ ~Extending(r)
    BY <1>1 DEF Memory, Sizes, Extending
  <2>9. Len(q.dev) = to /\ q.extend_end <= q.committed
    BY <2>2, <2>3, <2>8, <1>1 DEF StageOK
  <2>10. tok \in Token
    BY PromptsAssumption
  <2>11. dev \in Key /\ IsPrefixOf(q.dev, dev) /\ Len(dev) = to + 1
    BY <2>7, <2>9, <2>10, AppendKey
  <2>12. to \in Nat /\ q.committed <= to
    BY <2>7
  <2>13. need \in Nat /\ need = CeilPages(to) - CeilPages(q.committed)
    BY <2>7, DecodeNeeds
  <2> HIDE DEF row, dev, c1, need, to
  <2>14. /\ req' = [req EXCEPT ![r] = [@ EXCEPT !.row = row, !.committed = to, !.dev = dev]]
         /\ content' = Write(c1, row, q.dev, q.committed, to)
    BY <2>1 DEF row, dev, c1, to
  <2> DEFINE w == [q EXCEPT !.row = row, !.committed = to, !.dev = dev]
  <2>15. req' = [req EXCEPT ![r] = w]
    BY <2>14
  <2>16. /\ w.phase = q.phase /\ w.row = row /\ w.committed = to /\ w.dev = dev
         /\ w.lock = q.lock /\ w.protected = q.protected /\ w.prefix = q.prefix
         /\ w.extend_end = q.extend_end /\ w.prompt = q.prompt /\ w.out = q.out
         /\ w.max_new = q.max_new
    BY <2>4 DEF ReqFields
  <2> HIDE DEF w
  <2>17. req'[r] = w /\ OnlyAt(req, req', r)
    BY <2>15, <2>4 DEF OnlyAt
  <2>18. need <= Cardinality(FreePages(e.free))
    <3>1. FreePages(e.free) \subseteq Page
      BY DEF FreePages
    <3>2. Cardinality(FreePages(e.free)) \in Nat
      BY <3>1, PageAssumption, FS_Subset, FS_CardinalityType
    <3> QED BY <3>2, <2>1, <2>13
  <2>19. /\ new \in [1 .. need -> FreePages(e.free)]
         /\ \A i, j \in 1 .. need : new[i] = new[j] => i = j
    BY <2>1, <2>13, <2>18, AllocFacts
  <2>20. GrowCase(e.tree, e.free, c1, req, r, q.row, q.committed, to, q.dev, new, need, req')
    <3>1. /\ req'[r].phase = "running" /\ req'[r].lock = q.lock /\ req'[r].protected = q.protected
          /\ req'[r].dev \in Key /\ IsPrefixOf(q.dev, req'[r].dev) /\ req'[r].committed = to
          /\ req'[r].row = q.row \o new
      BY <2>2, <2>11, <2>16, <2>17 DEF row
    <3>2. \A i \in 1 .. q.protected \div PageSize :
            q.row[i] = e.tree.value[Prefix(q.lock, i * PageSize)]
      BY <2>6 DEF Resident
    <3>3. to <= Len(q.dev) /\ IsPrefixOf(q.dev, q.dev)
      BY <2>7, <2>9, <2>12, PrefixRefl
    <3> HIDE DEF q
    <3> QED BY <3>1, <3>2, <3>3, <2>2, <2>4, <2>5, <2>7, <2>12, <2>13, <2>17, <2>19
            DEF GrowCase, q
  <2>21. GrownBy(e, r, q.committed, to, q.dev, new, need)
    BY <1>2, <2>1, <2>14, <2>16, <2>17 DEF GrownBy, c1
  <2>22. PoolsOK' /\ PathsStay
    <3>1. req'[r].lock = req[r].lock
      BY <2>16, <2>17
    <3> QED BY <3>1, <2>2, <2>20, <2>21, GrowPools DEF c1
  <2>23. RecordOK(req'[r])
    BY <2>2, <2>8, <2>16, <2>17 DEF RecordOK
  <2>24. req'[r].extend_end <= req'[r].committed
    <3>1. q.extend_end \in Nat
      BY <2>2, LockedRecord
    <3> QED BY <3>1, <2>7, <2>9, <2>12, <2>16, <2>17
  <2>25. /\ req'[r].out = req[r].out /\ req'[r].max_new = req[r].max_new
         /\ Len(req'[r].dev) = req'[r].committed + 1
    BY <2>11, <2>16, <2>17
  <2>26. AddToBatch("decode", r, tok) /\ UNCHANGED <<running, chunked, rem_chunk, offset, last_batch>>
    BY <2>1 DEF loopVars, passVars
  <2>27. Memory'
    BY <1>1, <2>3, <2>17, <2>22, <2>23, <2>24, <2>25, <2>26, LaunchMemory
  <2> QED BY <2>22, <2>27
<1> QED BY <1>3, <1>4

-----------------------------------------------------------------------------
(* Results *)

\* A result changes the record of one request and takes it off the list.
LEMMA ResultMemory ==
  ASSUME Control, Memory, NEW r \in Req, ProcessStep(r), OnlyAt(req, req', r), RecordOK(req'[r]),
         PoolsOK',
         req'[r].phase = "running" =>
           /\ req[r].phase = "running" /\ ~LastResult(r)
           /\ req'[r].committed = req[r].committed /\ req'[r].extend_end = req[r].extend_end
           /\ req'[r].dev = req[r].dev
  PROVE  Memory'
<1>1. /\ pc = "process" /\ pc' = "process" /\ r \in todo /\ todo' = todo \ {r}
      /\ UNCHANGED <<running, chunked, rem_chunk, offset, batch, last_batch>>
  BY DEF ProcessStep, loopVars, passVars, batchVars
<1>2. \A x \in Req : x # r => req'[x] = req[x]
  BY DEF OnlyAt
<1>3. \A x \in Req : RecordOK(req'[x])
  BY <1>2 DEF Memory, Sizes
<1>4. ASSUME NEW x \in Req PROVE StageOK(x)'
  <2>1. StageOK(x) /\ ~Extending(x) /\ ~Extending(x)'
    BY <1>1 DEF Memory, Sizes, Extending
  <2>2. CASE x = r
    BY <2>1, <2>2, <1>1 DEF StageOK
  <2>3. CASE x # r
    BY <2>1, <2>3, <1>1, <1>2 DEF StageOK
  <2> QED BY <2>2, <2>3
<1>5. Budget'
  BY <1>1 DEF Memory, Budget
<1>6. ASSUME NEW x \in Req, HoldsKV(x)' PROVE Kept(x)'
  <2>1. HoldsKV(x) /\ ~(x = r /\ LastResult(x))
    BY <1>2, <1>6 DEF HoldsKV
  <2>2. Kept(x)
    BY <2>1, <1>1 DEF Memory, NoneLost
  <2>3. CASE LastResult(x)
    <3>1. x # r /\ req'[x] = req[x]
      BY <2>1, <2>3, <1>2
    <3>2. LastResult(x)'
      BY <2>3, <3>1, <1>1 DEF LastResult, NextOutputFinishesByLength, ReqsOf
    <3> QED BY <3>2 DEF Kept
  <2>4. CASE ~LastResult(x)
    BY <2>2, <2>4, <1>1 DEF Kept, Extending, ReqsOf
  <2> QED BY <2>3, <2>4
<1>7. NoneLost'
  BY <1>1, <1>6 DEF Memory, NoneLost
<1> QED BY <1>3, <1>4, <1>5, <1>7 DEF Memory, Sizes

\* The record with the token of a result.
Committed(r, tok) == [req[r] EXCEPT !.out = Append(req[r].out, tok)]

\* The record with one output token more.
LEMMA CommittedRecord ==
  ASSUME Control, Memory, NEW r \in Req, HoldsKV(r), NEW tok \in Token, NEW q, q = Committed(r, tok)
  PROVE  /\ SameRow(q, req[r]) /\ ControlOK(q) /\ q.phase = "running"
         /\ q.out = Append(req[r].out, tok) /\ q.prompt = req[r].prompt /\ q.max_new = req[r].max_new
         /\ q.prefix = req[r].prefix /\ q.extend_end = req[r].extend_end
         /\ q.prompt \o q.out = Append(Fill(r), tok)
         /\ q.to_finish = req[r].to_finish
         /\ Len(q.out) <= q.max_new => RecordOK(q)
<1> DEFINE o == Append(req[r].out, tok)
           F == Fill(r)
<1>1. ControlOK(req[r]) /\ DOMAIN req[r] = ReqFields /\ req[r].phase = "running"
      /\ req[r].prompt \in Key /\ req[r].out \in Key
  BY DEF Control, RequestsOK, ControlOK, HoldsKV
<1>2. o \in Key /\ req[r].prompt \o o = Append(F, tok)
  <2> DEFINE a == req[r].prompt
             b == req[r].out
  <2>1. a \in Seq(Token) /\ b \in Seq(Token) /\ a \o b \in Seq(Token) /\ F = a \o b
    BY <1>1 DEF Key, Fill
  <2>2. o \in Key
    BY <1>1, AppendKey
  <2> HIDE DEF a, b
  <2>3. Append(b, tok) = b \o <<tok>> /\ Append(a \o b, tok) = (a \o b) \o <<tok>>
        /\ <<tok>> \in Seq(Token)
    BY <2>1, AppendIsConcat
  <2>4. (a \o b) \o <<tok>> = a \o (b \o <<tok>>)
    BY <2>1, <2>3, ConcatAssociative
  <2> QED BY <2>1, <2>2, <2>3, <2>4 DEF a, b
<1>3. q = [req[r] EXCEPT !.out = o]
  BY DEF Committed
<1> HIDE DEF o
<1>4. /\ DOMAIN q = ReqFields /\ SameRow(q, req[r]) /\ q.phase = req[r].phase /\ q.out = o
      /\ q.prompt = req[r].prompt /\ q.max_new = req[r].max_new
      /\ q.prefix = req[r].prefix /\ q.extend_end = req[r].extend_end
      /\ q.to_finish = req[r].to_finish /\ q.middle = req[r].middle
      /\ q.retracted = req[r].retracted /\ q.dev = req[r].dev
      /\ q.protected = req[r].protected /\ q.lock = req[r].lock
  BY <1>1, <1>3 DEF ReqFields, SameRow
<1>5. ControlOK(q)
  BY <1>1, <1>2, <1>4 DEF ControlOK
<1>6. /\ F \in Key /\ Len(F) \in Nat /\ F = req[r].prompt \o req[r].out
      /\ q.protected \in Nat /\ q.prefix \in Nat /\ q.extend_end \in Nat
      /\ Whole(q.protected) /\ q.protected <= q.prefix
      /\ q.prefix <= q.extend_end /\ q.extend_end <= Len(F)
      /\ q.lock = Prefix(F, q.protected)
  BY <1>1, <1>4, LockedRecord
<1> DEFINE G == Append(F, tok)
<1> HIDE DEF F
<1>7. G \in Key /\ Len(G) = Len(F) + 1 /\ IsPrefixOf(F, G)
  BY <1>6, AppendKey
<1> HIDE DEF G
<1>8. q.prompt \o q.out = G
  BY <1>2, <1>4 DEF G
<1>9. q.protected \in 0 .. Len(F) /\ q.extend_end <= Len(G)
  <2> DEFINE L == Len(F)
             M == Len(G)
  <2>1. L \in Nat /\ M = L + 1 /\ q.extend_end <= L
    BY <1>6, <1>7
  <2> HIDE DEF L, M
  <2>2. q.protected \in 0 .. L /\ q.extend_end <= M
    BY <2>1, <1>6
  <2> QED BY <2>2 DEF L, M
<1>10. q.lock = Prefix(G, q.protected)
  BY <1>6, <1>7, <1>9, PrefixSame
<1>11. RecordOK(req[r])
  BY DEF Memory, Sizes
<1>12. Len(q.out) <= q.max_new => RecordOK(q)
  BY <1>1, <1>4, <1>6, <1>8, <1>9, <1>10, <1>11 DEF RecordOK
<1> QED BY <1>1, <1>4, <1>5, <1>8, <1>12 DEF o, F, G

\* A committed token is the next one the device generated.
LEMMA CommittedPrefix ==
  ASSUME Control, NEW r \in Req, ProcessStep(r), HoldsKV(r), NEW h, h = Head(queue), h.chunked # r
  PROVE  IsPrefixOf(Append(Fill(r), h.tok[r]), req[r].dev) /\ h.tok[r] \in Token
<1> DEFINE A == Fill(r) \o <<h.tok[r]>>
           B == OldToken(r)'
           C == NewToken(r)'
<1>1. req[r].dev = (A \o B) \o C /\ h.tok[r] \in Token
  BY ResultFacts
<1>2. batch' = batch /\ last_batch' = last_batch
  BY DEF ProcessStep, batchVars
<1>3. B \in Key /\ C \in Key
  <2>1. batch \in Batch /\ last_batch \in Batch
    BY DEF Control, LoopInv, TypeOK
  <2>2. \A b \in Batch : r \in ReqsOf(b) => b.tok[r] \in Token
    BY PromptsAssumption DEF Batch, ReqsOf
  <2>3. DueOld(r)' => last_batch.tok[r] \in Token
    BY <1>2, <2>1, <2>2 DEF DueOld, ReqsOf
  <2>4. DueNew(r)' => batch.tok[r] \in Token
    BY <1>2, <2>1, <2>2 DEF DueNew, ReqsOf
  <2> QED BY <1>2, <2>3, <2>4 DEF OldToken, NewToken, Key
<1>4. Fill(r) \in Key /\ req[r].dev \in Key
  BY FillIsPrefix
<1>5. A \in Key /\ A = Append(Fill(r), h.tok[r])
  BY <1>1, <1>4, AppendIsConcat, AppendKey DEF Key
<1> HIDE DEF A, B, C
<1>6. A \o B \in Key /\ IsPrefixOf(A, A \o B)
  BY <1>3, <1>5, ConcatKeys
<1>7. IsPrefixOf(A \o B, req[r].dev)
  BY <1>1, <1>3, <1>6, ConcatKeys
<1>8. IsPrefixOf(A, req[r].dev)
  BY <1>4, <1>5, <1>6, <1>7, PrefixTrans
<1> QED BY <1>1, <1>5, <1>8

\* A committed token keeps the invariant; the request finishes, or
\* checkpoints, or runs on.
LEMMA CommitMemory ==
  ASSUME Control, Memory, NEW r \in Req, ProcessStep(r), HoldsKV(r), NEW kind,
         NEW h, h = Head(queue), h.chunked # r, Commit(r, kind)
  PROVE  Memory' /\ PathsStay
<1> DEFINE tok == h.tok[r]
           q == Committed(r, tok)
           n == q.extend_end
           a == Checkpoint(tree, q, n)
           rel == ReleaseKV(tree, q, TRUE)
<1>0. /\ IsPrefixOf(Append(Fill(r), tok), req[r].dev) /\ tok \in Token
  BY CommittedPrefix
<1>1. PICK stop \in BOOLEAN :
        IF FinishedAfter(q, stop) THEN Effect(r, rel, Finish(q))
        ELSE IF kind = "extend" THEN Effect(r, a, Resume(a.req))
        ELSE req' = [req EXCEPT ![r] = q] /\ UNCHANGED treeVars
  BY DEF Commit, Committed
<1>2. /\ DOMAIN req = Req /\ r \in HoldersIn(req) /\ req[r].phase = "running"
      /\ RecordOK(req[r]) /\ Pools(tree, free, content, req) /\ pc = "process"
  BY DEF Control, LoopInv, TypeOK, HoldsKV, HoldersIn, Memory, Sizes, PoolsOK, ProcessStep
<1>3. /\ SameRow(q, req[r]) /\ ControlOK(q) /\ q.phase = "running"
      /\ q.out = Append(req[r].out, tok) /\ q.prompt = req[r].prompt /\ q.max_new = req[r].max_new
      /\ q.prefix = req[r].prefix /\ q.extend_end = req[r].extend_end
      /\ q.prompt \o q.out = Append(Fill(r), tok)
      /\ Len(q.out) <= q.max_new => RecordOK(q)
  BY <1>0, CommittedRecord, ZenonT(60)
<1> HIDE DEF q
<1>4. q.dev = req[r].dev /\ q.committed = req[r].committed /\ q.protected = req[r].protected
  BY <1>3 DEF SameRow
<1>5. /\ req[r].protected \in Nat /\ req[r].prefix \in Nat /\ n \in Nat
      /\ req[r].protected <= req[r].prefix /\ req[r].prefix <= n /\ n <= Len(Fill(r))
      /\ Fill(r) \in Key /\ Len(Fill(r)) \in Nat
  BY <1>2, <1>3, LockedRecord
<1>6. /\ req[r].committed \in Nat /\ req[r].protected <= req[r].committed
  BY <1>2 DEF Pools, RowsOK, RowOK, RowShape
<1>7. n <= q.committed
  <2>1. StageOK(r) /\ ~Extending(r)
    BY <1>2 DEF Memory, Sizes, Extending
  <2> QED BY <2>1, <1>2, <1>3, <1>4 DEF StageOK
<1>8. Len(q.prompt \o q.out) \in Nat /\ q.protected <= Len(q.prompt \o q.out)
      /\ IsPrefixOf(q.prompt \o q.out, q.dev)
  <2> DEFINE G == Append(Fill(r), tok)
             L == Len(Fill(r))
  <2>1. Len(G) = L + 1 /\ L \in Nat /\ n <= L
    BY <1>0, <1>5, AppendKey
  <2> HIDE DEF G, L
  <2>2. Len(G) \in Nat /\ q.protected <= Len(G)
    BY <2>1, <1>4, <1>5
  <2> QED BY <2>2, <1>0, <1>3, <1>4 DEF G
<1>9. ASSUME NEW m \in Nat, q.protected <= m, m <= q.committed
      PROVE  MayCheckpoint(req, r, q, m)
  BY <1>2, <1>3, <1>8, <1>9 DEF MayCheckpoint
<1>10. CASE FinishedAfter(q, stop)
  <2>1. OwnedKvLen(q) \in Nat /\ q.protected <= OwnedKvLen(q) /\ OwnedKvLen(q) <= q.committed
    <3>1. Len(q.prompt \o q.out) = Len(q.prompt) + Len(q.out)
      BY <1>3, ConcatKeys DEF ControlOK
    <3> DEFINE L == Len(q.prompt \o q.out)
    <3>2. L \in Nat /\ q.protected <= L
      BY <1>8
    <3>3. OwnedKvLen(q) = IF q.to_finish \/ q.committed <= L THEN q.committed ELSE L
      BY <3>1 DEF OwnedKvLen
    <3> HIDE DEF L
    <3> QED BY <3>2, <3>3, <1>4, <1>6
  <2>2. MayCheckpoint(req, r, q, OwnedKvLen(q))
    BY <2>1, <1>9
  <2>3. Effect(r, rel, Finish(q))
    BY <1>1, <1>10
  <2>4. Finish(q).phase = "finished"
    BY <1>3, FinishControl DEF ControlOK
  <2>5. req'[r].phase = "finished" /\ OnlyAt(req, req', r)
    BY <2>3, <2>4, <1>2 DEF Effect, OnlyAt
  <2>6. FinishMade(tree, free, content, req, r, q, req')
    BY <2>2, <2>5, <1>2 DEF FinishMade
  <2>7. FinishPools(tree, free, content, rel, req')
    BY <2>6, FinishStep
  <2> HIDE DEF rel
  <2>8. PoolsOK' /\ PathsStay
    BY <2>3, <2>7 DEF FinishPools, PoolsOK, PathsStay, Effect
  <2>9. RecordOK(req'[r])
    BY <2>5 DEF RecordOK
  <2>10. Memory'
    BY <2>5, <2>8, <2>9, ResultMemory
  <2> QED BY <2>8, <2>10
<1>11. CASE ~FinishedAfter(q, stop)
  <2>1. Len(q.out) \in Nat /\ q.max_new \in Nat /\ Len(q.out) = Len(req[r].out) + 1
    <3>1. req[r].out \in Key /\ q.max_new \in Nat
      BY <1>2, <1>3 DEF Control, RequestsOK, ControlOK, RecordOK
    <3>2. Len(Append(req[r].out, tok)) = Len(req[r].out) + 1 /\ Len(req[r].out) \in Nat
      BY <3>1, <1>0, AppendKey
    <3> QED BY <3>1, <3>2, <1>3
  <2>2. Len(q.out) <= q.max_new /\ ~(Len(q.out) >= q.max_new)
    BY <2>1, <1>11 DEF FinishedAfter
  <2>3. RecordOK(q)
    BY <2>2, <1>3
  <2>4. ~LastResult(r)
    BY <2>1, <2>2, <1>3 DEF LastResult, NextOutputFinishesByLength
  <2>5. CASE kind = "extend"
    <3>1. Effect(r, a, Resume(a.req))
      BY <1>1, <1>11, <2>5
    <3>2. req'[r] = Resume(a.req) /\ OnlyAt(req, req', r)
      BY <3>1, <1>2 DEF Effect, OnlyAt
    <3>3. DOMAIN q = ReqFields
      BY <1>3 DEF ControlOK
    <3>4. MayCheckpoint(req, r, q, n)
      <4>1. q.protected <= n
        BY <1>4, <1>5
      <4> QED BY <4>1, <1>5, <1>7, <1>9
    <3>5. SameControl(a.req, q) /\ SameControl(Resume(a.req), q)
      BY <3>3, CheckpointControl
    <3>6. SameRow(Resume(a.req), Checkpoint(tree, q, n).req)
      <4>1. DOMAIN a.req = ReqFields
        BY <3>5 DEF SameControl
      <4> HIDE DEF a
      <4>2. SameRow(Resume(a.req), a.req)
        BY <4>1 DEF Resume, SameRow, ReqFields
      <4> QED BY <4>2 DEF a
    <3>7. req'[r].phase = "running"
      BY <3>2, <3>5, <1>3 DEF SameControl
    <3>8. CheckpointMade(tree, free, content, req, r, q, n, req')
      BY <3>2, <3>4, <3>6, <3>7, <1>2 DEF CheckpointMade
    <3>9. CheckpointPools(tree, free, content, Checkpoint(tree, q, n), req')
          /\ CheckpointRecord(q, n, Checkpoint(tree, q, n))
      BY <3>8, CheckpointStep
    <3> HIDE DEF a
    <3>10. CheckpointPools(tree, free, content, a, req') /\ CheckpointRecord(q, n, a)
      BY <3>9 DEF a
    <3>11. a.own = {} /\ Release(Release(free, a.dup), a.own) = Release(free, a.dup)
      BY <3>10, ReleaseNone DEF CheckpointRecord
    <3>12. PoolsOK'
      <4>1. tree' = a.tree /\ free' = Release(free, a.dup) /\ content' = Scrub(content, a.dup)
        BY <3>1, <3>11 DEF Effect
      <4> QED BY <4>1, <3>10 DEF PoolsOK, CheckpointPools
    <3>13. PathsStay
      BY <3>1, <3>10 DEF PathsStay, CheckpointPools, Effect
    <3>14. /\ RecordOK(Resume(a.req)) /\ Resume(a.req).phase = "running"
           /\ Resume(a.req).extend_end = q.extend_end /\ Resume(a.req).committed = q.committed
           /\ Resume(a.req).dev = q.dev
      BY <3>10, <2>3, <1>3, <1>5, ResumedRecord
    <3>15. /\ RecordOK(req'[r]) /\ req'[r].committed = req[r].committed
           /\ req'[r].extend_end = req[r].extend_end /\ req'[r].dev = req[r].dev
      BY <3>2, <3>14, <1>3, <1>4
    <3>16. Memory'
      BY <3>2, <3>12, <3>15, <2>4, <1>2, ResultMemory
    <3> QED BY <3>13, <3>16
  <2>6. CASE kind # "extend"
    <3>1. req' = [req EXCEPT ![r] = q] /\ UNCHANGED <<tree, free, content>>
      BY <1>1, <1>11, <2>6 DEF treeVars
    <3>2. req'[r] = q /\ OnlyAt(req, req', r)
      BY <3>1, <1>2 DEF OnlyAt
    <3> DEFINE rq2 == req'
    <3>3. /\ LockedIn(rq2) = LockedIn(req) /\ HoldersIn(rq2) = HoldersIn(req)
          /\ \A x \in LockedIn(req) : rq2[x].lock = req[x].lock
          /\ \A x \in HoldersIn(req) : SameRow(rq2[x], req[x])
      <4>1. \A x \in Req : /\ (x \in LockedIn(rq2) <=> x \in LockedIn(req))
                           /\ (x \in HoldersIn(rq2) <=> x \in HoldersIn(req))
                           /\ SameRow(rq2[x], req[x])
        BY <3>2, <1>2, <1>3 DEF LockedIn, HoldersIn, OnlyAt, SameRow
      <4> QED BY <4>1 DEF LockedIn, HoldersIn, SameRow
    <3>4. PoolsOK'
      <4> HIDE DEF rq2
      <4>1. Pools(tree, free, content, rq2)
        BY <3>3, <1>2, PoolsKeep
      <4> QED BY <4>1, <3>1 DEF PoolsOK, rq2
    <3>5. /\ RecordOK(req'[r]) /\ req'[r].committed = req[r].committed
          /\ req'[r].extend_end = req[r].extend_end /\ req'[r].dev = req[r].dev
      BY <3>2, <2>3, <1>3, <1>4
    <3>6. Memory'
      BY <3>2, <3>4, <3>5, <2>4, <1>2, ResultMemory
    <3> QED BY <3>1, <3>6, SameTreePaths
  <2> QED BY <2>5, <2>6
<1> QED BY <1>10, <1>11

\* A result that is dropped, or that counts down the middle chunks.
LEMMA UncommittedMemory ==
  ASSUME Control, Memory, NEW r \in Req, ProcessStep(r), UNCHANGED <<tree, free, content>>,
         OnlyAt(req, req', r), SameMemory(req'[r], req[r]), HoldsKV(r) => ~LastResult(r)
  PROVE  Memory' /\ PathsStay
<1>1. \A x \in Req : SameMemory(req'[x], req[x])
  BY DEF OnlyAt, SameMemory, SameRow
<1>2. PoolsOK'
  BY <1>1, SameMemoryPools DEF Memory, treeVars
<1>3. RecordOK(req'[r])
  BY SameMemoryRecord DEF Memory, Sizes
<1>4. req'[r].phase = "running" =>
           /\ req[r].phase = "running" /\ ~LastResult(r)
           /\ req'[r].committed = req[r].committed /\ req'[r].extend_end = req[r].extend_end
           /\ req'[r].dev = req[r].dev
  BY DEF SameMemory, SameRow, HoldsKV
<1> QED BY <1>2, <1>3, <1>4, ResultMemory, SameTreePaths

\* The result that is processed is the one the request waits for last.
LEMMA LastIsHead ==
  ASSUME Control, NEW r \in Req, ProcessStep(r), LastResult(r), NEW h, h = Head(queue)
  PROVE  h.chunked # r
<1>1. pc = "process" /\ todo # {} /\ Overlap /\ last_batch.chunked # r
  BY DEF ProcessStep, LastResult
<1> QED BY <1>1, AtProcess

\* process_batch_result_prefill of one request keeps the invariant.
LEMMA ProcessPrefillMemory ==
  ASSUME Control, Memory, NEW r \in Req, ProcessPrefill(r)
  PROVE  Memory' /\ PathsStay
<1>1. ProcessStep(r) /\ DOMAIN req = Req /\ DOMAIN req[r] = ReqFields
  BY DEF ProcessPrefill, Control, LoopInv, TypeOK, RequestsOK, ControlOK
<1>2. /\ HoldsKV(r) \/ Finished(r) \/ req[r].retracted
      /\ HoldsKV(r) => ~Finished(r) /\ ~req[r].retracted
      /\ req[r].middle \in Nat
  BY <1>1, ResultOwner
<1>3. PICK h : h = Head(queue)
  OBVIOUS
<1>4. HoldsKV(r) => (h.chunked = r => req[r].middle > 0) /\ (h.chunked # r => req[r].middle = 0)
  BY <1>1, <1>3, ResultFacts
<1>5. CASE /\ (Finished(r) /\ req[r].middle <= 0) \/ req[r].retracted
           /\ UNCHANGED <<treeVars, req>>
  <2>1. ~HoldsKV(r) /\ UNCHANGED <<tree, free, content, req>>
    BY <1>2, <1>5 DEF treeVars
  <2>2. OnlyAt(req, req', r) /\ SameMemory(req'[r], req[r])
    BY <2>1 DEF OnlyAt, SameMemory, SameRow
  <2> QED BY <1>1, <2>1, <2>2, UncommittedMemory
<1>6. CASE /\ ~(Finished(r) /\ req[r].middle <= 0) /\ ~req[r].retracted
           /\ req[r].middle <= 0
           /\ Commit(r, "extend")
  <2>1. HoldsKV(r) /\ h.chunked # r
    BY <1>2, <1>4, <1>6
  <2> QED BY <2>1, <1>1, <1>3, <1>6, CommitMemory
<1>7. CASE /\ ~req[r].retracted
           /\ req[r].middle > 0
           /\ req' = [req EXCEPT ![r].middle = @ - 1]
           /\ UNCHANGED treeVars
  <2>1. UNCHANGED <<tree, free, content>>
    BY <1>7 DEF treeVars
  <2>2. OnlyAt(req, req', r) /\ SameMemory(req'[r], req[r])
    BY <1>1, <1>7 DEF OnlyAt, SameMemory, SameRow, ReqFields
  <2>3. HoldsKV(r) => ~LastResult(r)
    BY <1>1, <1>2, <1>3, <1>4, <1>7, LastIsHead
  <2> QED BY <1>1, <2>1, <2>2, <2>3, UncommittedMemory
<1> QED BY <1>5, <1>6, <1>7 DEF ProcessPrefill

\* process_batch_result_decode of one request keeps the invariant.
LEMMA ProcessDecodeMemory ==
  ASSUME Control, Memory, NEW r \in Req, ProcessDecode(r)
  PROVE  Memory' /\ PathsStay
<1>1. ProcessStep(r)
  BY DEF ProcessDecode
<1>2. /\ HoldsKV(r) \/ Finished(r) \/ req[r].retracted
      /\ HoldsKV(r) => ~Finished(r) /\ ~req[r].retracted
  BY <1>1, ResultOwner
<1>3. PICK h : h = Head(queue)
  OBVIOUS
<1>4. CASE (Finished(r) \/ req[r].retracted) /\ UNCHANGED <<treeVars, req>>
  <2>1. ~HoldsKV(r) /\ UNCHANGED <<tree, free, content, req>>
    BY <1>2, <1>4 DEF treeVars
  <2>2. OnlyAt(req, req', r) /\ SameMemory(req'[r], req[r])
    BY <2>1 DEF OnlyAt, SameMemory, SameRow
  <2> QED BY <1>1, <2>1, <2>2, UncommittedMemory
<1>5. CASE ~Finished(r) /\ ~req[r].retracted /\ Commit(r, "decode")
  <2>1. HoldsKV(r) /\ h.kind = "decode"
    BY <1>2, <1>3, <1>5 DEF ProcessDecode
  <2>2. h.chunked # r
    BY <2>1, <1>1, <1>3, ResultFacts
  <2> QED BY <2>1, <2>2, <1>1, <1>3, <1>5, CommitMemory
<1> QED BY <1>4, <1>5 DEF ProcessDecode

\* The end of an iteration keeps the invariant: no request that holds KV is
\* dropped with the batch.
LEMMA EndIterationMemory ==
  ASSUME Control, Memory, EndIteration
  PROVE  Memory' /\ PathsStay
<1>1. /\ pc = "process" /\ todo = {} /\ pc' = "recv" /\ last_batch' = batch /\ batch' = NoBatch
      /\ UNCHANGED <<tree, free, content, req, todo, running, chunked, rem_chunk, offset>>
  BY DEF EndIteration, treeVars, loopVars, passVars
<1>2. PoolsOK' /\ \A x \in Req : RecordOK(req'[x])
  BY <1>1 DEF Memory, Sizes, PoolsOK
<1>3. \A x \in Req : StageOK(x)'
  BY <1>1 DEF Memory, Sizes, StageOK, Extending
<1>4. Budget'
  BY <1>1 DEF Memory, Budget
<1>5. ASSUME NEW x \in Req, HoldsKV(x)' PROVE Kept(x)'
  <2>1. Kept(x)
    BY <1>1, <1>5 DEF HoldsKV, Memory, NoneLost
  <2>2. ~LastResult(x) /\ ~Extending(x)
    BY <1>1 DEF LastResult, Extending
  <2> QED BY <2>1, <2>2, <1>1 DEF Kept, ReqsOf
<1>6. batch.chunked = chunked /\ chunked \notin running
  BY <1>1 DEF Control, Placed, ChunkIs
<1>7. NoneLost'
  BY <1>1, <1>5, <1>6 DEF NoneLost
<1> QED BY <1>1, <1>2, <1>3, <1>4, <1>7, SameTreePaths DEF Memory, Sizes

\* The invariant holds before the loop starts.
LEMMA InitMemory ==
  ASSUME Init
  PROVE  Memory
<1>1. \A r \in Req : req[r].phase = "idle"
  BY IdleReqControl DEF Init
<1>2. Sizes
  BY <1>1 DEF Sizes, RecordOK, StageOK, Extending, Init
<1>3. Budget
  BY DEF Init, Budget
<1>4. NoneLost
  BY <1>1, NoBatchOK DEF Init, NoneLost, HoldsKV
<1>5. PoolsOK
  <2>1. LockedIn(req) = {}
    BY <1>1 DEF LockedIn
  <2> QED BY <2>1, EmptyPools DEF Init, PoolsOK
<1> QED BY <1>2, <1>3, <1>4, <1>5 DEF Memory

-----------------------------------------------------------------------------
(* The theorems *)

\* A stuttering step keeps Control.
LEMMA StutterControl ==
  ASSUME Control, UNCHANGED vars
  PROVE  Control'
<1>1. UNCHANGED <<tree, free, content, req, pc, todo, running, full, chunked, abort_chunk,
                  batch, last_batch, queue>>
  BY DEF vars
<1>2. LoopInv'
  BY <1>1 DEF Control, LoopInv, TypeOK, QueueShape, Carried, Launched
<1>3. RequestsOK'
  BY <1>1 DEF Control, RequestsOK
<1>4. QueueIs' /\ BatchesAre' /\ TodoIs'
  BY <1>1 DEF Control, Placed, QueueIs, BatchesAre, TodoIs, ToExtend, BatchOK, ReqsOf, HoldsKV
<1>5. Members' /\ ChunkIs'
  BY <1>1 DEF Control, Placed, Members, ChunkIs, HoldsKV, Finished, ReqsOf
<1>6. \A r \in Req : Followed(r)'
  <2> SUFFICES ASSUME NEW r \in Req PROVE Followed(r)'
    OBVIOUS
  <2>1. SameControl(req'[r], req[r])
    BY <1>1 DEF Control, RequestsOK, ControlOK, SameControl
  <2>2. (DueOld(r)' <=> DueOld(r)) /\ (DueNew(r)' <=> DueNew(r))
    BY <1>1 DEF DueOld, DueNew, ReqsOf
  <2> QED BY <1>1, <2>1, <2>2, FollowedKeeps DEF Control, ResultsFollowed
<1> QED BY <1>2, <1>3, <1>4, <1>5, <1>6 DEF Control, Placed, ResultsFollowed

\* One step of the specification, its stuttering included.
LEMMA NextKeeps ==
  ASSUME Control, Memory, [Next]_vars
  PROVE  Control' /\ Memory' /\ PathsStay
<1>1. CASE UNCHANGED vars
  <2>1. Control'
    BY <1>1, StutterControl
  <2>2. UNCHANGED <<tree, free, content, req, pc, todo, running, chunked, rem_chunk, offset,
                    batch, last_batch>>
    BY <1>1 DEF vars
  <2>3. PoolsOK' /\ \A x \in Req : RecordOK(req'[x])
    BY <2>2 DEF Memory, Sizes, PoolsOK
  <2>4. \A x \in Req : StageOK(x)'
    BY <2>2 DEF Memory, Sizes, StageOK, Extending
  <2>5. Budget'
    BY <2>2 DEF Memory, Budget, RemTotal
  <2>6. NoneLost'
    <3>1. \A x \in Req : Kept(x) => Kept(x)'
      BY <2>2 DEF Kept, Extending, LastResult, NextOutputFinishesByLength, ReqsOf
    <3> QED BY <3>1, <2>2 DEF Memory, NoneLost, HoldsKV
  <2> QED BY <2>1, <2>2, <2>3, <2>4, <2>5, <2>6, SameTreePaths DEF Memory, Sizes
<1>2. ASSUME NEW r \in Req, Arrive(r) \/ AbortWaiting(r) \/ AbortInflight(r)
      PROVE  Control' /\ Memory' /\ PathsStay
  BY <1>2, ArriveControl, ArriveMemory, AbortWaitingControl, AbortWaitingMemory,
     AbortInflightControl, AbortInflightMemory
<1>3. CASE FlushCache
  BY <1>3, FlushCacheControl, FlushCacheMemory
<1>4. CASE Schedule \/ StashChunk \/ AbortChunk
  BY <1>4, ScheduleControl, ScheduleMemory, StashChunkControl, StashChunkMemory,
     AbortChunkControl, AbortChunkMemory
<1>5. CASE AddChunkedReq \/ ClosePass
  BY <1>5, AddChunkedReqControl, AddChunkedReqMemory, ClosePassControl, ClosePassMemory
<1>6. CASE UpdateRunningBatch \/ EndIteration
  BY <1>6, UpdateRunningBatchControl, UpdateRunningBatchMemory, EndIterationControl,
     EndIterationMemory
<1>7. ASSUME NEW r \in Req, Admit(r) PROVE Control' /\ Memory' /\ PathsStay
  <2>1. chunked = NoReq /\ Memory' /\ PathsStay
    BY <1>7, AdmitMemory
  <2> QED BY <2>1, <1>7, AdmitControl
<1>8. ASSUME NEW r \in Req, Reject(r) PROVE Control' /\ Memory' /\ PathsStay
  BY <1>8, RejectControl, RejectMemory
<1>9. ASSUME NEW r \in Req, Extend(r) \/ Decode(r) PROVE Control' /\ Memory' /\ PathsStay
  BY <1>9, ExtendControl, ExtendMemory, DecodeControl, DecodeMemory
<1>10. ASSUME NEW r \in Req, Retract(r) PROVE Control' /\ Memory' /\ PathsStay
  BY <1>10, RetractControl, RetractMemory
<1>11. ASSUME NEW r \in Req, ProcessPrefill(r) \/ ProcessDecode(r)
       PROVE  Control' /\ Memory' /\ PathsStay
  BY <1>11, ProcessPrefillControl, ProcessPrefillMemory, ProcessDecodeControl, ProcessDecodeMemory
<1> QED BY <1>1, <1>2, <1>3, <1>4, <1>5, <1>6, <1>7, <1>8, <1>9, <1>10, <1>11
        DEF Next, Client, Loop

\* The loop, with clients and aborts at any time, keeps the control and the
\* memory invariant, for any pool, page size, requests, prompts and limits,
\* with and without the overlap scheduler.
THEOREM KVInvariance == Spec => [](Control /\ Memory)
<1>1. Init => Control /\ Memory
  BY InitControl, InitMemory
<1>2. Control /\ Memory /\ [Next]_vars => (Control /\ Memory)'
  BY NextKeeps
<1> QED BY <1>1, <1>2, PTL DEF Spec

\* alloc, free and the tree never lose, share or free twice a page: each is
\* free, in the tree or private to one running request.
THEOREM PagesHaveOneOwner == Spec => []SlotOwnership
<1>1. Control /\ Memory => SlotOwnership
  BY PoolsOwnership DEF Memory, PoolsOK
<1> QED BY <1>1, KVInvariance, PTL

\* Reuse is sound: each cached page and each page of a row holds the KV of
\* the tokens it stands for, across evictions, checkpoints, retractions and
\* the in-flight batch of the overlap scheduler.
THEOREM ReuseReadsItsOwnText == Spec => []ContentRight
<1>1. Control /\ Memory => ContentRight
  BY PoolsContent DEF Memory, PoolsOK
<1> QED BY <1>1, KVInvariance, PTL

\* inc_lock_ref and dec_lock_ref are balanced on every path through
\* admission, checkpoint, retraction, abort and finish.
THEOREM LocksAreCounted == Spec => []LockRefExact
<1>1. Control /\ Memory => LockRefExact
  BY PoolsBooks DEF Memory, PoolsOK
<1> QED BY <1>1, KVInvariance, PTL

\* evictable_size, protected_size and evictable_leaves, which the code
\* updates step by step, are what the tree says.
THEOREM TreeBooksAgree == Spec => []AccountingExact
<1>1. Control /\ Memory => AccountingExact
  BY PoolsBooks DEF Memory, PoolsOK
<1> QED BY <1>1, KVInvariance, PTL

\* What a request's lock covers is cached and is what its row points to.
THEOREM LockedPrefixStays == Spec => []ProtectedPrefixResident
<1>1. ASSUME Control, Memory PROVE ProtectedPrefixResident
  <2> SUFFICES ASSUME NEW r \in Locked
               PROVE  /\ req[r].lock = Prefix(Fill(r), req[r].protected)
                      /\ req[r].lock \in Nodes(tree) \cup {Root}
                      /\ HoldsKV(r) =>
                           \A i \in 1 .. req[r].protected \div PageSize :
                             req[r].row[i] = tree.value[Prefix(req[r].lock, i * PageSize)]
    BY DEF ProtectedPrefixResident
  <2>1. r \in Req /\ req[r].phase \in {"admitted", "running"} /\ r \in LockedIn(req)
    BY DEF Locked, LockedIn
  <2>2. req[r].lock = Prefix(Fill(r), req[r].protected)
    BY <1>1, <2>1, LockedRecord
  <2>3. Sound(tree, LockedIn(req), LockOf(req)) /\ RowsOK(tree, content, req)
    BY <1>1 DEF Memory, PoolsOK, Pools
  <2>4. req[r].lock \in Nodes(tree) \cup {Root}
    BY <2>1, <2>3 DEF Sound, Anchored, LockOf
  <2>5. HoldsKV(r) => Resident(tree, req[r])
    BY <2>1, <2>3 DEF HoldsKV, HoldersIn, RowsOK, RowOK
  <2> QED BY <2>2, <2>4, <2>5 DEF Resident
<1>2. Control /\ Memory => ProtectedPrefixResident
  BY <1>1
<1> QED BY <1>2, KVInvariance, PTL

\* The results the overlap scheduler processes one iteration late are given
\* to the right request in the order of the device, none lost or doubled.
THEOREM TokensReachTheirOutput == Spec => []OutputFollowsDevice
<1>1. Control /\ Memory => OutputFollowsDevice
  BY ControlFollowsDevice
<1> QED BY <1>1, KVInvariance, PTL

\* inflight_middle_chunks counts exactly the middle chunks whose results are
\* still to come.
THEOREM MiddleChunksAreCounted == Spec => []MiddleChunksExact
<1>1. Control /\ Memory => MiddleChunksExact
  BY ControlCountsChunks
<1> QED BY <1>1, KVInvariance, PTL

\* merge_batch, filter_batch and retract_decode leave in the running batch
\* only requests that hold KV or have just finished, and never the chunked
\* request.
THEOREM RunningRequestsHoldKV == Spec => []BatchMembership
<1>1. Control /\ Memory => BatchMembership
  BY ControlMembership
<1> QED BY <1>1, KVInvariance, PTL

\* No step, eviction for another request included, moves or deletes a page
\* of a locked path.
THEOREM LockedPathsStay == Spec => LockedPathStable
<1>1. Control /\ Memory /\ [Next]_vars => [PathsStay]_vars
  BY NextKeeps
<1>2. PathsStay <=>
        \A r \in Locked :
          r \in Locked' /\ req'[r].lock = req[r].lock =>
            \A k \in Cached(tree) : IsPrefixOf(k, req[r].lock) =>
              k \in Cached(tree') /\ tree'.value[k] = tree.value[k]
  BY DEF PathsStay
<1> QED BY <1>1, <1>2, KVInvariance, PTL DEF Spec, LockedPathStable
=============================================================================
