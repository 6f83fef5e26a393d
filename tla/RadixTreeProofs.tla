-------------------------- MODULE RadixTreeProofs --------------------------
(***************************************************************************)
(* What the operations of the radix tree keep, for every page size and     *)
(* every tree. A tree is well formed when it is closed under page-aligned  *)
(* prefixes and node[k] is the first node at or below k; it is sound for a *)
(* set of lock holders when, besides, each lock ends at a node, lock_ref   *)
(* counts the holders whose locked path goes through the node, and         *)
(* evictable_size, protected_size and evictable_leaves are what the lock   *)
(* counts say. _split_node, match_prefix, insert, inc_lock_ref,            *)
(* dec_lock_ref and evict each have a lemma that they keep the tree sound, *)
(* whatever else holds the tree.                                           *)
(***************************************************************************)
EXTENDS RadixTree, FiniteSetTheorems, NaturalsInduction, TLAPS

-----------------------------------------------------------------------------
(* Prefixes *)

\* The first n tokens of a key.
LEMMA PrefixFacts ==
  ASSUME NEW k \in Key, NEW n \in 0 .. Len(k)
  PROVE  /\ Prefix(k, n) \in Key
         /\ Len(Prefix(k, n)) = n
         /\ \A i \in 1 .. n : Prefix(k, n)[i] = k[i]
         /\ IsPrefixOf(Prefix(k, n), k)
<1>1. /\ Prefix(k, n) \in Key
      /\ Len(Prefix(k, n)) = n
      /\ \A i \in 1 .. n : Prefix(k, n)[i] = k[i]
  BY DEF Prefix, Key
<1> QED BY <1>1 DEF IsPrefixOf, Key

\* Keys of one length that agree at every position are equal.
LEMMA SameKey ==
  ASSUME NEW a \in Key, NEW b \in Key, Len(a) = Len(b),
         \A i \in 1 .. Len(a) : a[i] = b[i]
  PROVE  a = b
BY DEF Key

\* Every key is a prefix of itself.
LEMMA PrefixRefl == \A a \in Key : IsPrefixOf(a, a)
BY DEF IsPrefixOf, Key

\* A prefix of a prefix is a prefix.
LEMMA PrefixTrans ==
  \A a, b, c \in Key : IsPrefixOf(a, b) /\ IsPrefixOf(b, c) => IsPrefixOf(a, c)
<1> SUFFICES ASSUME NEW a \in Key, NEW b \in Key, NEW c \in Key,
                    IsPrefixOf(a, b), IsPrefixOf(b, c)
             PROVE  IsPrefixOf(a, c)
  OBVIOUS
<1>1. Len(a) \in Nat /\ Len(b) \in Nat /\ Len(c) \in Nat
  BY DEF Key
<1> QED BY <1>1 DEF IsPrefixOf

\* A prefix that is no shorter is the key.
LEMMA PrefixAntisym ==
  \A a, b \in Key : IsPrefixOf(a, b) /\ Len(b) <= Len(a) => a = b
<1> SUFFICES ASSUME NEW a \in Key, NEW b \in Key, IsPrefixOf(a, b), Len(b) <= Len(a)
             PROVE  a = b
  OBVIOUS
<1>1. Len(a) \in Nat /\ Len(b) \in Nat
  BY DEF Key
<1>2. Len(a) = Len(b) /\ \A i \in 1 .. Len(a) : a[i] = b[i]
  BY <1>1 DEF IsPrefixOf
<1> QED BY <1>2, SameKey

\* Two prefixes of one key: the shorter is a prefix of the longer.
LEMMA PrefixChain ==
  \A a, b, k \in Key :
    IsPrefixOf(a, k) /\ IsPrefixOf(b, k) /\ Len(a) <= Len(b) => IsPrefixOf(a, b)
<1> SUFFICES ASSUME NEW a \in Key, NEW b \in Key, NEW k \in Key,
                    IsPrefixOf(a, k), IsPrefixOf(b, k), Len(a) <= Len(b)
             PROVE  IsPrefixOf(a, b)
  OBVIOUS
<1>1. Len(a) \in Nat /\ Len(b) \in Nat /\ Len(k) \in Nat
  BY DEF Key
<1> QED BY <1>1 DEF IsPrefixOf

\* Prefixes are no longer, and the root is the empty key.
LEMMA PrefixLen ==
  /\ \A a \in Key : Len(a) \in Nat /\ (Len(a) = 0 <=> a = Root)
  /\ \A a, b \in Key : IsPrefixOf(a, b) => Len(a) <= Len(b)
  /\ Root \in Key /\ Len(Root) = 0
  /\ \A a \in Key : IsPrefixOf(Root, a)
BY DEF IsPrefixOf, Key, Root

\* A prefix is what its length cuts.
LEMMA PrefixIsCut ==
  ASSUME NEW a \in Key, NEW k \in Key, IsPrefixOf(a, k)
  PROVE  Len(a) \in 0 .. Len(k) /\ a = Prefix(k, Len(a))
<1>1. Len(a) \in 0 .. Len(k)
  BY PrefixLen
<1>2. Prefix(k, Len(a)) \in Key /\ Len(Prefix(k, Len(a))) = Len(a)
  BY <1>1, PrefixFacts
<1>3. \A i \in 1 .. Len(a) : Prefix(k, Len(a))[i] = k[i]
  BY <1>1, PrefixFacts
<1> QED BY <1>2, <1>3, SameKey DEF IsPrefixOf

\* Being a prefix is a partial order in which what is below a key is a chain.
LEMMA PrefixOrder ==
  /\ \A a \in Key : IsPrefixOf(a, a)
  /\ \A a, b, c \in Key : IsPrefixOf(a, b) /\ IsPrefixOf(b, c) => IsPrefixOf(a, c)
  /\ \A a, b \in Key : IsPrefixOf(a, b) /\ IsPrefixOf(b, a) => a = b
  /\ \A a, b, k \in Key :
       IsPrefixOf(a, k) /\ IsPrefixOf(b, k) => IsPrefixOf(a, b) \/ IsPrefixOf(b, a)
<1>1. \A a, b \in Key : IsPrefixOf(a, b) /\ IsPrefixOf(b, a) => a = b
  BY PrefixAntisym, PrefixLen
<1>2. ASSUME NEW a \in Key, NEW b \in Key, NEW k \in Key,
             IsPrefixOf(a, k), IsPrefixOf(b, k)
      PROVE  IsPrefixOf(a, b) \/ IsPrefixOf(b, a)
  <2>1. Len(a) <= Len(b) \/ Len(b) <= Len(a)
    BY PrefixLen
  <2> QED BY <1>2, <2>1, PrefixChain
<1> QED BY <1>1, <1>2, PrefixRefl, PrefixTrans

-----------------------------------------------------------------------------
(* Pages *)

\* The whole pages of n tokens.
LEMMA DivFacts ==
  ASSUME NEW n \in Nat
  PROVE  /\ n \div PageSize \in Nat
         /\ (n \div PageSize) * PageSize <= n
         /\ n < (n \div PageSize) * PageSize + PageSize
         /\ (n \div PageSize) * PageSize \in Nat
BY PageSizeAssumption

\* i pages have i * PageSize tokens.
LEMMA MulFacts ==
  ASSUME NEW i \in Nat, NEW j \in Nat
  PROVE  /\ i * PageSize \in Nat
         /\ i <= j <=> i * PageSize <= j * PageSize
         /\ i < j <=> i * PageSize < j * PageSize
         /\ (i * PageSize) \div PageSize = i
         /\ (i + 1) * PageSize = i * PageSize + PageSize
         /\ i <= j => (j - i) * PageSize = j * PageSize - i * PageSize
         /\ i * PageSize = 0 <=> i = 0
BY PageSizeAssumption

\* More tokens have no fewer whole pages.
LEMMA DivMono ==
  ASSUME NEW i \in Nat, NEW j \in Nat, i <= j
  PROVE  i \div PageSize <= j \div PageSize
BY PageSizeAssumption

Whole(n) == AlignDown(n) = n

\* AlignDown is the greatest whole number of pages in n tokens.
LEMMA AlignFacts ==
  ASSUME NEW n \in Nat
  PROVE  /\ AlignDown(n) \in Nat
         /\ AlignDown(n) <= n
         /\ Whole(AlignDown(n))
         /\ AlignDown(n) \div PageSize = n \div PageSize
         /\ \A m \in Nat : Whole(m) /\ m <= n => m <= AlignDown(n)
<1>1. n \div PageSize \in Nat
  BY DivFacts
<1>2. AlignDown(n) \in Nat /\ AlignDown(n) <= n
  BY DivFacts DEF AlignDown
<1>3. AlignDown(n) \div PageSize = n \div PageSize
  BY <1>1, MulFacts DEF AlignDown
<1>4. ASSUME NEW m \in Nat, Whole(m), m <= n
      PROVE  m <= AlignDown(n)
  <2>1. m \div PageSize \in Nat /\ m \div PageSize <= n \div PageSize
    BY <1>4, DivMono, DivFacts
  <2>2. (m \div PageSize) * PageSize <= (n \div PageSize) * PageSize
    BY <2>1, <1>1, MulFacts
  <2> QED BY <2>2, <1>4 DEF Whole, AlignDown
<1> QED BY <1>2, <1>3, <1>4 DEF Whole, AlignDown

\* The page-aligned lengths are the multiples of the page size.
LEMMA WholeMultiple ==
  /\ \A i \in Nat : Whole(i * PageSize)
  /\ Whole(0)
  /\ \A n \in Nat : Whole(n) => n = (n \div PageSize) * PageSize
<1>1. ASSUME NEW i \in Nat PROVE Whole(i * PageSize)
  BY MulFacts DEF Whole, AlignDown
<1>2. 0 * PageSize = 0
  BY PageSizeAssumption
<1>3. Whole(0)
  BY <1>1, <1>2, 0 \in Nat
<1> QED BY <1>1, <1>3 DEF Whole, AlignDown

-----------------------------------------------------------------------------
(* Well-formed trees *)

TreeFields == {"value", "node", "lock_ref", "evictable_size", "protected_size",
               "evictable_leaves"}

Shape(t) ==
  /\ DOMAIN t = TreeFields
  /\ t.value \in [Cached(t) -> Page]
  /\ t.node \in [Cached(t) -> Nodes(t)]
  /\ t.lock_ref \in [Nodes(t) -> Nat]
  /\ IsFiniteSet(Cached(t))
  /\ Nodes(t) \subseteq Cached(t)
  /\ \A k \in Cached(t) : k \in Key /\ k # Root /\ Whole(Len(k))

\* With a path, its shorter paths are cached.
Closed(t) ==
  \A k \in Cached(t), l \in Key :
    l # Root /\ Whole(Len(l)) /\ IsPrefixOf(l, k) => l \in Cached(t)

\* node[k] is the first node at or below k: a segment does not branch.
Radix(t) ==
  /\ \A n \in Nodes(t) : t.node[n] = n
  /\ \A k \in Cached(t) : IsPrefixOf(k, t.node[k])
  /\ \A k \in Cached(t), n \in Nodes(t) : IsPrefixOf(k, n) => IsPrefixOf(t.node[k], n)

WellFormed(t) == Shape(t) /\ Closed(t) /\ Radix(t)

\* The tree reset() leaves is well formed.
LEMMA EmptyTreeWellFormed == WellFormed(EmptyTree)
BY FS_EmptySet DEF WellFormed, Shape, Closed, Radix, EmptyTree, TreeFields, Cached, Nodes

\* What is cached is a key other than the root, and ends in a node.
LEMMA WellFormedKeys ==
  ASSUME NEW t, WellFormed(t)
  PROVE  /\ Cached(t) \subseteq Key /\ Nodes(t) \subseteq Key
         /\ Root \notin Cached(t) /\ Root \notin Nodes(t)
         /\ \A k \in Cached(t) : t.node[k] \in Nodes(t) /\ t.node[k] \in Key
BY DEF WellFormed, Shape

-----------------------------------------------------------------------------
(* _split_node *)

\* What _split_node changes: the new node takes the upper part of the
\* segment and the lock count of its child.
LEMMA SplitFields ==
  ASSUME NEW t, WellFormed(t), NEW k \in Cached(t) \ Nodes(t)
  PROVE  LET s == SplitNode(t, k) IN
         /\ DOMAIN s = TreeFields
         /\ s.value = t.value
         /\ s.node = [l \in Cached(t) |->
                       IF t.node[l] = t.node[k] /\ IsPrefixOf(l, k) THEN k ELSE t.node[l]]
         /\ s.lock_ref = [n \in Nodes(t) \cup {k} |->
                           IF n = k THEN t.lock_ref[t.node[k]] ELSE t.lock_ref[n]]
         /\ s.evictable_size = t.evictable_size
         /\ s.protected_size = t.protected_size
         /\ s.evictable_leaves = t.evictable_leaves
         /\ Cached(s) = Cached(t)
         /\ Nodes(s) = Nodes(t) \cup {k}
<1>1. k # Root /\ DOMAIN t = TreeFields
  BY DEF WellFormed, Shape
<1> QED BY <1>1 DEF SplitNode, TreeFields, Cached, Nodes

\* _split_node keeps the tree well formed.
LEMMA SplitWellFormed ==
  ASSUME NEW t, WellFormed(t), NEW k \in Cached(t) \cup {Root}
  PROVE  WellFormed(SplitNode(t, k))
<1>1. CASE k = Root \/ k \in Nodes(t)
  BY <1>1 DEF SplitNode
<1>2. CASE k \in Cached(t) \ Nodes(t)
  <2> DEFINE s == SplitNode(t, k)
             child == t.node[k]
  <2>1. /\ DOMAIN s = TreeFields
        /\ s.value = t.value
        /\ s.node = [l \in Cached(t) |->
                      IF t.node[l] = child /\ IsPrefixOf(l, k) THEN k ELSE t.node[l]]
        /\ s.lock_ref = [n \in Nodes(t) \cup {k} |->
                          IF n = k THEN t.lock_ref[child] ELSE t.lock_ref[n]]
        /\ Cached(s) = Cached(t)
        /\ Nodes(s) = Nodes(t) \cup {k}
    BY <1>2, SplitFields
  <2> HIDE DEF s
  <2>2. /\ Cached(t) \subseteq Key /\ Nodes(t) \subseteq Cached(t)
        /\ \A l \in Cached(t) : t.node[l] \in Nodes(t)
        /\ t.lock_ref \in [Nodes(t) -> Nat]
        /\ child \in Nodes(t) /\ IsPrefixOf(k, child)
    BY <1>2 DEF WellFormed, Shape, Radix
  <2> HIDE DEF child
  <2>3. Shape(s)
    <3>1. s.node \in [Cached(s) -> Nodes(s)] /\ s.lock_ref \in [Nodes(s) -> Nat]
      BY <2>1, <2>2
    <3> QED BY <2>1, <2>2, <3>1, <1>2 DEF WellFormed, Shape
  <2>4. Closed(s)
    BY <2>1 DEF WellFormed, Closed
  <2>5. \A n \in Nodes(s) : s.node[n] = n
    <3>1. s.node[k] = k
      BY <1>2, <2>1, <2>2, PrefixOrder DEF child
    <3>2. ASSUME NEW n \in Nodes(t) PROVE s.node[n] = n
      <4>1. t.node[n] = n
        BY DEF WellFormed, Radix
      <4>2. n = child => ~IsPrefixOf(n, k)
        BY <1>2, <2>2, PrefixOrder
      <4> QED BY <4>1, <4>2, <2>1, <2>2
    <3> QED BY <3>1, <3>2, <2>1
  <2>6. \A l \in Cached(s) : IsPrefixOf(l, s.node[l])
    BY <2>1, <2>2 DEF WellFormed, Radix
  <2>7. ASSUME NEW l \in Cached(s), NEW n \in Nodes(s), IsPrefixOf(l, n)
        PROVE  IsPrefixOf(s.node[l], n)
    <3>1. l \in Cached(t) /\ l \in Key /\ k \in Key /\ n \in Key /\ t.node[l] \in Nodes(t)
          /\ t.node[l] \in Key /\ child \in Key
      BY <1>2, <2>1, <2>2
    <3>2. \A m \in Nodes(t) : IsPrefixOf(l, m) => IsPrefixOf(t.node[l], m)
      BY <3>1 DEF WellFormed, Radix
    <3>3. CASE t.node[l] = child /\ IsPrefixOf(l, k)
      <4>1. s.node[l] = k
        BY <2>1, <3>1, <3>3
      <4> QED BY <4>1, <2>1, <2>2, <2>7, <3>1, <3>2, <3>3, PrefixOrder
    <3>4. CASE ~(t.node[l] = child /\ IsPrefixOf(l, k))
      <4>1. s.node[l] = t.node[l]
        BY <2>1, <3>1, <3>4
      <4>2. CASE n \in Nodes(t)
        BY <4>1, <4>2, <3>2, <2>7
      <4>3. CASE n = k
        <5>1. t.node[l] # child
          BY <4>3, <2>7, <3>4
        <5>2. IsPrefixOf(t.node[l], child)
          BY <4>3, <2>7, <2>2, <3>1, <3>2, PrefixOrder
        <5>3. IsPrefixOf(k, t.node[l]) => IsPrefixOf(child, t.node[l])
          BY <1>2, <3>1 DEF WellFormed, Radix, child
        <5> QED BY <4>1, <4>3, <5>1, <5>2, <5>3, <2>2, <3>1, PrefixOrder
      <4> QED BY <4>2, <4>3, <2>1
    <3> QED BY <3>3, <3>4
  <2>8. Radix(s)
    BY <2>5, <2>6, <2>7 DEF Radix
  <2> QED BY <2>3, <2>4, <2>8 DEF WellFormed, s
<1> QED BY <1>1, <1>2

-----------------------------------------------------------------------------
(* Locks and counters *)

\* The locks are on nodes; lock[r] is the path r holds, for r in S.
Anchored(t, S, lock) == \A r \in S : lock[r] \in Nodes(t) \cup {Root}

Counted(t, S, lock) ==
  \A n \in Nodes(t) : t.lock_ref[n] = Cardinality({r \in S : IsPrefixOf(n, lock[r])})

UnlockedNodes(t) == {n \in Nodes(t) : t.lock_ref[n] = 0}

LockedNodes(t) == {n \in Nodes(t) : t.lock_ref[n] > 0}

Accounts(t) ==
  /\ t.evictable_size = NumTokens(t, UnlockedNodes(t))
  /\ t.protected_size = NumTokens(t, LockedNodes(t))
  /\ t.evictable_leaves = {n \in Nodes(t) : t.lock_ref[n] = 0 /\ IsLeaf(t, n)}

Sound(t, S, lock) ==
  WellFormed(t) /\ Anchored(t, S, lock) /\ Counted(t, S, lock) /\ Accounts(t)

\* A node is a leaf when no node is properly below it.
LEMMA LeafDef ==
  ASSUME NEW t, NEW n
  PROVE  IsLeaf(t, n) <=> \A c \in Nodes(t) : ~(c # n /\ IsPrefixOf(n, c))
BY DEF IsLeaf, Descendants, IsProperPrefixOf

\* The new parent is locked by exactly the requests that lock its child: no
\* lock ends inside a segment.
LEMMA SplitCounted ==
  ASSUME NEW t, NEW S, NEW lock, WellFormed(t), Anchored(t, S, lock), Counted(t, S, lock),
         NEW k \in Cached(t) \ Nodes(t)
  PROVE  Counted(SplitNode(t, k), S, lock)
<1> DEFINE s == SplitNode(t, k)
           child == t.node[k]
<1>1. /\ s.lock_ref = [n \in Nodes(t) \cup {k} |->
                          IF n = k THEN t.lock_ref[child] ELSE t.lock_ref[n]]
      /\ Nodes(s) = Nodes(t) \cup {k}
  BY SplitFields, ZenonT(60)
<1> HIDE DEF s
<1>2. child \in Nodes(t) /\ child \in Key /\ k \in Key /\ IsPrefixOf(k, child)
      /\ Nodes(t) \subseteq Key
  BY WellFormedKeys DEF WellFormed, Radix
<1>3. ASSUME NEW r \in S
      PROVE  IsPrefixOf(k, lock[r]) <=> IsPrefixOf(child, lock[r])
  <2>1. CASE lock[r] \in Nodes(t)
    <3>1. IsPrefixOf(k, lock[r]) => IsPrefixOf(child, lock[r])
      BY <2>1 DEF WellFormed, Radix
    <3> QED BY <2>1, <3>1, <1>2, PrefixOrder
  <2>2. CASE lock[r] = Root
    <3>1. Root \notin Cached(t) /\ Root \notin Nodes(t)
      BY WellFormedKeys
    <3>2. \A a \in Key : IsPrefixOf(a, Root) => a = Root
      BY PrefixOrder, PrefixLen
    <3> QED BY <2>2, <3>1, <3>2, <1>2
  <2> QED BY <2>1, <2>2 DEF Anchored
<1> HIDE DEF child
<1>4. {r \in S : IsPrefixOf(k, lock[r])} = {r \in S : IsPrefixOf(child, lock[r])}
  BY <1>3
<1> QED BY <1>1, <1>2, <1>4 DEF Counted, s

\* _split_node moves no page between the locked and the unlocked segments.
LEMMA SplitSegments ==
  ASSUME NEW t, WellFormed(t), NEW k \in Cached(t) \ Nodes(t)
  PROVE  LET s == SplitNode(t, k) IN
         /\ Segments(s, UnlockedNodes(s)) = Segments(t, UnlockedNodes(t))
         /\ Segments(s, LockedNodes(s)) = Segments(t, LockedNodes(t))
<1> DEFINE s == SplitNode(t, k)
           child == t.node[k]
<1>1. /\ s.node = [l \in Cached(t) |->
                      IF t.node[l] = child /\ IsPrefixOf(l, k) THEN k ELSE t.node[l]]
      /\ s.lock_ref = [n \in Nodes(t) \cup {k} |->
                          IF n = k THEN t.lock_ref[child] ELSE t.lock_ref[n]]
      /\ Nodes(s) = Nodes(t) \cup {k}
      /\ Cached(s) = Cached(t)
  BY SplitFields
<1> HIDE DEF s
<1>2. \A l \in Cached(t) : t.node[l] \in Nodes(t)
  BY WellFormedKeys
<1>3. child \in Nodes(t)
  BY <1>2
<1> HIDE DEF child
<1>4. ASSUME NEW l \in Cached(t)
      PROVE  s.node[l] \in Nodes(s) /\ s.lock_ref[s.node[l]] = t.lock_ref[t.node[l]]
  BY <1>1, <1>2, <1>3
<1> QED BY <1>1, <1>2, <1>4 DEF Segments, UnlockedNodes, LockedNodes, s

\* _split_node keeps the books and every cached page where it was.
LEMMA SplitSound ==
  ASSUME NEW t, NEW S, NEW lock, Sound(t, S, lock), NEW k \in Cached(t) \cup {Root}
  PROVE  /\ Sound(SplitNode(t, k), S, lock)
         /\ SplitNode(t, k).value = t.value
         /\ Cached(SplitNode(t, k)) = Cached(t)
         /\ Nodes(SplitNode(t, k)) = Nodes(t) \cup ({k} \ {Root})
<1>1. CASE k = Root \/ k \in Nodes(t)
  BY <1>1 DEF SplitNode
<1>2. CASE k \in Cached(t) \ Nodes(t)
  <2> DEFINE s == SplitNode(t, k)
             child == t.node[k]
  <2>1. /\ s.value = t.value
        /\ s.lock_ref = [n \in Nodes(t) \cup {k} |->
                          IF n = k THEN t.lock_ref[child] ELSE t.lock_ref[n]]
        /\ s.evictable_size = t.evictable_size
        /\ s.protected_size = t.protected_size
        /\ s.evictable_leaves = t.evictable_leaves
        /\ Cached(s) = Cached(t)
        /\ Nodes(s) = Nodes(t) \cup {k}
    BY <1>2, SplitFields, ZenonT(60) DEF Sound
  <2>2. WellFormed(s) /\ WellFormed(t)
    BY SplitWellFormed DEF Sound
  <2>3. Anchored(s, S, lock)
    BY <2>1 DEF Sound, Anchored
  <2>4. Counted(s, S, lock)
    BY <1>2, SplitCounted DEF Sound
  <2>5. /\ NumTokens(s, UnlockedNodes(s)) = NumTokens(t, UnlockedNodes(t))
        /\ NumTokens(s, LockedNodes(s)) = NumTokens(t, LockedNodes(t))
    BY <1>2, <2>2, SplitSegments DEF NumTokens
  <2>6. child \in Nodes(t) /\ child \in Key /\ k \in Key /\ IsPrefixOf(k, child) /\ k # child
        /\ Nodes(t) \subseteq Key
    BY <1>2, <2>2, WellFormedKeys DEF WellFormed, Radix
  <2> HIDE DEF s, child
  <2>7. ~IsLeaf(s, k)
    BY <2>1, <2>6, LeafDef
  <2>8. ASSUME NEW n \in Nodes(t)
        PROVE  IsLeaf(s, n) <=> IsLeaf(t, n)
    BY <2>1, <2>6, LeafDef, PrefixOrder
  <2>9. {n \in Nodes(s) : s.lock_ref[n] = 0 /\ IsLeaf(s, n)}
          = {n \in Nodes(t) : t.lock_ref[n] = 0 /\ IsLeaf(t, n)}
    BY <1>2, <2>1, <2>7, <2>8
  <2>10. Accounts(s)
    BY <2>1, <2>5, <2>9 DEF Sound, Accounts
  <2>11. Nodes(s) = Nodes(t) \cup ({k} \ {Root})
    BY <1>2, <2>1, <2>2, WellFormedKeys
  <2> QED BY <2>1, <2>2, <2>3, <2>4, <2>10, <2>11 DEF Sound, s
<1> QED BY <1>1, <1>2

-----------------------------------------------------------------------------
(* _match_prefix_helper *)

\* A non-empty set of naturals has a least element.
LEMMA LeastNatural ==
  ASSUME NEW T \in SUBSET Nat, T # {}
  PROVE  \E x \in T : \A y \in T : x <= y
<1> DEFINE R == OpToRel(<, Nat)
<1>1. IsWellFoundedOn(R, Nat)
  BY NatLessThanWellFounded
<1>2. ASSUME NEW x \in T, NEW y \in T, y < x
      PROVE  <<y, x>> \in R
  BY <1>2 DEF OpToRel
<1> HIDE DEF R
<1>3. PICK x \in T : \A y \in T : ~ (<<y, x>> \in R)
  BY <1>1, WFMin
<1>4. \A y \in T : ~(y < x)
  BY <1>2, <1>3
<1> QED BY <1>4

\* match_prefix finds the longest cached prefix of the key; the choice in
\* LongestMatch has a value.
LEMMA LongestMatchFacts ==
  ASSUME NEW t, WellFormed(t), NEW k \in Key
  PROVE  LET m == LongestMatch(t, k) IN
         /\ m \in Cached(t) \cup {Root}
         /\ m \in Key
         /\ IsPrefixOf(m, k)
         /\ Whole(Len(m))
         /\ \A l \in Cached(t) : IsPrefixOf(l, k) => Len(l) <= Len(m) /\ IsPrefixOf(l, m)
<1> DEFINE C == Cached(t) \cup {Root}
           T == {n \in Nat : \E m \in C : IsPrefixOf(m, k) /\ n = Len(k) - Len(m)}
<1>1. C \subseteq Key /\ Cached(t) \subseteq Key
  BY WellFormedKeys, PrefixLen
<1>2. Len(k) \in T
  BY PrefixLen
<1>3. PICK x \in T : \A y \in T : x <= y
  BY <1>2, LeastNatural
<1>4. PICK m \in C : IsPrefixOf(m, k) /\ x = Len(k) - Len(m)
  BY <1>3
<1>5. ASSUME NEW l \in Cached(t), IsPrefixOf(l, k)
      PROVE  Len(l) <= Len(m)
  <2>1. Len(l) \in Nat /\ Len(m) \in Nat /\ Len(k) \in Nat /\ Len(l) <= Len(k)
    BY <1>1, <1>5, PrefixLen
  <2>2. Len(k) - Len(l) \in T
    BY <1>5, <2>1
  <2>3. x <= Len(k) - Len(l)
    BY <1>3, <2>2
  <2> QED BY <1>4, <2>1, <2>3
<1>6. \E z \in C : IsPrefixOf(z, k) /\ \A l \in Cached(t) : IsPrefixOf(l, k) => Len(l) <= Len(z)
  BY <1>4, <1>5
<1> DEFINE z == LongestMatch(t, k)
<1>7. z \in C /\ IsPrefixOf(z, k) /\ \A l \in Cached(t) : IsPrefixOf(l, k) => Len(l) <= Len(z)
  BY <1>6 DEF LongestMatch
<1> HIDE DEF z
<1>8. Whole(Len(z))
  BY <1>7, WholeMultiple, PrefixLen DEF WellFormed, Shape
<1>9. \A l \in Cached(t) : IsPrefixOf(l, k) => IsPrefixOf(l, z)
  BY <1>1, <1>7, PrefixChain
<1> QED BY <1>1, <1>7, <1>8, <1>9 DEF z

-----------------------------------------------------------------------------
(* _insert_helper *)

\* The paths an insert adds beyond n tokens: one for each page of the rest
\* of the key.
LEMMA NewPathsFacts ==
  ASSUME NEW k \in Key, Whole(Len(k)), NEW n \in Nat, Whole(n), n <= Len(k)
  PROVE  /\ \A l \in Key : l \in NewPaths(k, n)
                             <=> Whole(Len(l)) /\ IsPrefixOf(l, k) /\ n < Len(l)
         /\ NewPaths(k, n) \subseteq Key
         /\ IsFiniteSet(NewPaths(k, n))
         /\ PageSize * Cardinality(NewPaths(k, n)) = Len(k) - n
         /\ \A l \in NewPaths(k, n) :
              Len(l) \div PageSize \in (n \div PageSize) + 1 .. Len(k) \div PageSize
<1> DEFINE a == n \div PageSize
           b == Len(k) \div PageSize
           cut(i) == Prefix(k, i * PageSize)
<1>1. a \in Nat /\ b \in Nat /\ a <= b /\ n = a * PageSize /\ Len(k) = b * PageSize
      /\ Len(k) \in Nat
  BY DivFacts, DivMono, WholeMultiple, PrefixLen
<1>2. ASSUME NEW i \in a + 1 .. b
      PROVE  /\ i * PageSize \in 0 .. Len(k) /\ n < i * PageSize
             /\ cut(i) \in Key /\ Len(cut(i)) = i * PageSize
             /\ Whole(Len(cut(i))) /\ IsPrefixOf(cut(i), k)
             /\ Len(cut(i)) \div PageSize = i
  <2>1. i \in Nat /\ a < i /\ i <= b
    BY <1>1
  <2>2. i * PageSize \in 0 .. Len(k) /\ n < i * PageSize /\ (i * PageSize) \div PageSize = i
    BY <1>1, <2>1, MulFacts
  <2> QED BY <2>1, <2>2, PrefixFacts, WholeMultiple
<1>3. NewPaths(k, n) = {cut(i) : i \in a + 1 .. b}
  BY DEF NewPaths
<1>4. ASSUME NEW l \in Key, Whole(Len(l)), IsPrefixOf(l, k), n < Len(l)
      PROVE  l \in NewPaths(k, n)
  <2> DEFINE i == Len(l) \div PageSize
  <2>1. Len(l) \in 0 .. Len(k) /\ l = Prefix(k, Len(l))
    BY <1>4, PrefixIsCut
  <2>2. i \in Nat /\ Len(l) = i * PageSize
    BY <1>4, <2>1, DivFacts, WholeMultiple
  <2>3. a < i /\ i <= b
    <3> HIDE DEF a, b, i
    <3>1. Len(l) <= Len(k)
      BY <2>1
    <3>2. a * PageSize < i * PageSize /\ i * PageSize <= b * PageSize
      BY <1>1, <1>4, <2>2, <3>1
    <3> QED BY <1>1, <2>2, <3>2, MulFacts
  <2>4. i \in a + 1 .. b
    BY <1>1, <2>2, <2>3
  <2> QED BY <1>3, <2>1, <2>2, <2>4
<1>5. \A l \in NewPaths(k, n) : l \in Key /\ Whole(Len(l)) /\ IsPrefixOf(l, k) /\ n < Len(l)
      /\ Len(l) \div PageSize \in a + 1 .. b
  BY <1>2, <1>3
<1> DEFINE f == [i \in a + 1 .. b |-> cut(i)]
<1>6. f \in Bijection(a + 1 .. b, NewPaths(k, n))
  <2> HIDE DEF cut
  <2>1. f \in Surjection(a + 1 .. b, NewPaths(k, n))
    BY <1>3 DEF Surjection
  <2>2. \A i, j \in a + 1 .. b : cut(i) = cut(j) => i = j
    BY <1>2
  <2>3. f \in Injection(a + 1 .. b, NewPaths(k, n))
    BY <1>3, <2>2 DEF Injection, IsInjective
  <2> QED BY <2>1, <2>3 DEF Bijection
<1> HIDE DEF a, b, f, cut
<1>7. a + 1 \in Int /\ b \in Int
  BY <1>1
<1>8. IsFiniteSet(a + 1 .. b) /\ Cardinality(a + 1 .. b) = b - a
  <2>1. IF a + 1 > b THEN b - a = 0 ELSE b - (a + 1) + 1 = b - a
    BY <1>1
  <2> QED BY <1>7, <2>1, FS_Interval
<1>9. IsFiniteSet(NewPaths(k, n)) /\ Cardinality(NewPaths(k, n)) = b - a
  BY <1>6, <1>8, FS_Bijection DEF ExistsBijection
<1>10. PageSize * (b - a) = Len(k) - n
  BY <1>1, MulFacts, PageSizeAssumption
<1> QED BY <1>4, <1>5, <1>9, <1>10 DEF a, b

\* A key to hang below m: no more of it is cached than m.
Hangs(t, k, m) ==
  /\ k \in Key /\ Whole(Len(k))
  /\ m \in Nodes(t) \cup {Root}
  /\ IsPrefixOf(m, k) /\ m # k
  /\ \A l \in Cached(t) : IsPrefixOf(l, k) => IsPrefixOf(l, m)

\* The row has a page for every page of the key.
RowCovers(row, k) == row \in Seq(Page) /\ Len(k) \div PageSize <= Len(row)

\* The paths a new leaf adds are uncached, and are the rest of the key.
LEMMA HangsFacts ==
  ASSUME NEW t, WellFormed(t), NEW k, NEW m, Hangs(t, k, m)
  PROVE  LET new == NewPaths(k, Len(m)) IN
         /\ m \in Key /\ k \in Key /\ Len(m) \in Nat /\ Len(m) < Len(k) /\ Whole(Len(m))
         /\ k \in new
         /\ new \cap Cached(t) = {}
         /\ new \subseteq Key
         /\ \A l \in new : Whole(Len(l)) /\ IsPrefixOf(l, k) /\ l # Root
         /\ \A l \in Key : Whole(Len(l)) /\ IsPrefixOf(l, k) => l \in new \/ IsPrefixOf(l, m)
         /\ IsFiniteSet(new)
         /\ PageSize * Cardinality(new) = Len(k) - Len(m)
         /\ \A l \in new : Len(l) \div PageSize \in 1 .. Len(k) \div PageSize
<1> DEFINE new == NewPaths(k, Len(m))
<1>1. m \in Key /\ k \in Key
  BY WellFormedKeys, PrefixLen DEF Hangs
<1>2. Len(m) \in Nat /\ Len(m) <= Len(k) /\ Len(m) # Len(k) /\ Len(k) \in Nat
  BY <1>1, PrefixLen, PrefixAntisym DEF Hangs
<1>3. Whole(Len(m)) /\ Whole(Len(k))
  BY PrefixLen, WholeMultiple DEF Hangs, WellFormed, Shape
<1>4. /\ \A l \in Key : l \in new <=> Whole(Len(l)) /\ IsPrefixOf(l, k) /\ Len(m) < Len(l)
      /\ new \subseteq Key
      /\ IsFiniteSet(new)
      /\ PageSize * Cardinality(new) = Len(k) - Len(m)
      /\ \A l \in new : Len(l) \div PageSize \in (Len(m) \div PageSize) + 1 .. Len(k) \div PageSize
  BY <1>1, <1>2, <1>3, NewPathsFacts
<1> HIDE DEF new
<1>5. k \in new
  BY <1>1, <1>2, <1>3, <1>4, PrefixOrder
<1>6. ASSUME NEW l \in new, l \in Cached(t) PROVE FALSE
  <2>1. IsPrefixOf(l, m) /\ l \in Key
    BY <1>4, <1>6 DEF Hangs
  <2> QED BY <2>1, <1>1, <1>2, <1>4, PrefixLen
<1>7. ASSUME NEW l \in new PROVE l # Root /\ Len(l) \div PageSize \in 1 .. Len(k) \div PageSize
  <2>1. Len(m) \div PageSize \in Nat /\ Len(k) \div PageSize \in Nat
    BY <1>2, DivFacts
  <2> QED BY <2>1, <1>2, <1>4, PrefixLen
<1>8. ASSUME NEW l \in Key, Whole(Len(l)), IsPrefixOf(l, k)
      PROVE  l \in new \/ IsPrefixOf(l, m)
  <2>1. Len(l) \in Nat
    BY PrefixLen
  <2>2. CASE Len(m) < Len(l)
    BY <2>2, <1>4, <1>8
  <2>3. CASE Len(l) <= Len(m)
    BY <2>3, <1>1, <1>8, PrefixChain DEF Hangs
  <2> QED BY <2>1, <2>2, <2>3, <1>2
<1> QED BY <1>1, <1>2, <1>3, <1>4, <1>5, <1>6, <1>7, <1>8 DEF new

\* A leaf hung below its longest match keeps the tree well formed.
LEMMA AddLeafWellFormed ==
  ASSUME NEW t, WellFormed(t), NEW k, NEW m, Hangs(t, k, m), NEW row, RowCovers(row, k)
  PROVE  WellFormed(AddLeaf(t, k, row, m, NewPaths(k, Len(m))))
<1> DEFINE new == NewPaths(k, Len(m))
           s == AddLeaf(t, k, row, m, new)
<1>1. /\ DOMAIN s = TreeFields
      /\ s.value = [l \in Cached(t) \cup new |->
                      IF l \in new THEN row[Len(l) \div PageSize] ELSE t.value[l]]
      /\ s.node = [l \in Cached(t) \cup new |-> IF l \in new THEN k ELSE t.node[l]]
      /\ s.lock_ref = [n \in Nodes(t) \cup {k} |-> IF n = k THEN 0 ELSE t.lock_ref[n]]
  BY DEF AddLeaf, TreeFields
<1>2. Cached(s) = Cached(t) \cup new /\ Nodes(s) = Nodes(t) \cup {k}
  BY <1>1 DEF Cached, Nodes
<1>3. /\ m \in Key /\ k \in Key /\ k \in new /\ new \cap Cached(t) = {} /\ new \subseteq Key
      /\ \A l \in new : Whole(Len(l)) /\ IsPrefixOf(l, k) /\ l # Root
      /\ \A l \in Key : Whole(Len(l)) /\ IsPrefixOf(l, k) => l \in new \/ IsPrefixOf(l, m)
      /\ IsFiniteSet(new)
      /\ \A l \in new : Len(l) \div PageSize \in 1 .. Len(k) \div PageSize
      /\ Len(k) \in Nat
  BY HangsFacts, PrefixLen
<1> HIDE DEF new, s
<1>4. /\ Cached(t) \subseteq Key /\ Nodes(t) \subseteq Cached(t)
      /\ t.value \in [Cached(t) -> Page]
      /\ t.node \in [Cached(t) -> Nodes(t)]
      /\ t.lock_ref \in [Nodes(t) -> Nat]
      /\ IsFiniteSet(Cached(t))
      /\ \A l \in Cached(t) : l # Root /\ Whole(Len(l))
      /\ Closed(t) /\ Radix(t)
  BY DEF WellFormed, Shape
<1>5. m # Root => m \in Nodes(t)
  BY DEF Hangs
<1>6. \A l \in Cached(t) : IsPrefixOf(l, k) => IsPrefixOf(l, m) /\ m # Root
  <2>1. \A l \in Key : IsPrefixOf(l, Root) => l = Root
    BY PrefixOrder, PrefixLen
  <2> QED BY <2>1, <1>4 DEF Hangs
<1>7. Shape(s)
  <2>1. \A l \in new : row[Len(l) \div PageSize] \in Page
    <3>1. row \in Seq(Page) /\ Len(k) \div PageSize <= Len(row)
      BY DEF RowCovers
    <3>2. Len(row) \in Nat /\ \A i \in 1 .. Len(row) : row[i] \in Page
      BY <3>1
    <3>3. Len(k) \div PageSize \in Nat
      BY <1>3, DivFacts
    <3> QED BY <3>1, <3>2, <3>3, <1>3
  <2>2. s.value \in [Cached(s) -> Page]
    BY <1>1, <1>2, <1>4, <2>1
  <2>3. s.node \in [Cached(s) -> Nodes(s)] /\ s.lock_ref \in [Nodes(s) -> Nat]
    BY <1>1, <1>2, <1>4
  <2>4. IsFiniteSet(Cached(s))
    <3>1. IsFiniteSet(Cached(t)) /\ IsFiniteSet(new)
      BY <1>3, <1>4
    <3>2. IsFiniteSet(Cached(t) \cup new)
      BY <3>1, FS_Union
    <3> QED BY <3>2, <1>2
  <2>5. Nodes(s) \subseteq Cached(s) /\ \A l \in Cached(s) : l \in Key /\ l # Root /\ Whole(Len(l))
    BY <1>2, <1>3, <1>4
  <2> QED BY <1>1, <2>2, <2>3, <2>4, <2>5 DEF Shape
<1>8. Closed(s)
  <2>1. ASSUME NEW kk \in Cached(s), NEW l \in Key, l # Root, Whole(Len(l)), IsPrefixOf(l, kk)
        PROVE  l \in Cached(s)
    <3>1. CASE kk \in Cached(t)
      BY <3>1, <2>1, <1>2, <1>4 DEF Closed
    <3>2. CASE kk \in new
      <4>1. IsPrefixOf(l, k)
        BY <3>2, <2>1, <1>3, PrefixOrder
      <4>2. CASE IsPrefixOf(l, m)
        <5>1. m # Root
          BY <4>2, <2>1, PrefixOrder, PrefixLen
        <5>2. m \in Cached(t)
          BY <5>1, <1>4, <1>5
        <5> QED BY <4>2, <5>2, <2>1, <1>2, <1>4 DEF Closed
      <4> QED BY <4>1, <4>2, <1>2, <1>3, <2>1
    <3> QED BY <3>1, <3>2, <1>2
  <2> QED BY <2>1 DEF Closed
<1>9. Radix(s)
  <2>1. \A n \in Nodes(s) : s.node[n] = n
    BY <1>1, <1>2, <1>3, <1>4 DEF Radix
  <2>2. \A l \in Cached(s) : IsPrefixOf(l, s.node[l])
    BY <1>1, <1>2, <1>3, <1>4 DEF Radix
  <2>3. ASSUME NEW l \in Cached(s), NEW n \in Nodes(s), IsPrefixOf(l, n)
        PROVE  IsPrefixOf(s.node[l], n)
    <3>1. CASE l \in new
      <4>1. s.node[l] = k
        BY <3>1, <1>1, <1>2
      <4>2. n \notin Nodes(t)
        BY <3>1, <2>3, <1>3, <1>4 DEF Closed
      <4>3. n = k
        BY <4>2, <1>2
      <4> QED BY <4>1, <4>3, <1>3, PrefixOrder
    <3>2. CASE l \in Cached(t)
      <4>1. s.node[l] = t.node[l]
        BY <3>2, <1>1, <1>2, <1>3
      <4>2. CASE n \in Nodes(t)
        BY <4>1, <4>2, <3>2, <2>3, <1>4 DEF Radix
      <4>3. CASE n = k
        <5>1. m \in Nodes(t) /\ IsPrefixOf(l, m)
          BY <4>3, <3>2, <2>3, <1>5, <1>6
        <5>2. IsPrefixOf(t.node[l], m) /\ t.node[l] \in Key
          BY <5>1, <3>2, <1>4 DEF Radix
        <5>3. IsPrefixOf(m, k)
          BY DEF Hangs
        <5> QED BY <4>1, <4>3, <5>2, <5>3, <1>3, PrefixOrder
      <4> QED BY <4>2, <4>3, <1>2
    <3> QED BY <3>1, <3>2, <1>2
  <2> QED BY <2>1, <2>2, <2>3 DEF Radix
<1> QED BY <1>7, <1>8, <1>9 DEF WellFormed, s, new

\* The tokens of disjoint sets of pages add up.
LEMMA DisjointTokens ==
  ASSUME NEW A, NEW B, IsFiniteSet(A), IsFiniteSet(B), A \cap B = {}
  PROVE  /\ PageSize * Cardinality(A \cup B) = PageSize * Cardinality(A) + PageSize * Cardinality(B)
         /\ PageSize * Cardinality(A) \in Nat
         /\ PageSize * Cardinality(B) \in Nat
<1>1. Cardinality(A) \in Nat /\ Cardinality(B) \in Nat
  BY FS_CardinalityType
<1>2. Cardinality(A \cup B) = Cardinality(A) + Cardinality(B) - Cardinality(A \cap B)
  BY FS_Union
<1>3. Cardinality(A \cap B) = 0
  BY FS_EmptySet
<1>4. Cardinality(A \cup B) = Cardinality(A) + Cardinality(B)
  BY <1>1, <1>2, <1>3
<1> QED BY <1>1, <1>4, PageSizeAssumption

\* The tokens below a set of nodes are counted by a natural number.
LEMMA SegmentsFinite ==
  ASSUME NEW t, WellFormed(t), NEW S
  PROVE  IsFiniteSet(Segments(t, S)) /\ NumTokens(t, S) \in Nat
<1>1. Segments(t, S) \in SUBSET Cached(t) /\ IsFiniteSet(Cached(t))
  BY DEF Segments, WellFormed, Shape
<1>2. IsFiniteSet(Segments(t, S))
  BY <1>1, FS_Subset
<1>3. Cardinality(Segments(t, S)) \in Nat
  BY <1>2, FS_CardinalityType
<1> QED BY <1>2, <1>3, PageSizeAssumption DEF NumTokens

\* A new leaf adds its tokens to evictable_size, enters evictable_leaves and
\* takes its parent out.
LEMMA AddLeafSound ==
  ASSUME NEW t, NEW S, NEW lock, Sound(t, S, lock),
         NEW k, NEW m, Hangs(t, k, m), NEW row, RowCovers(row, k)
  PROVE  Sound(AddLeaf(t, k, row, m, NewPaths(k, Len(m))), S, lock)
<1> DEFINE new == NewPaths(k, Len(m))
           s == AddLeaf(t, k, row, m, new)
<1>1. /\ s.value = [l \in Cached(t) \cup new |->
                      IF l \in new THEN row[Len(l) \div PageSize] ELSE t.value[l]]
      /\ s.node = [l \in Cached(t) \cup new |-> IF l \in new THEN k ELSE t.node[l]]
      /\ s.lock_ref = [n \in Nodes(t) \cup {k} |-> IF n = k THEN 0 ELSE t.lock_ref[n]]
      /\ s.evictable_size = t.evictable_size + (Len(k) - Len(m))
      /\ s.protected_size = t.protected_size
      /\ s.evictable_leaves = (t.evictable_leaves \ {m}) \cup {k}
  BY DEF AddLeaf
<1>2. Cached(s) = Cached(t) \cup new /\ Nodes(s) = Nodes(t) \cup {k}
  BY <1>1 DEF Cached, Nodes
<1>3. WellFormed(t) /\ WellFormed(s)
  BY AddLeafWellFormed DEF Sound
<1>4. /\ m \in Key /\ k \in Key /\ k \in new /\ new \cap Cached(t) = {}
      /\ IsFiniteSet(new)
      /\ PageSize * Cardinality(new) = Len(k) - Len(m)
  BY <1>3, HangsFacts
<1> HIDE DEF new, s
<1>5. Nodes(t) \subseteq Cached(t) /\ Cached(t) \subseteq Key /\ k \notin Cached(t)
      /\ \A l \in Cached(t) : t.node[l] \in Nodes(t)
  BY <1>3, <1>4, WellFormedKeys DEF WellFormed, Shape
<1>6. \A n \in Nodes(t) : ~IsPrefixOf(k, n)
  <2>1. k # Root /\ Whole(Len(k))
    BY <1>4, <1>2, <1>3 DEF WellFormed, Shape
  <2> QED BY <2>1, <1>3, <1>4, <1>5 DEF WellFormed, Closed
<1>7. Anchored(s, S, lock)
  BY <1>2 DEF Sound, Anchored
<1>8. Counted(s, S, lock)
  <2>1. k # Root /\ ~IsPrefixOf(k, Root)
    BY <1>2, <1>3, <1>4, WellFormedKeys, PrefixOrder, PrefixLen
  <2>2. {r \in S : IsPrefixOf(k, lock[r])} = {}
    BY <2>1, <1>6 DEF Sound, Anchored
  <2>3. Cardinality({r \in S : IsPrefixOf(k, lock[r])}) = 0
    BY <2>2, FS_EmptySet
  <2>4. \A n \in Nodes(t) : n # k /\ s.lock_ref[n] = t.lock_ref[n]
    BY <1>1, <1>5
  <2>5. ASSUME NEW n \in Nodes(s)
        PROVE  s.lock_ref[n] = Cardinality({r \in S : IsPrefixOf(n, lock[r])})
    <3>1. CASE n = k
      BY <3>1, <1>1, <2>3
    <3>2. CASE n \in Nodes(t)
      BY <3>2, <2>4 DEF Sound, Counted
    <3> QED BY <3>1, <3>2, <1>2
  <2> QED BY <2>5 DEF Counted
<1>9. Segments(s, UnlockedNodes(s)) = Segments(t, UnlockedNodes(t)) \cup new
  BY <1>1, <1>2, <1>4, <1>5 DEF Segments, UnlockedNodes
<1>10. Segments(s, LockedNodes(s)) = Segments(t, LockedNodes(t))
  BY <1>1, <1>2, <1>4, <1>5 DEF Segments, LockedNodes
<1>11. NumTokens(s, UnlockedNodes(s)) = NumTokens(t, UnlockedNodes(t)) + (Len(k) - Len(m))
  <2>1. IsFiniteSet(Segments(t, UnlockedNodes(t)))
    BY <1>3, SegmentsFinite
  <2>2. Segments(t, UnlockedNodes(t)) \cap new = {}
    BY <1>4 DEF Segments
  <2> QED BY <1>4, <1>9, <2>1, <2>2, DisjointTokens DEF NumTokens
<1>12. IsLeaf(s, k)
  BY <1>2, <1>6, LeafDef
<1>13. m \in Nodes(t) => ~IsLeaf(s, m)
  BY <1>2, LeafDef DEF Hangs
<1>14. ASSUME NEW n \in Nodes(t), n # m
       PROVE  IsLeaf(s, n) <=> IsLeaf(t, n)
  <2>1. IsPrefixOf(n, k) => IsPrefixOf(n, m)
    BY <1>5 DEF Hangs
  <2>2. IsPrefixOf(n, k) => m # Root
    BY <2>1, <1>3, <1>5, WellFormedKeys, PrefixOrder, PrefixLen
  <2>3. IsPrefixOf(n, k) => m \in Nodes(t)
    BY <2>2 DEF Hangs
  <2> QED BY <1>2, <1>14, <2>1, <2>3, LeafDef
<1>15. s.evictable_leaves = {n \in Nodes(s) : s.lock_ref[n] = 0 /\ IsLeaf(s, n)}
  <2>1. t.evictable_leaves = {n \in Nodes(t) : t.lock_ref[n] = 0 /\ IsLeaf(t, n)}
    BY DEF Sound, Accounts
  <2>2. \A n \in Nodes(t) : n # k
    BY <1>5
  <2>3. \A n \in Nodes(t) : s.lock_ref[n] = t.lock_ref[n]
    BY <1>1, <2>2
  <2>4. s.lock_ref[k] = 0
    BY <1>1
  <2>5. ASSUME NEW x PROVE x \in s.evictable_leaves <=> x \in Nodes(s) /\ s.lock_ref[x] = 0 /\ IsLeaf(s, x)
    BY <1>1, <1>2, <2>1, <2>2, <2>3, <2>4, <1>12, <1>13, <1>14
  <2> QED BY <2>5
<1>16. Accounts(s)
  BY <1>1, <1>10, <1>11, <1>15 DEF Sound, Accounts, NumTokens
<1> QED BY <1>3, <1>7, <1>8, <1>16 DEF Sound, s, new

\* insert: the tree keeps what it had, at the pages where it was, and has the
\* rest of the key at the pages of the row.
LEMMA InsertSound ==
  ASSUME NEW t, NEW S, NEW lock, Sound(t, S, lock),
         NEW k \in Key, Whole(Len(k)), NEW row, RowCovers(row, k)
  PROVE  LET s == Insert(t, k, row)
             new == NewPaths(k, Len(LongestMatch(t, k)))
         IN /\ Sound(s, S, lock)
            /\ Cached(s) = Cached(t) \cup new
            /\ new \cap Cached(t) = {}
            /\ k \in Nodes(s) \cup {Root}
            /\ Nodes(t) \subseteq Nodes(s)
            /\ \A l \in Cached(t) : s.value[l] = t.value[l]
            /\ \A l \in new : s.value[l] = row[Len(l) \div PageSize]
<1> DEFINE s == Insert(t, k, row)
           m == LongestMatch(t, k)
           new == NewPaths(k, Len(m))
           u == SplitNode(t, m)
<1>1. WellFormed(t)
  BY DEF Sound
<1>2. /\ m \in Cached(t) \cup {Root} /\ m \in Key /\ IsPrefixOf(m, k) /\ Whole(Len(m))
      /\ \A l \in Cached(t) : IsPrefixOf(l, k) => Len(l) <= Len(m) /\ IsPrefixOf(l, m)
  BY <1>1, LongestMatchFacts
<1>3. s = IF m = k THEN u ELSE AddLeaf(u, k, row, m, new)
  BY DEF Insert, InsertBeyond
<1> HIDE DEF m
<1>4. /\ Sound(u, S, lock) /\ u.value = t.value /\ Cached(u) = Cached(t)
      /\ Nodes(u) = Nodes(t) \cup ({m} \ {Root})
  BY <1>2, SplitSound
<1> HIDE DEF s, u
<1>5. CASE m = k
  <2>1. new = {}
    <3>1. Len(k) \in Nat /\ Len(m) = Len(k)
      BY <1>5, PrefixLen
    <3>2. \A l \in new : l \in Key /\ IsPrefixOf(l, k) /\ Len(m) < Len(l)
      BY <3>1, <1>2, NewPathsFacts
    <3> QED BY <3>1, <3>2, PrefixLen
  <2> HIDE DEF new
  <2> QED BY <1>3, <1>4, <1>5, <2>1 DEF s, u, m, new
<1>6. CASE m # k
  <2>1. Hangs(u, k, m)
    BY <1>2, <1>4, <1>6 DEF Hangs
  <2>2. Sound(s, S, lock)
    BY <2>1, <1>3, <1>4, <1>6, AddLeafSound
  <2>3. k \in new /\ new \cap Cached(u) = {}
    BY <2>1, <1>4, HangsFacts DEF Sound
  <2> HIDE DEF new
  <2>4. /\ s.value = [l \in Cached(u) \cup new |->
                       IF l \in new THEN row[Len(l) \div PageSize] ELSE u.value[l]]
        /\ s.lock_ref = [n \in Nodes(u) \cup {k} |-> IF n = k THEN 0 ELSE u.lock_ref[n]]
    BY <1>3, <1>6 DEF AddLeaf
  <2>5. Cached(s) = Cached(t) \cup new /\ Nodes(s) = Nodes(u) \cup {k}
    BY <2>4, <1>4 DEF Cached, Nodes
  <2>6. \A l \in Cached(t) : l \notin new
    BY <2>3, <1>4
  <2> QED BY <1>4, <2>2, <2>3, <2>4, <2>5, <2>6 DEF s, new, m
<1> QED BY <1>5, <1>6

-----------------------------------------------------------------------------
(* inc_lock_ref and dec_lock_ref *)

\* The tokens of disjoint sets of nodes add up.
LEMMA TokensAdd ==
  ASSUME NEW t, WellFormed(t), NEW A, NEW B, A \cap B = {}
  PROVE  NumTokens(t, A \cup B) = NumTokens(t, A) + NumTokens(t, B)
<1>1. Segments(t, A \cup B) = Segments(t, A) \cup Segments(t, B)
      /\ Segments(t, A) \cap Segments(t, B) = {}
  BY DEF Segments
<1>2. IsFiniteSet(Segments(t, A)) /\ IsFiniteSet(Segments(t, B))
  BY SegmentsFinite
<1>3. PageSize * Cardinality(Segments(t, A) \cup Segments(t, B))
        = PageSize * Cardinality(Segments(t, A)) + PageSize * Cardinality(Segments(t, B))
  BY <1>1, <1>2, DisjointTokens
<1> QED BY <1>1, <1>3 DEF NumTokens

\* The trees differ in lock counts and counters only.
SameNodes(s, t) ==
  /\ DOMAIN s = TreeFields
  /\ s.value = t.value
  /\ s.node = t.node
  /\ s.lock_ref \in [Nodes(t) -> Nat]

\* What depends on the nodes alone is the same in both trees.
LEMMA SameNodesFacts ==
  ASSUME NEW s, NEW t, WellFormed(t), SameNodes(s, t)
  PROVE  /\ WellFormed(s)
         /\ Cached(s) = Cached(t)
         /\ Nodes(s) = Nodes(t)
         /\ \A A : NumTokens(s, A) = NumTokens(t, A)
         /\ \A n : IsLeaf(s, n) <=> IsLeaf(t, n)
<1>1. Cached(s) = Cached(t) /\ Nodes(s) = Nodes(t)
  BY DEF SameNodes, Cached, Nodes
<1>2. \A A : NumTokens(s, A) = NumTokens(t, A)
  BY <1>1 DEF SameNodes, NumTokens, Segments
<1>3. \A n : IsLeaf(s, n) <=> IsLeaf(t, n)
  BY <1>1 DEF IsLeaf, Descendants
<1>4. Shape(s)
  BY <1>1 DEF SameNodes, WellFormed, Shape
<1>5. Closed(s)
  BY <1>1 DEF WellFormed, Closed
<1>6. Radix(s)
  BY <1>1 DEF SameNodes, WellFormed, Radix
<1> QED BY <1>1, <1>2, <1>3, <1>4, <1>5, <1>6 DEF WellFormed

\* inc_lock_ref counts one more holder on its path and moves the tokens it
\* is the first to lock.
LEMMA IncSound ==
  ASSUME NEW t, NEW S, NEW lock, Sound(t, S, lock), IsFiniteSet(S),
         NEW r, r \notin S, NEW lock2, \A x \in S : lock2[x] = lock[x],
         lock2[r] \in Nodes(t) \cup {Root}
  PROVE  LET s == IncLockRef(t, lock2[r])
         IN /\ Sound(s, S \cup {r}, lock2)
            /\ s.value = t.value /\ Cached(s) = Cached(t) /\ Nodes(s) = Nodes(t)
<1> DEFINE n == lock2[r]
           s == IncLockRef(t, n)
           path == PathTo(t, n)
           fresh == {m \in path : t.lock_ref[m] = 0}
<1>1. WellFormed(t) /\ DOMAIN t = TreeFields /\ t.lock_ref \in [Nodes(t) -> Nat]
  BY DEF Sound, WellFormed, Shape
<1>2. /\ DOMAIN s = TreeFields
      /\ s.value = t.value
      /\ s.node = t.node
      /\ s.lock_ref = [m \in Nodes(t) |->
                        IF m \in path THEN t.lock_ref[m] + 1 ELSE t.lock_ref[m]]
      /\ s.evictable_size = t.evictable_size - NumTokens(t, fresh)
      /\ s.protected_size = t.protected_size + NumTokens(t, fresh)
      /\ s.evictable_leaves = t.evictable_leaves \ path
  BY <1>1 DEF IncLockRef, TreeFields
<1>3. path \subseteq Nodes(t) /\ \A m \in Nodes(t) : m \in path <=> IsPrefixOf(m, n)
  BY DEF PathTo
<1> HIDE DEF s, path, n
<1>4. SameNodes(s, t)
  BY <1>1, <1>2 DEF SameNodes
<1>5. /\ WellFormed(s) /\ Cached(s) = Cached(t) /\ Nodes(s) = Nodes(t)
      /\ \A A : NumTokens(s, A) = NumTokens(t, A)
      /\ \A m : IsLeaf(s, m) <=> IsLeaf(t, m)
  BY <1>1, <1>4, SameNodesFacts
<1>6. Anchored(s, S \cup {r}, lock2)
  BY <1>5 DEF Sound, Anchored
<1>7. ASSUME NEW m \in Nodes(s)
      PROVE  s.lock_ref[m] = Cardinality({x \in S \cup {r} : IsPrefixOf(m, lock2[x])})
  <2> DEFINE C == {x \in S : IsPrefixOf(m, lock[x])}
             D == {x \in S \cup {r} : IsPrefixOf(m, lock2[x])}
  <2>1. t.lock_ref[m] = Cardinality(C) /\ m \in Nodes(t)
    BY <1>5 DEF Sound, Counted
  <2>2. IsFiniteSet(C) /\ r \notin C
    <3>1. C \in SUBSET S
      OBVIOUS
    <3> QED BY <3>1, FS_Subset
  <2>3. CASE m \in path
    <3>1. D = C \cup {r}
      BY <2>1, <2>3, <1>3 DEF n
    <3>2. Cardinality(C \cup {r}) = Cardinality(C) + 1
      BY <2>2, FS_AddElement
    <3> QED BY <2>1, <2>3, <3>1, <3>2, <1>2
  <2>4. CASE m \notin path
    <3>1. D = C
      BY <2>1, <2>4, <1>3 DEF n
    <3> QED BY <2>1, <2>4, <3>1, <1>2
  <2> QED BY <2>3, <2>4
<1>8. Counted(s, S \cup {r}, lock2)
  BY <1>7 DEF Counted
<1>9. /\ UnlockedNodes(t) = UnlockedNodes(s) \cup fresh
      /\ UnlockedNodes(s) \cap fresh = {}
      /\ LockedNodes(s) = LockedNodes(t) \cup fresh
      /\ LockedNodes(t) \cap fresh = {}
  BY <1>1, <1>2, <1>3, <1>5 DEF UnlockedNodes, LockedNodes
<1> HIDE DEF fresh
<1>10. NumTokens(t, UnlockedNodes(t)) = NumTokens(t, UnlockedNodes(s)) + NumTokens(t, fresh)
  BY <1>1, <1>9, TokensAdd
<1>11. NumTokens(t, LockedNodes(s)) = NumTokens(t, LockedNodes(t)) + NumTokens(t, fresh)
  BY <1>1, <1>9, TokensAdd
<1>12. NumTokens(t, fresh) \in Nat /\ NumTokens(t, UnlockedNodes(s)) \in Nat
  BY <1>1, SegmentsFinite
<1>13. s.evictable_size = NumTokens(t, UnlockedNodes(s))
  BY <1>2, <1>10, <1>12 DEF Sound, Accounts
<1>14. s.protected_size = NumTokens(t, LockedNodes(s))
  BY <1>2, <1>11 DEF Sound, Accounts
<1>15. s.evictable_leaves = {m \in Nodes(s) : s.lock_ref[m] = 0 /\ IsLeaf(s, m)}
  <2>1. t.evictable_leaves = {m \in Nodes(t) : t.lock_ref[m] = 0 /\ IsLeaf(t, m)}
    BY DEF Sound, Accounts
  <2> QED BY <2>1, <1>1, <1>2, <1>3, <1>5
<1>16. Accounts(s)
  BY <1>5, <1>13, <1>14, <1>15 DEF Accounts
<1> QED BY <1>2, <1>5, <1>6, <1>8, <1>16 DEF Sound, s, n

\* dec_lock_ref counts one holder less on its path and moves the tokens it
\* is the last to unlock.
LEMMA DecSound ==
  ASSUME NEW t, NEW S, NEW lock, Sound(t, S, lock), IsFiniteSet(S), NEW r \in S
  PROVE  LET s == DecLockRef(t, lock[r])
         IN /\ Sound(s, S \ {r}, lock)
            /\ s.value = t.value /\ Cached(s) = Cached(t) /\ Nodes(s) = Nodes(t)
<1> DEFINE n == lock[r]
           s == DecLockRef(t, n)
           path == PathTo(t, n)
           freed == {m \in path : t.lock_ref[m] = 1}
<1>1. WellFormed(t) /\ DOMAIN t = TreeFields /\ t.lock_ref \in [Nodes(t) -> Nat]
  BY DEF Sound, WellFormed, Shape
<1>2. /\ DOMAIN s = TreeFields
      /\ s.value = t.value
      /\ s.node = t.node
      /\ s.lock_ref = [m \in Nodes(t) |->
                        IF m \in path THEN t.lock_ref[m] - 1 ELSE t.lock_ref[m]]
      /\ s.evictable_size = t.evictable_size + NumTokens(t, freed)
      /\ s.protected_size = t.protected_size - NumTokens(t, freed)
      /\ s.evictable_leaves = t.evictable_leaves \cup {m \in freed : IsLeaf(t, m)}
  BY <1>1 DEF DecLockRef, TreeFields
<1>3. path \subseteq Nodes(t) /\ \A m \in Nodes(t) : m \in path <=> IsPrefixOf(m, n)
  BY DEF PathTo
<1> HIDE DEF s, path
<1>7. ASSUME NEW m \in Nodes(t)
      PROVE  /\ m \in path => t.lock_ref[m] - 1 \in Nat
             /\ s.lock_ref[m] = Cardinality({x \in S \ {r} : IsPrefixOf(m, lock[x])})
  <2> DEFINE C == {x \in S : IsPrefixOf(m, lock[x])}
             D == {x \in S \ {r} : IsPrefixOf(m, lock[x])}
  <2>1. t.lock_ref[m] = Cardinality(C)
    BY DEF Sound, Counted
  <2>2. IsFiniteSet(C) /\ IsFiniteSet(D)
    <3>1. C \in SUBSET S /\ D \in SUBSET S
      OBVIOUS
    <3> QED BY <3>1, FS_Subset
  <2>3. CASE m \in path
    <3>1. D = C \ {r} /\ r \in C
      BY <2>3, <1>3
    <3>2. Cardinality(C \ {r}) = Cardinality(C) - 1
      BY <2>2, <3>1, FS_RemoveElement
    <3>3. Cardinality(D) \in Nat
      BY <2>2, FS_CardinalityType
    <3>4. s.lock_ref[m] = t.lock_ref[m] - 1
      BY <1>2, <2>3
    <3>5. Cardinality(D) = t.lock_ref[m] - 1
      BY <2>1, <3>1, <3>2
    <3> QED BY <3>3, <3>4, <3>5
  <2>4. CASE m \notin path
    <3>1. D = C
      BY <2>4, <1>3
    <3> QED BY <2>1, <2>4, <3>1, <1>2
  <2> QED BY <2>3, <2>4
<1> HIDE DEF n
<1>17. \A m \in path : t.lock_ref[m] - 1 \in Nat
  BY <1>3, <1>7
<1>4. SameNodes(s, t)
  <2>1. s.lock_ref \in [Nodes(t) -> Nat]
    BY <1>1, <1>2, <1>17
  <2> QED BY <1>2, <2>1 DEF SameNodes
<1>5. /\ WellFormed(s) /\ Cached(s) = Cached(t) /\ Nodes(s) = Nodes(t)
      /\ \A A : NumTokens(s, A) = NumTokens(t, A)
      /\ \A m : IsLeaf(s, m) <=> IsLeaf(t, m)
  BY <1>1, <1>4, SameNodesFacts
<1>6. Anchored(s, S \ {r}, lock)
  BY <1>5 DEF Sound, Anchored
<1>8. Counted(s, S \ {r}, lock)
  BY <1>5, <1>7 DEF Counted
<1>9. /\ UnlockedNodes(s) = UnlockedNodes(t) \cup freed
      /\ UnlockedNodes(t) \cap freed = {}
      /\ LockedNodes(t) = LockedNodes(s) \cup freed
      /\ LockedNodes(s) \cap freed = {}
  BY <1>1, <1>2, <1>3, <1>5, <1>17 DEF UnlockedNodes, LockedNodes
<1>18. freed \subseteq Nodes(t) /\ UnlockedNodes(s) \subseteq Nodes(s)
  BY <1>3 DEF UnlockedNodes
<1> HIDE DEF freed
<1>10. NumTokens(t, UnlockedNodes(s)) = NumTokens(t, UnlockedNodes(t)) + NumTokens(t, freed)
  BY <1>1, <1>9, TokensAdd
<1>11. NumTokens(t, LockedNodes(t)) = NumTokens(t, LockedNodes(s)) + NumTokens(t, freed)
  BY <1>1, <1>9, TokensAdd
<1>12. NumTokens(t, freed) \in Nat /\ NumTokens(t, LockedNodes(s)) \in Nat
  BY <1>1, SegmentsFinite
<1>13. s.evictable_size = NumTokens(t, UnlockedNodes(s))
  BY <1>2, <1>10 DEF Sound, Accounts
<1>14. s.protected_size = NumTokens(t, LockedNodes(s))
  BY <1>2, <1>11, <1>12 DEF Sound, Accounts
<1>15. s.evictable_leaves = {m \in Nodes(s) : s.lock_ref[m] = 0 /\ IsLeaf(s, m)}
  <2>1. t.evictable_leaves = {m \in UnlockedNodes(t) : IsLeaf(t, m)}
    BY DEF Sound, Accounts, UnlockedNodes
  <2>2. s.evictable_leaves = {m \in UnlockedNodes(s) : IsLeaf(s, m)}
    BY <2>1, <1>2, <1>5, <1>9
  <2> QED BY <2>2 DEF UnlockedNodes
<1>16. Accounts(s)
  BY <1>5, <1>13, <1>14, <1>15 DEF Accounts
<1> QED BY <1>2, <1>5, <1>6, <1>8, <1>16 DEF Sound, s, n

-----------------------------------------------------------------------------
(* evict *)

\* Nobody has locked the nodes of E, and nothing hangs below them.
Removable(t, E) ==
  /\ E \subseteq Nodes(t)
  /\ \A n \in E : t.lock_ref[n] = 0
  /\ \A n \in E, c \in Nodes(t) : IsPrefixOf(n, c) => c \in E

\* evict takes only unlocked nodes, and a node only after everything below
\* it.
LEMMA EvictableRemovable ==
  ASSUME NEW t, Accounts(t), NEW num, NEW E \in EvictableSets(t, num)
  PROVE  Removable(t, E)
<1>1. E \subseteq Nodes(t) /\ \A n \in E : InHeap(t, n, E)
  BY DEF EvictableSets
<1>2. ASSUME NEW n \in E
      PROVE  /\ t.lock_ref[n] = 0
             /\ \A c \in Nodes(t) : IsPrefixOf(n, c) => c \in E
  <2>1. CASE n \in t.evictable_leaves
    BY <2>1, LeafDef DEF Accounts
  <2>2. CASE t.lock_ref[n] = 0 /\ Descendants(t, n) \subseteq E
    BY <2>2 DEF Descendants, IsProperPrefixOf
  <2> QED BY <1>1, <2>1, <2>2 DEF InHeap
<1> QED BY <1>1, <1>2 DEF Removable

\* Deleting such nodes keeps the tree well formed and the other pages where
\* they were.
LEMMA DeleteWellFormed ==
  ASSUME NEW t, WellFormed(t), NEW E, Removable(t, E)
  PROVE  LET s == DeleteNodes(t, E) IN
         /\ WellFormed(s)
         /\ Nodes(s) = Nodes(t) \ E
         /\ Cached(s) = Cached(t) \ Segments(t, E)
         /\ \A k \in Cached(s) : s.value[k] = t.value[k] /\ s.node[k] = t.node[k]
         /\ \A n \in Nodes(s) : s.lock_ref[n] = t.lock_ref[n]
<1> DEFINE s == DeleteNodes(t, E)
           kept == Nodes(t) \ E
           left == Cached(t) \ Segments(t, E)
<1>1. /\ DOMAIN s = TreeFields
      /\ s.value = [k \in left |-> t.value[k]]
      /\ s.node = [k \in left |-> t.node[k]]
      /\ s.lock_ref = [n \in kept |-> t.lock_ref[n]]
  BY DEF DeleteNodes, TreeFields
<1>2. Cached(s) = left /\ Nodes(s) = kept
  BY <1>1 DEF Cached, Nodes
<1> HIDE DEF s
<1>3. /\ Cached(t) \subseteq Key /\ Nodes(t) \subseteq Cached(t)
      /\ t.value \in [Cached(t) -> Page]
      /\ t.node \in [Cached(t) -> Nodes(t)]
      /\ t.lock_ref \in [Nodes(t) -> Nat]
      /\ IsFiniteSet(Cached(t))
      /\ \A l \in Cached(t) : l # Root /\ Whole(Len(l))
      /\ Closed(t) /\ Radix(t)
  BY DEF WellFormed, Shape
<1>4. \A k \in Cached(t) : k \in left <=> t.node[k] \notin E
  BY DEF Segments
<1>5. left \subseteq Cached(t)
  OBVIOUS
<1> HIDE DEF left
<1>6. Shape(s)
  <2>1. IsFiniteSet(left)
    BY <1>3, <1>5, FS_Subset
  <2>2. kept \subseteq left
    BY <1>3, <1>4 DEF Radix
  <2>3. s.value \in [Cached(s) -> Page] /\ s.node \in [Cached(s) -> Nodes(s)]
        /\ s.lock_ref \in [Nodes(s) -> Nat]
    BY <1>1, <1>2, <1>3, <1>4, <1>5
  <2> QED BY <1>1, <1>2, <1>3, <1>5, <2>1, <2>2, <2>3 DEF Shape
<1>7. Closed(s)
  <2>1. ASSUME NEW k \in Cached(s), NEW l \in Key, l # Root, Whole(Len(l)), IsPrefixOf(l, k)
        PROVE  l \in Cached(s)
    <3>1. k \in Cached(t) /\ l \in Cached(t)
      BY <2>1, <1>2, <1>3, <1>5 DEF Closed
    <3>2. IsPrefixOf(l, t.node[k])
      BY <3>1, <2>1, <1>3, PrefixOrder DEF Radix
    <3>3. IsPrefixOf(t.node[l], t.node[k])
      BY <3>1, <3>2, <1>3 DEF Radix
    <3>4. t.node[k] \notin E /\ t.node[k] \in Nodes(t)
      BY <3>1, <1>2, <1>3, <1>4
    <3>5. t.node[l] \notin E
      BY <3>3, <3>4 DEF Removable
    <3> QED BY <3>1, <3>5, <1>2, <1>4
  <2> QED BY <2>1 DEF Closed
<1>8. Radix(s)
  BY <1>1, <1>2, <1>3, <1>4, <1>5, <1>6 DEF Radix, Shape
<1> QED BY <1>1, <1>2, <1>6, <1>7, <1>8 DEF WellFormed, s, left

\* What a lock protects is not in E.
LEMMA LockedNotRemovable ==
  ASSUME NEW t, NEW S, NEW lock, Sound(t, S, lock), IsFiniteSet(S), NEW E, Removable(t, E),
         NEW r \in S
  PROVE  /\ lock[r] \notin E
         /\ \A k \in Cached(t) : IsPrefixOf(k, lock[r]) => t.node[k] \notin E
<1>1. WellFormed(t)
  BY DEF Sound
<1>2. ASSUME NEW n \in E, IsPrefixOf(n, lock[r]) PROVE FALSE
  <2> DEFINE C == {x \in S : IsPrefixOf(n, lock[x])}
  <2>1. t.lock_ref[n] = 0 /\ n \in Nodes(t)
    BY DEF Removable
  <2>2. Cardinality(C) = 0
    BY <2>1 DEF Sound, Counted
  <2>3. C \in SUBSET S /\ r \in C
    BY <1>2
  <2>4. IsFiniteSet(C)
    BY <2>3, FS_Subset
  <2> QED BY <2>2, <2>3, <2>4, FS_EmptySet
<1>3. lock[r] \notin E
  <2>1. lock[r] \in Nodes(t) => IsPrefixOf(lock[r], lock[r])
    BY <1>1, WellFormedKeys, PrefixOrder
  <2> QED BY <2>1, <1>2 DEF Removable
<1>4. ASSUME NEW k \in Cached(t), IsPrefixOf(k, lock[r])
      PROVE  t.node[k] \notin E
  <2>1. CASE lock[r] \in Nodes(t)
    <3>1. IsPrefixOf(t.node[k], lock[r])
      BY <2>1, <1>1, <1>4 DEF WellFormed, Radix
    <3> QED BY <3>1, <1>2
  <2>2. CASE lock[r] = Root
    <3>1. k \in Key /\ k # Root
      BY <1>1, WellFormedKeys
    <3> QED BY <2>2, <3>1, <1>4, PrefixOrder, PrefixLen
  <2> QED BY <2>1, <2>2 DEF Sound, Anchored
<1> QED BY <1>3, <1>4

\* evict deletes nothing a lock protects and keeps the counts.
LEMMA DeleteSound ==
  ASSUME NEW t, NEW S, NEW lock, Sound(t, S, lock), IsFiniteSet(S), NEW E, Removable(t, E)
  PROVE  LET s == DeleteNodes(t, E)
         IN /\ Sound(s, S, lock)
            /\ Cached(s) = Cached(t) \ Segments(t, E)
            /\ \A k \in Cached(s) : s.value[k] = t.value[k]
            /\ \A r \in S, k \in Cached(t) : IsPrefixOf(k, lock[r]) => k \in Cached(s)
<1> DEFINE s == DeleteNodes(t, E)
<1>1. WellFormed(t) /\ t.lock_ref \in [Nodes(t) -> Nat]
  BY DEF Sound, WellFormed, Shape
<1>2. /\ WellFormed(s)
      /\ Nodes(s) = Nodes(t) \ E
      /\ Cached(s) = Cached(t) \ Segments(t, E)
      /\ \A k \in Cached(s) : s.value[k] = t.value[k] /\ s.node[k] = t.node[k]
      /\ \A n \in Nodes(s) : s.lock_ref[n] = t.lock_ref[n]
  BY <1>1, DeleteWellFormed
<1>3. /\ s.evictable_size = t.evictable_size - NumTokens(t, E)
      /\ s.protected_size = t.protected_size
      /\ s.evictable_leaves =
           (t.evictable_leaves \ E) \cup
           {n \in Nodes(t) \ E : /\ t.lock_ref[n] = 0
                                 /\ \E e \in E : IsProperPrefixOf(n, e)
                                 /\ \A c \in Nodes(t) \ E : ~IsProperPrefixOf(n, c)}
  BY DEF DeleteNodes
<1> HIDE DEF s
<1>4. Anchored(s, S, lock)
  BY <1>2, LockedNotRemovable DEF Sound, Anchored
<1>5. Counted(s, S, lock)
  BY <1>2 DEF Sound, Counted
<1>6. ASSUME NEW r \in S, NEW k \in Cached(t), IsPrefixOf(k, lock[r])
      PROVE  k \in Cached(s)
  BY <1>2, <1>6, LockedNotRemovable DEF Segments
<1>7. ASSUME NEW A, A \cap E = {}
      PROVE  NumTokens(s, A) = NumTokens(t, A)
  <2>1. Segments(s, A) = Segments(t, A)
    BY <1>2, <1>7 DEF Segments
  <2> QED BY <2>1 DEF NumTokens
<1>8. /\ UnlockedNodes(t) = UnlockedNodes(s) \cup E
      /\ UnlockedNodes(s) \cap E = {}
      /\ LockedNodes(s) = LockedNodes(t)
      /\ LockedNodes(s) \cap E = {}
  BY <1>1, <1>2 DEF Removable, UnlockedNodes, LockedNodes
<1>9. NumTokens(t, UnlockedNodes(t)) = NumTokens(t, UnlockedNodes(s)) + NumTokens(t, E)
  BY <1>1, <1>8, TokensAdd
<1>10. NumTokens(t, UnlockedNodes(s)) \in Nat /\ NumTokens(t, E) \in Nat
  BY <1>1, SegmentsFinite
<1>11. s.evictable_size = NumTokens(s, UnlockedNodes(s))
  <2>1. t.evictable_size = NumTokens(t, UnlockedNodes(t))
    BY DEF Sound, Accounts
  <2>2. NumTokens(s, UnlockedNodes(s)) = NumTokens(t, UnlockedNodes(s))
    BY <1>7, <1>8
  <2> QED BY <2>1, <2>2, <1>3, <1>9, <1>10
<1>12. s.protected_size = NumTokens(s, LockedNodes(s))
  <2>1. NumTokens(s, LockedNodes(s)) = NumTokens(t, LockedNodes(t))
    BY <1>7, <1>8
  <2> QED BY <1>3, <2>1 DEF Sound, Accounts
<1>13. s.evictable_leaves = {n \in Nodes(s) : s.lock_ref[n] = 0 /\ IsLeaf(s, n)}
  <2>1. t.evictable_leaves = {n \in Nodes(t) : t.lock_ref[n] = 0 /\ IsLeaf(t, n)}
    BY DEF Sound, Accounts
  <2>2. \A n : IsLeaf(s, n) <=> \A c \in Nodes(t) \ E : ~IsProperPrefixOf(n, c)
    BY <1>2 DEF IsLeaf, Descendants
  <2>3. \A n : IsLeaf(t, n) <=> \A c \in Nodes(t) : ~IsProperPrefixOf(n, c)
    BY DEF IsLeaf, Descendants
  <2>4. ASSUME NEW n
        PROVE  n \in s.evictable_leaves
                 <=> n \in Nodes(s) /\ s.lock_ref[n] = 0 /\ IsLeaf(s, n)
    BY <1>2, <1>3, <2>1, <2>2, <2>3
  <2> QED BY <2>4
<1>14. Accounts(s)
  BY <1>11, <1>12, <1>13 DEF Accounts
<1> QED BY <1>2, <1>4, <1>5, <1>6, <1>14 DEF Sound, s
=============================================================================
