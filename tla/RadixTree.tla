----------------------------- MODULE RadixTree -----------------------------
(***************************************************************************)
(* The prefix tree of mem_cache/radix_cache.py as operators on a tree      *)
(* value.  A tree node is named by the whole path from the root to the end *)
(* of its segment: splitting a segment keeps the deeper node's identity    *)
(* (the existing TreeNode object) and adds a new node for the shorter      *)
(* path, so a name never changes while a request holds it.                 *)
(*                                                                         *)
(* A tree t is a record:                                                   *)
(*   t.value[k]   the page that holds the KV of the last page of path k,   *)
(*                for every page-aligned path k that is cached;            *)
(*   t.node[k]    the node whose segment contains that page;               *)
(*   t.lock_ref   node -> number of locks at or below it (nodes only);     *)
(*   t.evictable_size, t.protected_size, t.evictable_leaves: the counters  *)
(*                and the leaf set the code maintains beside the tree.     *)
(*                                                                         *)
(* Access times, priorities, hit counts and hashes only choose the victim  *)
(* of an eviction; the victim is chosen nondeterministically here.         *)
(***************************************************************************)
EXTENDS Integers, Sequences, FiniteSets

CONSTANTS Token,     \* token ids
          Page,      \* pages of the KV pool
          PageSize   \* tokens per page

ASSUME PageSizeAssumption == PageSize \in Nat \ {0}
ASSUME PageAssumption == IsFiniteSet(Page)

Key == Seq(Token)

Prefix(k, n) == SubSeq(k, 1, n)

IsPrefixOf(p, k) == Len(p) <= Len(k) /\ \A i \in 1 .. Len(p) : p[i] = k[i]

IsProperPrefixOf(p, k) == p # k /\ IsPrefixOf(p, k)

\* Token count rounded down to whole pages, and pages needed for n tokens.
AlignDown(n) == (n \div PageSize) * PageSize
CeilPages(n) == (n + PageSize - 1) \div PageSize

PageAligned(k) == Prefix(k, AlignDown(Len(k)))

-----------------------------------------------------------------------------
(* Structure *)

Root == << >>

EmptyTree == [value |-> [k \in {} |-> k], node |-> [k \in {} |-> k],
              lock_ref |-> [k \in {} |-> 0],
              evictable_size |-> 0, protected_size |-> 0,
              evictable_leaves |-> {}]

Cached(t) == DOMAIN t.value
Nodes(t) == DOMAIN t.lock_ref

Descendants(t, n) == {c \in Nodes(t) : IsProperPrefixOf(n, c)}

IsLeaf(t, n) == Descendants(t, n) = {}

\* The nodes from n up to (not including) the root.
PathTo(t, n) == {m \in Nodes(t) : IsPrefixOf(m, n)}

\* Cached paths whose page lies in a segment of one of the nodes in S.
Segments(t, S) == {k \in Cached(t) : t.node[k] \in S}

\* Sum of len(node.key) over the nodes in S.
NumTokens(t, S) == PageSize * Cardinality(Segments(t, S))

PagesIn(t, S) == {t.value[k] : k \in Segments(t, S)}

-----------------------------------------------------------------------------
(* Matching and inserting *)

\* The end of the walk of _match_prefix_helper: the longest cached path that
\* is a prefix of k.
LongestMatch(t, k) ==
  CHOOSE m \in Cached(t) \cup {Root} :
    /\ IsPrefixOf(m, k)
    /\ \A l \in Cached(t) : IsPrefixOf(l, k) => Len(l) <= Len(m)

\* Mutant: the new node starts unlocked.
SplitNodeUnlocked(t, k) ==
  IF k = Root \/ k \in Nodes(t) THEN t
  ELSE LET child == t.node[k] IN
       [t EXCEPT
          !.node = [l \in Cached(t) |->
                      IF t.node[l] = child /\ IsPrefixOf(l, k) THEN k
                      ELSE t.node[l]],
          !.lock_ref = [n \in Nodes(t) \cup {k} |->
                          IF n = k THEN 0 ELSE t.lock_ref[n]]]

\* The new, shorter node inherits the lock count of the node it is cut from.
SplitNode(t, k) ==
  IF k = Root \/ k \in Nodes(t) THEN t
  ELSE LET child == t.node[k] IN
       [t EXCEPT
          !.node = [l \in Cached(t) |->
                      IF t.node[l] = child /\ IsPrefixOf(l, k) THEN k
                      ELSE t.node[l]],
          !.lock_ref = [n \in Nodes(t) \cup {k} |->
                          IF n = k THEN t.lock_ref[child] ELSE t.lock_ref[n]]]

MatchPrefix(t, k) == SplitNode(t, LongestMatch(t, PageAligned(k)))

\* The paths of k that end on a page boundary beyond the matched length.
NewPaths(k, matched) ==
  {Prefix(k, i * PageSize) : i \in (matched \div PageSize) + 1 .. Len(k) \div PageSize}

\* Mutant: the key is cut at the match, the pages are not.
AddLeafUncutValue(t, k, row, m, new) ==
  [value |-> [l \in Cached(t) \cup new |->
                IF l \in new THEN row[(Len(l) - Len(m)) \div PageSize] ELSE t.value[l]],
   node |-> [l \in Cached(t) \cup new |-> IF l \in new THEN k ELSE t.node[l]],
   lock_ref |-> [n \in Nodes(t) \cup {k} |-> IF n = k THEN 0 ELSE t.lock_ref[n]],
   evictable_size |-> t.evictable_size + (Len(k) - Len(m)),
   protected_size |-> t.protected_size,
   evictable_leaves |-> (t.evictable_leaves \ {m}) \cup {k}]

\* Hang the pages new beyond the node m of tree t, as one leaf k.
AddLeaf(t, k, row, m, new) ==
  [value |-> [l \in Cached(t) \cup new |->
                IF l \in new THEN row[Len(l) \div PageSize] ELSE t.value[l]],
   node |-> [l \in Cached(t) \cup new |-> IF l \in new THEN k ELSE t.node[l]],
   lock_ref |-> [n \in Nodes(t) \cup {k} |-> IF n = k THEN 0 ELSE t.lock_ref[n]],
   evictable_size |-> t.evictable_size + (Len(k) - Len(m)),
   protected_size |-> t.protected_size,
   evictable_leaves |-> (t.evictable_leaves \ {m}) \cup {k}]

\* Insert the page-aligned key k whose i-th page of KV is in row[i]; m is the
\* part of k the tree has.
InsertBeyond(t, k, row, m) ==
  IF m = k THEN SplitNode(t, m)
  ELSE AddLeaf(SplitNode(t, m), k, row, m, NewPaths(k, Len(m)))

Insert(t, k, row) == InsertBeyond(t, k, row, LongestMatch(t, k))

-----------------------------------------------------------------------------
(* Locking: a lock on a node pins every node of its path *)

\* Mutant: a node that was locked already is counted as protected again.
IncLockRefRecounts(t, n) ==
  LET path  == PathTo(t, n)
      moved == NumTokens(t, path)
  IN [t EXCEPT
        !.lock_ref = [m \in Nodes(t) |->
                        IF m \in path THEN t.lock_ref[m] + 1 ELSE t.lock_ref[m]],
        !.evictable_size = t.evictable_size - moved,
        !.protected_size = t.protected_size + moved,
        !.evictable_leaves = t.evictable_leaves \ path]

IncLockRef(t, n) ==
  LET path  == PathTo(t, n)
      moved == NumTokens(t, {m \in path : t.lock_ref[m] = 0})
  IN [t EXCEPT
        !.lock_ref = [m \in Nodes(t) |->
                        IF m \in path THEN t.lock_ref[m] + 1 ELSE t.lock_ref[m]],
        !.evictable_size = t.evictable_size - moved,
        !.protected_size = t.protected_size + moved,
        !.evictable_leaves = t.evictable_leaves \ path]

DecLockRef(t, n) ==
  LET path  == PathTo(t, n)
      freed == {m \in path : t.lock_ref[m] = 1}
      moved == NumTokens(t, freed)
  IN [t EXCEPT
        !.lock_ref = [m \in Nodes(t) |->
                        IF m \in path THEN t.lock_ref[m] - 1 ELSE t.lock_ref[m]],
        !.evictable_size = t.evictable_size + moved,
        !.protected_size = t.protected_size - moved,
        !.evictable_leaves = t.evictable_leaves \cup {m \in freed : IsLeaf(t, m)}]

-----------------------------------------------------------------------------
(* Eviction *)

\* Mutant: the heap takes any node without children.
InHeapLocked(t, n, E) == Descendants(t, n) \subseteq E

\* A node the eviction heap can hold once the nodes in E are gone: one of the
\* leaves it was filled with, or a parent pushed when its last child went.
InHeap(t, n, E) ==
  \/ n \in t.evictable_leaves
  \/ /\ t.lock_ref[n] = 0
     /\ ~IsLeaf(t, n)
     /\ Descendants(t, n) \subseteq E

\* The sets of nodes that evict(num_tokens) can delete, over all orders in
\* which an eviction policy ranks the heap: it stops with the first node that
\* makes up the number, or when the heap is empty.
EvictableSets(t, num_tokens) ==
  IF num_tokens <= 0 THEN {{}}
  ELSE {E \in SUBSET {n \in Nodes(t) : InHeap(t, n, Nodes(t))} :
          /\ \A n \in E : InHeap(t, n, E)
          /\ \/ /\ NumTokens(t, E) < num_tokens
                /\ \A n \in Nodes(t) \ E : ~InHeap(t, n, E)
             \/ /\ NumTokens(t, E) >= num_tokens
                /\ \E last \in E :
                     /\ NumTokens(t, E \ {last}) < num_tokens
                     /\ \A n \in E : ~IsProperPrefixOf(n, last)}

\* Delete the nodes in E; a parent left without children becomes a leaf.
DeleteNodes(t, E) ==
  LET kept == Nodes(t) \ E
      left == Cached(t) \ Segments(t, E)
  IN [value |-> [k \in left |-> t.value[k]],
      node |-> [k \in left |-> t.node[k]],
      lock_ref |-> [n \in kept |-> t.lock_ref[n]],
      evictable_size |-> t.evictable_size - NumTokens(t, E),
      protected_size |-> t.protected_size,
      evictable_leaves |->
        (t.evictable_leaves \ E) \cup
        {n \in kept : /\ t.lock_ref[n] = 0
                      /\ \E e \in E : IsProperPrefixOf(n, e)
                      /\ \A c \in kept : ~IsProperPrefixOf(n, c)}]
=============================================================================
