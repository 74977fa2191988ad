----------------------------- MODULE RadixTree -----------------------------
(***************************************************************************)
(* The radix tree of mem_cache/radix_cache.py as operators on a value.     *)
(*                                                                         *)
(* A key is a sequence of page keys (get_child_key): the tokens of one     *)
(* page together with the request's extra_key, so two namespaces share no  *)
(* path.  A path is the key of a whole prefix, from the root down.  A tree *)
(* value T has                                                             *)
(*   val       the KV page that caches each stored path (TreeNode.value,   *)
(*             one page per page of the node's key);                       *)
(*   lock      lock_ref of each node.  A node is named by the path it ends *)
(*             at, which survives _split_node: the lower half keeps its    *)
(*             identity and its end, the new node is the upper half;       *)
(*   evictable, protected    evictable_size_ and protected_size_, in       *)
(*             tokens, kept incrementally as the code keeps them.          *)
(* A node's own key and value are the stored paths between its parent's    *)
(* end and its own, so splitting a node only adds a node name.             *)
(***************************************************************************)
EXTENDS Integers, FiniteSets, FiniteSetsExt, Sequences

CONSTANT PageSize

ASSUME PageSizeAssumption == PageSize \in Nat \ {0}

\* One path begins with another.
IsPrefix(p, q) == Len(p) <= Len(q) /\ p = SubSeq(q, 1, Len(p))
IsStrictPrefix(p, q) == IsPrefix(p, q) /\ p # q

Root == <<>>

\* RadixCache.reset
EmptyTree ==
  [val |-> [q \in {} |-> 0], lock |-> [n \in {Root} |-> 1],
   evictable |-> 0, protected |-> 0]

Nodes(T) == DOMAIN T.lock
Paths(T) == DOMAIN T.val

\* The node whose key holds the last page of path q: the first node end at or below q.
NodeAt(T, q) ==
  CHOOSE n \in Nodes(T) :
    /\ IsPrefix(q, n)
    /\ \A m \in Nodes(T) : IsPrefix(q, m) => Len(n) <= Len(m)

\* Sum of len(node.key) over the nodes of B, in tokens.
Tokens(T, B) == PageSize * Cardinality({q \in Paths(T) : NodeAt(T, q) \in B})

\* The parent chain of a node, the root excluded (the walk of inc_lock_ref).
Chain(T, n) == {m \in Nodes(T) \ {Root} : IsPrefix(m, n)}

Below(T, n) == {m \in Nodes(T) : IsPrefix(n, m)}
-----------------------------------------------------------------------------
\* How many pages of key are stored: key_match_fn down the tree.
MatchLen(T, key) ==
  Max({k \in 0..Len(key) : k = 0 \/ SubSeq(key, 1, k) \in Paths(T)})

\* Mutant: the upper half starts unlocked.
SplitUnlocked(T, q) ==
  IF q \in Nodes(T) THEN T
  ELSE [T EXCEPT !.lock = [n \in Nodes(T) \cup {q} |-> IF n = q THEN 0 ELSE T.lock[n]]]

\* _split_node: a node ends at q from now on, with its lower half's lock_ref.
Split(T, q) ==
  IF q \in Nodes(T) THEN T
  ELSE [T EXCEPT !.lock =
          [n \in Nodes(T) \cup {q} |-> IF n = q THEN T.lock[NodeAt(T, q)]
                                                ELSE T.lock[n]]]

\* match_prefix: the node the match ends at, and the tree after the split.
MatchNode(T, key) == SubSeq(key, 1, MatchLen(T, key))
Match(T, key) == Split(T, MatchNode(T, key))

\* _insert_helper: one new leaf, unlocked, for what is not stored yet.
Insert(T, key, pages) ==
  LET m == MatchLen(T, key)
      S == Split(T, SubSeq(key, 1, m))
      new == {SubSeq(key, 1, k) : k \in (m + 1)..Len(key)}
  IN  IF m = Len(key) THEN S
      ELSE [val  |-> [q \in Paths(T) \cup new |->
                        IF q \in Paths(T) THEN T.val[q] ELSE pages[Len(q)]],
            lock |-> [n \in Nodes(S) \cup {key} |->
                        IF n = key THEN 0 ELSE S.lock[n]],
            evictable |-> T.evictable + PageSize * (Len(key) - m),
            protected |-> T.protected]

IncLockRef(T, n) ==
  LET moved == Tokens(T, {m \in Chain(T, n) : T.lock[m] = 0})
  IN  [val |-> T.val,
       lock |-> [m \in Nodes(T) |->
                   IF m \in Chain(T, n) THEN T.lock[m] + 1 ELSE T.lock[m]],
       evictable |-> T.evictable - moved,
       protected |-> T.protected + moved]

\* Mutant: lock_ref is tested before it is decremented.
DecLockRefLate(T, n) ==
  [IncLockRef(T, n) EXCEPT
     !.lock = [m \in Nodes(T) |-> IF m \in Chain(T, n) THEN T.lock[m] - 1 ELSE T.lock[m]]]

DecLockRef(T, n) ==
  LET moved == Tokens(T, {m \in Chain(T, n) : T.lock[m] = 1})
  IN  [val |-> T.val,
       lock |-> [m \in Nodes(T) |->
                   IF m \in Chain(T, n) THEN T.lock[m] - 1 ELSE T.lock[m]],
       evictable |-> T.evictable + moved,
       protected |-> T.protected - moved]
-----------------------------------------------------------------------------
\* Mutant: evict does not look at lock_ref.
ReclaimableLocked(T) == Nodes(T) \ {Root}

\* The nodes evict can reach by taking unlocked leaves one after the other.
Reclaimable(T) == {n \in Nodes(T) : \A m \in Below(T, n) : T.lock[m] = 0}

\* The sets of nodes evict(num_tokens) can delete.  The eviction strategy picks
\* the next unlocked leaf, so any order is possible; a parent follows its last
\* child; the loop ends with the node that makes up num_tokens, or with no leaf.
EvictChoices(T, num_tokens) ==
  {E \in SUBSET Reclaimable(T) :
     /\ \A n \in E : Below(T, n) \subseteq E
     /\ IF Tokens(T, E) < num_tokens
        THEN E = Reclaimable(T)
        ELSE \E x \in E : /\ ~ \E m \in E : IsStrictPrefix(m, x)
                          /\ Tokens(T, E \ {x}) < num_tokens}

EvictedPages(T, E) == {T.val[q] : q \in {p \in Paths(T) : NodeAt(T, p) \in E}}

\* _delete_leaf for every node of E.
Delete(T, E) ==
  [val  |-> [q \in {p \in Paths(T) : NodeAt(T, p) \notin E} |-> T.val[q]],
   lock |-> [n \in Nodes(T) \ E |-> T.lock[n]],
   evictable |-> T.evictable - Tokens(T, E),
   protected |-> T.protected]
-----------------------------------------------------------------------------
\* The lock_ref of every node but the root is the number of holders whose node lies at
\* or below it; at maps each holder to its node.
LocksCount(T, at) ==
  \A n \in Nodes(T) \ {Root} :
    T.lock[n] = Cardinality({r \in DOMAIN at : IsPrefix(n, at[r])})

\* A radix tree: stored paths are closed under prefixes, nodes end at stored paths, every
\* stored path lies on a node, and two nodes part only at the end of a node.
TreeShape(T) ==
  /\ Root \in Nodes(T) /\ Root \notin Paths(T)
  /\ \A q \in Paths(T) : \A k \in 1..Len(q) : SubSeq(q, 1, k) \in Paths(T)
  /\ Nodes(T) \ {Root} \subseteq Paths(T)
  /\ \A q \in Paths(T) : \E n \in Nodes(T) : IsPrefix(q, n)
  /\ \A m, n \in Nodes(T) : \A k \in 0..Len(m) :
       IsPrefix(SubSeq(m, 1, k), n) =>
         \E c \in Nodes(T) : k <= Len(c) /\ IsPrefix(c, m) /\ IsPrefix(c, n)
=============================================================================
