--------------------------- MODULE RadixRequests ----------------------------
(***************************************************************************)
(* What a request does with KV memory, as operators on a tree, free lists  *)
(* and a request record: the key of its tokens, the slots of a path, the   *)
(* pages a free gives back and an allocation or an eviction takes,         *)
(* cache_unfinished_req and cache_finished_req.  RadixCache has the        *)
(* actions that are made of them.                                          *)
(***************************************************************************)
EXTENDS RadixTree

CONSTANTS
  Reqs,            \* request slots; a finished request's slot is used again
  Inputs,          \* requests that may arrive: [ids |-> origin_input_ids, extra_key |-> ..]
  MaxNew,          \* sampling_params.max_new_tokens
  NumPages,        \* allocator.num_pages; page 0 is the dummy page
  IsEagle          \* bigram keys

ASSUME ConstantsOK ==
  /\ MaxNew \in Nat \ {0}
  /\ NumPages \in Nat
  /\ IsEagle \in BOOLEAN
  /\ IsFiniteSet(Reqs)
  /\ \A i \in Inputs : i.ids \in Seq(Nat) /\ Len(i.ids) > 0

Pages == 1..NumPages

NoReq == [phase |-> "none", ids |-> <<>>, out |-> 0, extra_key |-> 0, fill |-> 0,
          prefix |-> <<>>, matched |-> 0, node |-> Root, row |-> <<>>, pend |-> <<>>]

ExtraKeys == {NoReq.extra_key} \cup {i.extra_key : i \in Inputs}
PageKey == ExtraKeys \X Seq(Nat)

Request ==
  [phase : {"none", "waiting", "ready", "chunk", "run"}, ids : Seq(Nat),
   out : 0..(MaxNew - 1), extra_key : ExtraKeys, fill : Nat, prefix : Seq(Pages),
   matched : Nat, node : Seq(PageKey), row : Seq(Pages), pend : Seq({"prefill", "decode"})]
-----------------------------------------------------------------------------
(* Keys.  Page i of a key is its PageSize tokens; an EAGLE key is made of  *)
(* bigrams (t[j], t[j+1]), so its page i spans one token more and the key  *)
(* is one token shorter than the tokens.                                   *)

Shift == IF IsEagle THEN 1 ELSE 0

Key(toks, extra_key) ==
  [i \in 1..((Len(toks) - Shift) \div PageSize) |->
     <<extra_key, SubSeq(toks, (i - 1) * PageSize + 1, i * PageSize + Shift)>>]

KeyOf(q, n) == Key(SubSeq(q.ids, 1, n), q.extra_key)

\* Mutant: the length in tokens is aligned, not the length in bigrams.
AlignedLenTokens(n) == (n \div PageSize) * PageSize

\* page_aligned_len of n tokens of KV
AlignedLen(n) == ((n - Shift) \div PageSize) * PageSize

\* The slots of a path, one page per token position (MatchResult.device_indices).
Indices(T, path) ==
  [i \in 1..(Len(path) * PageSize) |-> T.val[SubSeq(path, 1, (i - 1) \div PageSize + 1)]]
-----------------------------------------------------------------------------
(* The allocator: a free adds the distinct pages of the slots to the free  *)
(* list; an allocation takes pages from it, here the lowest ones.          *)

Slice(row, from, to) == {row[i] : i \in (from + 1)..to}
Freed(f, P) == [p \in Pages |-> IF p \in P THEN f[p] + 1 ELSE f[p]]
FreePages(f) == {p \in Pages : f[p] > 0}
Available(f) == PageSize * Cardinality(FreePages(f))

Allocations(f, k) ==
  {new \in [1..k -> FreePages(f)] :
     \A i \in 1..k : Cardinality({p \in FreePages(f) : p < new[i]}) = i - 1}
Without(f, new) ==
  [p \in Pages |-> IF \E i \in DOMAIN new : new[i] = p THEN f[p] - 1 ELSE f[p]]

\* evict_from_tree_cache: the sets of nodes that may go.
Evictions(T, f, num_tokens) ==
  IF Available(f) < num_tokens THEN EvictChoices(T, num_tokens) ELSE {{}}

\* Mutant: evict deletes a node and does not free its value.
AfterEvictLeaks(T, f, E) == f

AfterEvict(T, f, E) == Freed(f, EvictedPages(T, E))

\* Pages that grow a row from a to b tokens: the rest of the last page is used first.
NewPages(a, b) == (b + PageSize - 1) \div PageSize - (a + PageSize - 1) \div PageSize
Grown(row, b, new) ==
  LET a == Len(row)
      old == (a + PageSize - 1) \div PageSize
  IN  [i \in 1..b |-> IF i <= a THEN row[i]
                      ELSE LET blk == (i - 1) \div PageSize + 1
                           IN  IF blk <= old THEN row[a] ELSE new[blk - old]]
-----------------------------------------------------------------------------
(* cache_unfinished_req and cache_finished_req, on a state <<T, f>> and a  *)
(* request record q.                                                       *)

\* Mutant: the partial bigram of a chunk is taken for a cached position.
OldPrefixLenWhole(q) == Len(q.prefix)

OldPrefixLen(q) ==
  IF IsEagle /\ Len(q.prefix) > q.matched THEN Len(q.prefix) - 1 ELSE Len(q.prefix)

RowPages(q, key) == [i \in 1..Len(key) |-> q.row[i * PageSize]]

\* Mutants: the request keeps its lock on the old last_node as well, and
\* its row is not rewritten to the slots of the tree.
CacheUnfinishedKeepsLock(T, f, q) ==
  LET key == KeyOf(q, q.fill)
      S   == Insert(T, key, RowPages(q, key))
  IN  [tree |-> IncLockRef(S, key),
       free |-> Freed(f, Slice(q.row, OldPrefixLen(q), MatchLen(T, key) * PageSize)),
       req  |-> [q EXCEPT !.matched = Len(key) * PageSize, !.node = key,
                          !.prefix = Indices(S, key) \o
                                     SubSeq(q.row, Len(key) * PageSize + 1, q.fill)]]
CacheUnfinishedStaleRow(T, f, q) ==
  LET c == CacheUnfinishedKeepsLock(T, f, q)
  IN  [c EXCEPT !.tree = DecLockRef(c.tree, q.node)]

\* The tree, the free lists and the request after cache_unfinished_req: what the
\* tree had already is freed, and the row points to the tree's copy from old_prefix_len on.
CacheUnfinished(T, f, q) ==
  LET key == KeyOf(q, q.fill)
      old == OldPrefixLen(q)
      new == MatchLen(T, key) * PageSize
      S   == Insert(T, key, RowPages(q, key))
      idx == Indices(S, key)
  IN  [tree |-> IncLockRef(DecLockRef(S, q.node), key),
       free |-> Freed(f, Slice(q.row, old, new)),
       req  |-> [q EXCEPT !.row = [i \in DOMAIN @ |->
                                     IF i > old /\ i <= Len(idx) THEN idx[i] ELSE @[i]],
                          !.matched = Len(idx),
                          !.prefix = idx \o SubSeq(q.row, Len(idx) + 1, q.fill),
                          !.node = key]]

\* cache_finished_req(is_insert): kv_committed_len is the length of the row.
CacheFinished(T, f, q, is_insert) ==
  LET kvlen == Len(q.row)
      key == KeyOf(q, kvlen)
      old == OldPrefixLen(q)
      aligned == AlignedLen(kvlen)
      new == IF is_insert THEN MatchLen(T, key) * PageSize ELSE aligned
      S   == IF is_insert THEN Insert(T, key, RowPages(q, key)) ELSE T
  IN  [tree |-> DecLockRef(S, q.node),
       free |-> Freed(Freed(f, Slice(q.row, old, new)), Slice(q.row, aligned, kvlen))]
=============================================================================
