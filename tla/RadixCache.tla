----------------------------- MODULE RadixCache -----------------------------
(***************************************************************************)
(* The radix cache with its clients: the requests of one scheduler, the    *)
(* page pool, and the rows of req_to_token.  Every operation a request     *)
(* makes on KV memory is an action: match and lock on admission, allocate  *)
(* for extend and for decode, cache a finished chunk, cache a finished     *)
(* prefill, release on finish, release on retraction.  The scheduler is    *)
(* single threaded but forms its batches freely, so requests interleave;   *)
(* a batch is the sequence of its requests' steps.  When batches overlap,  *)
(* the result of a forward pass is applied after the next one is launched. *)
(***************************************************************************)
EXTENDS RadixRequests

CONSTANTS
  Tok,             \* the tokens the model may sample
  Overlap,         \* enable_overlap
  ChunkSizes,      \* lengths a truncated prefill may have
  Aligned,         \* chunks after the first are whole pages as well
  BatchSlack       \* tokens the rest of the batch adds to an eviction request

ASSUME ClientConstants ==
  /\ BatchSlack \in Nat
  /\ Overlap \in BOOLEAN /\ Aligned \in BOOLEAN
  /\ ChunkSizes \subseteq Nat
  /\ Tok \subseteq Nat

VARIABLES
  tree,            \* the radix tree
  free,            \* how often each page is in the allocator's free lists
  req              \* the requests

vars == <<tree, free, req>>

Init ==
  /\ tree = EmptyTree
  /\ free = [p \in Pages |-> 1]
  /\ req = [r \in Reqs |-> NoReq]
-----------------------------------------------------------------------------
(* Actions.                                                                *)

Holders == {r \in Reqs : req[r].phase \in {"ready", "chunk", "run"}}
Launchable(q) == q.phase = "run" /\ Len(q.pend) <= (IF Overlap THEN 1 ELSE 0)

\* A request in the waiting queue holds no KV memory.
Queued(ids, out, extra_key) ==
  [NoReq EXCEPT !.phase = "waiting", !.ids = ids, !.out = out, !.extra_key = extra_key]

Arrive(r) ==
  /\ req[r].phase = "none"
  /\ \E i \in Inputs : req' = [req EXCEPT ![r] = Queued(i.ids, 0, i.extra_key)]
  /\ UNCHANGED <<tree, free>>

\* abort_request of a request in the waiting queue
Abort(r) ==
  /\ req[r].phase = "waiting"
  /\ req' = [req EXCEPT ![r] = NoReq]
  /\ UNCHANGED <<tree, free>>

\* At most all but the last token can be matched.
AdmitKey(q) == KeyOf(q, Len(q.ids) - 1)

\* init_next_round_input for a request add_one_req then rejects: the match
\* may have split a node, the lock it took is released again.
Reject(r) ==
  /\ req[r].phase = "waiting"
  /\ tree' = Match(tree, AdmitKey(req[r]))
  /\ UNCHANGED <<free, req>>

\* The budget of PrefillAdder, in tokens: what is free or evictable, less what the
\* requests admitted before it have yet to allocate (rem_total_tokens without the
\* estimate for running requests, which only lowers it).
RemTotalTokens(T, R) ==
  Available(free) + T.evictable
    - PageSize * MapThenSumSet(LAMBDA s : NewPages(Len(req[s].prefix), req[s].fill), R)
Ready == {r \in Reqs : req[r].phase = "ready"}

\* At most one request is being chunked (Scheduler.chunked_req).
NoChunkedReq == ~ \E s \in Holders : req[s].fill < Len(req[s].ids) /\ req[s].pend = <<>>
                                     /\ req[s].phase # "run"

\* The truncation of add_one_req is whole pages, that of add_chunked_req need not be.
Fills(q, have, aligned) ==
  {Len(q.ids)} \cup
  {n \in {have + c : c \in {d \in ChunkSizes : aligned => d % PageSize = 0}} :
     have < n /\ n < Len(q.ids)}

\* init_next_round_input and add_one_req of a request that fits.
Admit(r) ==
  LET q == req[r]
      node == MatchNode(tree, AdmitKey(q))
      S == Match(tree, AdmitKey(q))
  IN  /\ q.phase = "waiting"
      /\ Len(q.ids) - Len(node) * PageSize + (MaxNew - q.out)
           < RemTotalTokens(IncLockRef(S, node), Ready)
      /\ tree' = IncLockRef(S, node)
      /\ \E n \in Fills(q, Len(node) * PageSize, TRUE) :
           /\ n < Len(q.ids) => NoChunkedReq
           /\ req' = [req EXCEPT ![r] = [q EXCEPT !.phase = "ready", !.fill = n,
                        !.node = node, !.prefix = Indices(S, node),
                        !.matched = Len(node) * PageSize]]
      /\ UNCHANGED free

\* Tokens asked of evict_from_tree_cache: a paged request may need one more page.
Overestimate(n) == IF PageSize = 1 THEN n ELSE n + PageSize

\* prepare_for_extend: alloc_for_extend.
Extend(r) ==
  LET q == req[r]
      k == NewPages(Len(q.prefix), q.fill)
  IN  /\ q.phase = "ready"
      /\ \E slack \in 0..BatchSlack :
         \E E \in Evictions(tree, free, Overestimate(q.fill - Len(q.prefix)) + slack) :
         \E new \in Allocations(AfterEvict(tree, free, E), k) :
           /\ tree' = Delete(tree, E)
           /\ free' = Without(AfterEvict(tree, free, E), new)
           /\ req' = [req EXCEPT ![r] = [q EXCEPT
                !.row = Grown(q.prefix, q.fill, new),
                !.phase = IF q.fill < Len(q.ids) THEN "chunk" ELSE "run",
                !.pend = IF q.fill < Len(q.ids) THEN <<>> ELSE <<"prefill">>]]

\* get_next_batch_to_run: the chunk is cached, its row given back, and
\* add_chunked_req picks the next chunk.
CacheChunk(r) ==
  LET c == CacheUnfinished(tree, free, req[r])
  IN  /\ req[r].phase = "chunk"
      /\ tree' = c.tree
      /\ free' = c.free
      /\ \E n \in Fills(req[r], Len(c.req.prefix), Aligned) :
           /\ n - Len(c.req.prefix) <= RemTotalTokens(c.tree, Ready)
           /\ req' = [req EXCEPT ![r] = [c.req EXCEPT !.phase = "ready", !.fill = n,
                                                   !.row = <<>>]]

\* prepare_for_decode: alloc_for_decode.  With EAGLE the draft worker grows the row.
Decode(r) ==
  LET q == req[r]
      k == NewPages(Len(q.row), Len(q.row) + 1)
  IN  /\ Launchable(q) /\ ~IsEagle
      /\ \E slack \in 0..BatchSlack :
         \E E \in Evictions(tree, free, PageSize + slack) :
         \E new \in Allocations(AfterEvict(tree, free, E), k) :
           /\ tree' = Delete(tree, E)
           /\ free' = Without(AfterEvict(tree, free, E), new)
           /\ req' = [req EXCEPT ![r] = [q EXCEPT
                !.row = Grown(q.row, Len(q.row) + 1, new),
                !.pend = Append(q.pend, "decode")]]

\* The result of a forward pass: the request finishes and its KV is released to
\* the tree, or it goes on.  A later result in flight is dropped with a finish.
Finish(r, q) ==
  LET c == CacheFinished(tree, free, q, TRUE)
  IN  /\ tree' = c.tree
      /\ free' = c.free
      /\ req' = [req EXCEPT ![r] = NoReq]

Sampled(q, t) == [q EXCEPT !.ids = Append(@, t), !.out = @ + 1, !.pend = Tail(@)]

PrefillResult(r) ==
  /\ req[r].phase = "run" /\ req[r].pend # <<>> /\ Head(req[r].pend) = "prefill"
  /\ \E t \in Tok :
       LET q == Sampled(req[r], t)
           c == CacheUnfinished(tree, free, q)
       IN  \/ Finish(r, q)
           \/ /\ q.out < MaxNew
              /\ tree' = c.tree
              /\ free' = c.free
              /\ req' = [req EXCEPT ![r] = c.req]

DecodeResult(r) ==
  /\ req[r].phase = "run" /\ req[r].pend # <<>> /\ Head(req[r].pend) = "decode"
  /\ \E t \in Tok :
       LET q == Sampled(req[r], t)
       IN  \/ Finish(r, q)
           \/ /\ q.out < MaxNew
              /\ req' = [req EXCEPT ![r] = q]
              /\ UNCHANGED <<tree, free>>

\* release_req: by retract_decode or preempt_to_schedule.  A result in flight
\* is skipped (is_retracted) before the request can be admitted again.
Retract(r) ==
  LET c == CacheFinished(tree, free, req[r], FALSE)
  IN  /\ Launchable(req[r])
      /\ \E n \in 0..BatchSlack : \E E \in Evictions(c.tree, c.free, n) :
           /\ tree' = Delete(c.tree, E)
           /\ free' = AfterEvict(c.tree, c.free, E)
      /\ req' = [req EXCEPT ![r] = Queued(req[r].ids, req[r].out, req[r].extra_key)]

\* check_decode_mem: evicts for the whole running batch before anything is allocated.
CheckDecodeMem(r) ==
  /\ Launchable(req[r])
  /\ \E n \in 1..BatchSlack : \E E \in Evictions(tree, free, n) :
       /\ tree' = Delete(tree, E)
       /\ free' = AfterEvict(tree, free, E)
  /\ UNCHANGED req

FlushCache ==
  /\ \A r \in Reqs : req[r].phase = "none"
  /\ tree' = EmptyTree
  /\ free' = [p \in Pages |-> 1]
  /\ UNCHANGED req

Next ==
  \/ FlushCache
  \/ \E r \in Reqs :
       \/ Arrive(r) \/ Abort(r) \/ Reject(r) \/ Admit(r) \/ Extend(r) \/ CacheChunk(r)
       \/ Decode(r) \/ PrefillResult(r) \/ DecodeResult(r) \/ Retract(r)
       \/ CheckDecodeMem(r)

Spec == Init /\ [][Next]_vars
-----------------------------------------------------------------------------
(* Properties.                                                             *)

\* The tree is a tree over page keys, a page caches each path, and the requests have
\* their types.
TypeOK ==
  /\ tree \in [val : {tree.val}, lock : {tree.lock}, evictable : Int, protected : Int]
  /\ tree.val \in [Paths(tree) -> Pages] /\ Paths(tree) \subseteq Seq(PageKey)
  /\ tree.lock \in [Nodes(tree) -> Nat] /\ Nodes(tree) \subseteq Seq(PageKey)
  /\ free \in [Pages -> Nat]
  /\ req \in [Reqs -> Request]

\* The pages a request holds outside the tree: those of the positions past
\* last_matched_prefix_len.
Private(q) ==
  IF q.phase = "ready" THEN Slice(q.prefix, q.matched, Len(q.prefix))
                       ELSE Slice(q.row, q.matched, Len(q.row))

\* Every page has exactly one owner: it is once in the free lists, or caches one path
\* of the tree, or is private to one request.  A duplicate freed twice, a tail never
\* freed or an evicted page still used breaks it.
PageOwnedOnce ==
  \A p \in Pages :
    free[p] + Cardinality({q \in Paths(tree) : tree.val[q] = p})
            + Cardinality({r \in Holders : p \in Private(req[r])}) = 1

\* What the code relies on without saying so: the tree is a radix tree, every last_node is
\* in it, a fill never passes the tokens, and a running request's row is one slot short
\* of its tokens plus one slot for every forward pass in flight.
FillLaw(q) ==
  /\ q.phase # "none" => Len(q.ids) > 0
  /\ q.phase \in {"ready", "chunk", "run"} => q.fill <= Len(q.ids)
  /\ q.phase \in {"chunk", "run"} => q.fill <= Len(q.row)
  /\ q.phase = "run" => Len(q.pend) <= 2 /\ Len(q.row) = Len(q.ids) + Len(q.pend) - 1
StructureOK ==
  /\ TreeShape(tree) /\ tree.lock[Root] = 1
  /\ \A r \in Holders : req[r].node \in Nodes(tree)
  /\ \A r \in Reqs : FillLaw(req[r])

\* lock_ref of every node is the number of requests whose last_node lies at or below it.
LockRefExact == LocksCount(tree, [r \in Holders |-> req[r].node])

\* What the allocator can really get by evicting is exactly evictable_size_, the figure
\* the admission budget adds to the free tokens; protected_size_ is the locked rest.
SizesExact ==
  /\ tree.evictable = Tokens(tree, Reclaimable(tree))
  /\ tree.protected = Tokens(tree, {n \in Nodes(tree) \ {Root} : tree.lock[n] > 0})

\* The row a request's attention reads is, over the matched prefix, the KV the tree
\* caches for the request's own tokens and namespace.
RowReadsTree ==
  \A r \in Holders : req[r].phase \in {"chunk", "run"} =>
    LET q == req[r]
        path == KeyOf(q, q.matched + Shift)
    IN  /\ path \in Nodes(tree) /\ IsPrefix(path, q.node)
        /\ SubSeq(q.row, 1, q.matched) = Indices(tree, path)

\* While a request holds a lock, no step of any request changes the pages that cache
\* its locked prefix: not evict, not a split, not an insert of the same tokens.
HeldPrefixStable ==
  [][\A r \in Holders :
       req'[r].phase # "none" /\ req'[r].phase # "waiting" =>
         \A q \in Paths(tree) : IsPrefix(q, req[r].node) =>
           q \in DOMAIN tree'.val /\ tree'.val[q] = tree.val[q]]_vars
=============================================================================
