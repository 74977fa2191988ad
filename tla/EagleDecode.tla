----------------------------- MODULE EagleDecode ----------------------------
(***************************************************************************)
(* EAGLE speculative decoding of one request: the draft model proposes a   *)
(* tree of tokens, the target model runs all of them in one forward pass,  *)
(* the tokens along the path the target agrees with are kept, and the KV   *)
(* slots of the others are given back.  The draft model answers any logits *)
(* of conf.logits and the target any token of conf.answers; greedy         *)
(* sampling, ChunkCache, a batch of one request.                           *)
(*                                                                         *)
(* The KV of a token is what it was computed from: the sequence of the     *)
(* <<position, token>> it attended to, itself included.  Probabilities are *)
(* fractions <<numerator, denominator>>.                                   *)
(***************************************************************************)
EXTENDS StaticVocab, FiniteSets, FiniteSetsExt, Functions

CONSTANTS
  Configs,   \* the server configurations to check
  EOS,       \* eos_token_id
  NumPages,  \* bound: pages of the pool
  RowLen     \* bound: columns of req_to_token

VARIABLES
  conf,            \* the configuration, fixed
  phase,           \* what the worker does next
  tokens,          \* origin_input_ids \o output_ids
  seq_len,         \* batch.seq_lens
  committed, allocated,   \* kv_committed_len, kv_allocated_len
  free,            \* how often each page is in the free list
  row,             \* req_to_token, by position
  kv,              \* the KV in each slot of the target's pool
  draft,           \* the draft so far
  tree,            \* EagleVerifyInput
  target_predict   \* the target's greedy token after each node of the tree

vars == <<conf, phase, tokens, seq_len, committed, allocated, free, row, kv, draft, tree,
          target_predict>>
memory == <<seq_len, committed, allocated, free, row, kv>>

PageSize == conf.page_size
TopK == conf.topk
Steps == conf.steps
N == conf.draft_tokens
Indices == StaticIndices(conf.use_static_vocab, conf.lines, conf.ratio[1], conf.ratio[2])

ASSUME EagleConstants ==
  /\ NumPages \in Nat /\ RowLen \in Nat /\ EOS \in Vocab
  /\ \A c \in Configs : /\ c.draft_tokens - 1 <= c.topk + (c.steps - 1) * c.topk * c.topk
                         /\ c.answers \subseteq Vocab

Pages == 1..NumPages
Slots == PageSize..(PageSize * (NumPages + 1) - 1)
Page(slot) == slot \div PageSize
Ceil(n) == (n + PageSize - 1) \div PageSize
Ascending(S) == SelectSeq([i \in 1..(Max(S) + 1) |-> i - 1], LAMBDA x : x \in S)
Context(s) == [i \in DOMAIN s |-> <<i - 1, s[i]>>]
NoDraft == <<>>
NoTree == <<>>
Shared == PageSize > 1 /\ TopK > 1    \* several branches in pages of several tokens

Init ==
  /\ conf \in Configs
  /\ phase = "prefill"
  /\ tokens = conf.prompt
  /\ seq_len = 0 /\ committed = 0 /\ allocated = 0
  /\ free = [p \in Pages |-> 1]
  /\ row = [p \in 0..(RowLen - 1) |-> 0]
  /\ kv = [s \in Slots |-> << <<-1, -1>> >>]
  /\ draft = NoDraft /\ tree = NoTree /\ target_predict = <<>>
-----------------------------------------------------------------------------
(* Slots and pages.                                                        *)

FreePages == SelectSeq([p \in Pages |-> p], LAMBDA p : free[p] > 0)

\* The slots of positions seq_len .. end - 1: the rest of the last page, then new pages.
NewSlots(end) ==
  [p \in seq_len..(end - 1) |->
     IF p \div PageSize < Ceil(seq_len) THEN Page(row[seq_len - 1]) * PageSize + (p % PageSize)
     ELSE FreePages[p \div PageSize - Ceil(seq_len) + 1] * PageSize + (p % PageSize)]
Fits(end) == Ceil(end) - Ceil(seq_len) <= Len(FreePages)
Taken(end) ==
  [p \in Pages |-> free[p] - (IF \E i \in 1..(Ceil(end) - Ceil(seq_len)) : FreePages[i] = p
                              THEN 1 ELSE 0)]

\* One call of free: a page is added once, however many of its slots are given.
Freed(f, slots) == [p \in Pages |-> f[p] + (IF \E s \in slots : Page(s) = p THEN 1 ELSE 0)]
RowSlots(r, a, b) == {r[p] : p \in a..(b - 1)}

Finished(s) == Len(s) - Len(conf.prompt) >= conf.max_new \/ Last(s) = EOS

\* pop_committed_kv_cache
CommittedLen(com, s) == IF TopK = 1 THEN com ELSE Len(s) - 1

\* release_kv_cache: the committed slots, then what was allocated beyond them.
Release(f, r, s, com, all) ==
  LET g == Freed(f, RowSlots(r, 0, CommittedLen(com, s)))
  IN  IF Ceil(com) * PageSize < all THEN Freed(g, RowSlots(r, Ceil(com) * PageSize, all)) ELSE g

Prefill ==
  LET len == Len(conf.prompt)
  IN  /\ phase = "prefill" /\ Fits(len)
      /\ \E y \in conf.answers :
           LET s == Append(tokens, y)
               r == NewSlots(len) @@ row
           IN  /\ tokens' = s
               /\ row' = r
               /\ phase' = IF Finished(s) THEN "done" ELSE "extend"
               /\ free' = IF Finished(s) THEN Release(Taken(len), r, s, len, len) ELSE Taken(len)
               /\ kv' = [k \in Slots |->
                           IF \E p \in 0..(len - 1) : r[p] = k
                           THEN Context(SubSeq(tokens, 1, 1 + CHOOSE p \in 0..(len - 1) : r[p] = k))
                           ELSE kv[k]]
      /\ seq_len' = len /\ committed' = len /\ allocated' = len
      /\ UNCHANGED <<conf, draft, tree, target_predict>>
-----------------------------------------------------------------------------
(* Drafting.                                                               *)

Geq(a, b) == a[1] * b[2] >= b[1] * a[2]
Times(a, b) == <<a[1] * b[1], a[2] * b[2]>>

\* softmax, in powers of 3: logits two below the best one underflow to 0.
Softmax(logits) ==
  LET best == CHOOSE x \in Range(logits) : \A y \in Range(logits) : x >= y
      w == [i \in DOMAIN logits |->
              IF logits[i] = best THEN 3 ELSE IF logits[i] = best - 1 THEN 1 ELSE 0]
      sum == FoldLeft(+, 0, w)
  IN  [i \in DOMAIN w |-> <<w[i], sum>>]

\* torch.topk: the positions of n largest values in order; equal values in any order.
Tops(values, n) ==
  {q \in [1..n -> DOMAIN values] :
     /\ IsInjective(q)
     /\ \A i \in 1..(n - 1) : Geq(values[q[i]], values[q[i + 1]])
     /\ \A x \in DOMAIN values \ Range(q) : Geq(values[q[n]], values[x])}

\* One row of the draft model: top-k probabilities and indices of the logits it computes.
TopRows(logits) ==
  LET probs == Softmax(NextTokenLogits(logits, Indices, conf.tp))
  IN  {[p |-> [i \in 1..TopK |-> probs[q[i]]], index |-> [i \in 1..TopK |-> q[i] - 1]] :
         q \in Tops(probs, TopK)}

\* forward_draft_extend and forward_draft_extend_after_decode: capture_for_decode.
DraftExtend ==
  /\ phase = "extend"
  /\ \E logits \in conf.logits : \E r \in TopRows(logits) :
       draft' = [step |-> 0, logits |-> logits, topk_p |-> r.p, topk_index |-> r.index,
                 scores |-> <<>>, score_list |-> <<>>, token_list |-> <<>>,
                 parents_list |-> <<>>]
  /\ phase' = "preprocess"
  /\ UNCHANGED <<conf, tokens, memory, tree, target_predict>>

\* The new length with the draft's slots: every branch has its own pages.
NewPagesPerTopK == Ceil((seq_len % PageSize) + Steps)
DraftLen ==
  IF Shared THEN (seq_len \div PageSize) * PageSize + NewPagesPerTopK * PageSize * TopK
  ELSE seq_len + Steps * TopK

\* _draft_preprocess_decode with assign_draft_cache_locs: the draft's slots go to the row
\* and, with several branches, the slots of the last partial page before each branch; the
\* allocator is put back as it was.
DraftPreprocess ==
  LET base == (seq_len \div PageSize) * PageSize
      filled == NewSlots(DraftLen) @@ row
      copied == {base + b * NewPagesPerTopK * PageSize + o :
                   b \in 0..(TopK - 1), o \in 0..((seq_len % PageSize) - 1)}
  IN  /\ phase = "preprocess" /\ Fits(DraftLen)
      /\ row' = IF Shared
                THEN [p \in DOMAIN row |->
                        IF p \in copied THEN filled[base + ((p - base) % PageSize)] ELSE filled[p]]
                ELSE filled
      /\ allocated' = IF PageSize = 1 THEN allocated + Steps * TopK ELSE allocated
      /\ phase' = "draft"
      /\ UNCHANGED <<conf, tokens, seq_len, committed, free, kv, draft, tree, target_predict>>

\* select_top_k_tokens in step 0: the branches are the top-k tokens.
FirstStep(d) ==
  {[d EXCEPT !.scores = d.topk_p, !.score_list = d.topk_p, !.token_list = d.topk_index,
             !.parents_list = << [i \in 1..(TopK + 1) |-> i - 2] >>]}

\* ... and later: the best of the top-k tokens of every branch.
LaterStep(d) ==
  LET expand == [i \in 1..(TopK * TopK) |->
                   Times(d.scores[(i - 1) \div TopK + 1], d.topk_p[i])]
      offset == TopK * TopK * (d.step - 1) + TopK
  IN  {[d EXCEPT !.scores = [i \in 1..TopK |-> expand[q[i]]],
                 !.score_list = @ \o expand, !.token_list = @ \o d.topk_index,
                 !.parents_list = Append(@, [i \in 1..TopK |-> q[i] - 1 + offset])] :
         q \in Tops(expand, TopK)}
Selected(d) == IF d.step = 0 THEN FirstStep(d) ELSE LaterStep(d)

\* draft_forward, an iteration that runs the draft model on every branch.
DraftStep ==
  /\ phase = "draft" /\ draft.step < Steps - 1
  /\ \E d \in Selected(draft) : \E logits \in [1..TopK -> conf.logits] :
     \E rows \in {f \in [1..TopK -> UNION {TopRows(logits[b]) : b \in 1..TopK}] :
                    \A b \in 1..TopK : f[b] \in TopRows(logits[b])} :
       draft' = [d EXCEPT !.step = @ + 1, !.logits = <<>>,
                          !.topk_p = FlattenSeq([b \in 1..TopK |-> rows[b].p]),
                          !.topk_index = FlattenSeq([b \in 1..TopK |-> rows[b].index])]
  /\ UNCHANGED <<conf, phase, tokens, memory, tree, target_predict>>
-----------------------------------------------------------------------------
(* The tree.  Node 0 is the verified token; node i holds the i-th selected *)
(* entry of the score list.                                                *)

\* The node before node i, or -1 if it was not selected.
Parent(sel, parents, i) ==
  LET tb == sel[i] \div TopK
      at == {j \in DOMAIN sel : sel[j] = parents[tb + 1]}
  IN  IF tb = 0 THEN 0 ELSE IF at = {} THEN -1 ELSE CHOOSE j \in at : TRUE

\* Node i and the nodes above it, with -1 for one that was not selected.
Above(sel, parents, i) ==
  LET up[k \in 0..Steps] ==
        IF k = 0 THEN {i}
        ELSE up[k - 1] \cup {Parent(sel, parents, j) : j \in up[k - 1] \ {-1, 0}}
  IN  up[Steps]

\* The mask of node i, and its distance from the root.  Of equal scores a child may be
\* selected without its parent; the kernel then reads past the selection, counts that as
\* a step, and goes on from what it finds there.
Path(sel, parents, i, beyond) ==
  LET up == Above(sel, parents, i) IN IF -1 \in up THEN (up \ {-1}) \cup beyond ELSE up
Depth(sel, parents, i, beyond) ==
  Cardinality(Path(sel, parents, i, beyond))
    - (IF -1 \in Above(sel, parents, i) THEN 0 ELSE 1)

\* What is past the selection ends the loop, or names a node.
Beyond(sel, parents) ==
  LET ups == {Above(sel, parents, i) : i \in DOMAIN sel}
      whole == {B \in ups : -1 \notin B}
  IN  IF whole = ups THEN {{0}} ELSE whole \cup {{0}}

\* Mutant: the first child stays first and later ones are not linked.
NextSiblingNone(par, i) == -1

\* retrive_next_sibling: nodes are linked from the last one on, each before the others.
NextSibling(par, i) ==
  LET later == {j \in DOMAIN par : j > i /\ par[j] = par[i] /\ par[i] # -1}
  IN  IF later = {} THEN -1 ELSE Min(later)

\* retrive_next_token
NextToken(par, i) ==
  LET children == {j \in DOMAIN par : par[j] = i} IN IF children = {} THEN -1 ELSE Min(children)

\* organize_draft_results and build_tree_kernel_efficient.
BuildTree ==
  /\ phase = "draft" /\ draft.step = Steps - 1
  /\ \E d \in Selected(draft) : \E top \in {Range(q) : q \in Tops(d.score_list, N - 1)} :
       LET sel == Ascending({x - 1 : x \in top})
           parents == FlattenSeq(SubSeq(d.parents_list, 1, Len(d.parents_list) - 1))
           par == [i \in 1..(N - 1) |-> Parent(sel, parents, i)]
       IN  \E beyond \in Beyond(sel, parents) :
           tree' = [token |-> [i \in 0..(N - 1) |-> IF i = 0 THEN Last(tokens)
                                                    ELSE d.token_list[sel[i] + 1]],
                    mask |-> [i \in 0..(N - 1) |-> IF i = 0 THEN {0}
                                                   ELSE Path(sel, parents, i, beyond)],
                    position |-> [i \in 0..(N - 1) |-> IF i = 0 THEN seq_len
                                    ELSE seq_len + Depth(sel, parents, i, beyond)],
                    next_token |-> [i \in 0..(N - 1) |-> NextToken(par, i)],
                    next_sibling |-> [i \in 0..(N - 1) |-> IF i = 0 THEN -1
                                                           ELSE NextSibling(par, i)]]
  /\ phase' = "verify"
  /\ draft' = NoDraft
  /\ UNCHANGED <<conf, tokens, memory, target_predict>>
-----------------------------------------------------------------------------
(* Verifying.                                                              *)

\* What node i attends to: the row up to seq_len and the nodes of its mask.
Attended(i) ==
  [p \in 1..seq_len |-> Last(kv[row[p - 1]])]
    \o [j \in 1..Cardinality(tree.mask[i]) |->
          LET m == Ascending(tree.mask[i])[j] IN <<tree.position[m], tree.token[m]>>]

\* prepare_for_verify and the forward pass of the target model over the whole tree.
TargetVerify ==
  LET end == seq_len + N
      r == NewSlots(end) @@ row
      node(s) == CHOOSE i \in 0..(N - 1) : r[seq_len + i] = s
  IN  /\ phase = "verify" /\ Fits(end)
      /\ row' = r
      /\ free' = Taken(end)
      /\ allocated' = IF PageSize = 1 THEN allocated + 1 ELSE allocated
      /\ kv' = [s \in Slots |-> IF s \in RowSlots(r, seq_len, end) THEN Attended(node(s)) ELSE kv[s]]
      /\ \E t \in [{Attended(i) : i \in 0..(N - 1)} -> conf.answers] :
           target_predict' = [i \in 0..(N - 1) |-> t[Attended(i)]]
      /\ phase' = "accept"
      /\ UNCHANGED <<conf, tokens, seq_len, committed, draft, tree>>

\* Mutant: a node is compared with what the target says after that node.
MatchOwn(i, a) ==
  LET m[c \in -1..(N - 1)] ==
        IF c = -1 THEN -1 ELSE IF tree.token[c] = target_predict[c] THEN c
        ELSE m[tree.next_sibling[c]]
  IN  m[i]

\* VerifyTreeGreedy: the first of node i and its siblings that holds the target's token
\* after node a, or -1.
Match(i, a) ==
  LET m[c \in -1..(N - 1)] ==
        IF c = -1 THEN -1 ELSE IF tree.token[c] = target_predict[a] THEN c
        ELSE m[tree.next_sibling[c]]
  IN  m[i]

\* accept_index: the nodes from the root along the target's choices.
AcceptIndex ==
  LET acc[k \in 0..Steps] ==
        IF k = 0 THEN <<0>>
        ELSE LET c == Match(tree.next_token[Last(acc[k - 1])], Last(acc[k - 1]))
             IN  IF Len(acc[k - 1]) < k \/ c = -1 THEN acc[k - 1] ELSE Append(acc[k - 1], c)
  IN  acc[Steps]

\* The output after the first k accepted nodes; the nodes up to the one that finishes it.
Output(acc, k) == tokens \o [j \in 1..k |-> target_predict[acc[j]]]
Accepted(acc) ==
  LET ends == {k \in DOMAIN acc : Finished(Output(acc, k))}
  IN  IF ends = {} THEN acc ELSE SubSeq(acc, 1, Min(ends))

\* Mutant: the page of the next token is kept, the page of the last accepted one is not.
EvictAlignedNext(acc) ==
  LET start == ((seq_len + Len(acc)) \div PageSize) * PageSize - seq_len
  IN  (0..(N - 1) \ Range(acc)) \ (start..(start + PageSize - 1))

\* align_evict_mask_to_page_size: the page of the last accepted token stays.
EvictAligned(acc) ==
  LET start == ((seq_len + Len(acc) - 1) \div PageSize) * PageSize - seq_len
  IN  (0..(N - 1) \ Range(acc)) \ (start..(start + PageSize - 1))

\* get_src_tgt_cache_loc: the slots behind the accepted ones, from a page boundary on.
EvictTail(acc) ==
  {i \in 0..(N - 1) : seq_len + i >= Ceil(seq_len + Len(acc)) * PageSize}

Evicted(acc) ==
  IF PageSize = 1 THEN 0..(N - 1) \ Range(acc)
  ELSE IF TopK = 1 THEN EvictAligned(acc) ELSE EvictTail(acc)

\* Mutant: the accepted tokens stay where they are.
MovedNone(acc) == kv

\* move_kv_cache: the accepted tokens go to the first slots of the batch.
Moved(acc) ==
  [s \in Slots |->
     IF \E j \in DOMAIN acc : row[seq_len + j - 1] = s
     THEN kv[row[seq_len + acc[CHOOSE j \in DOMAIN acc : row[seq_len + j - 1] = s]]]
     ELSE kv[s]]

\* EagleVerifyInput.verify, and process_batch_result_decode for a finished request.
Verify ==
  LET acc == Accepted(AcceptIndex)
      s == Output(acc, Len(acc))
      end == seq_len + Len(acc)
      com == IF Shared THEN committed ELSE committed + Len(acc)
      all == IF Shared THEN allocated ELSE com
      r == IF Shared THEN row
           ELSE [p \in seq_len..(end - 1) |-> row[seq_len + acc[p - seq_len + 1]]] @@ row
      f == Freed(free, {row[seq_len + i] : i \in Evicted(acc)})
  IN  /\ phase = "accept"
      /\ tokens' = s
      /\ row' = r
      /\ kv' = IF Shared THEN Moved(acc) ELSE kv
      /\ committed' = com /\ allocated' = all
      /\ seq_len' = IF Shared /\ Finished(s) THEN seq_len ELSE end
      /\ free' = IF Finished(s) THEN Release(f, r, s, com, all) ELSE f
      /\ phase' = IF Finished(s) THEN "done" ELSE "extend"
      /\ tree' = NoTree /\ target_predict' = <<>>
      /\ UNCHANGED <<conf, draft>>

\* The request is answered; without another one the worker has nothing to do.
Idle == phase = "done" /\ UNCHANGED vars

Next ==
  \/ Prefill \/ DraftExtend \/ DraftPreprocess \/ DraftStep \/ BuildTree \/ TargetVerify
  \/ Verify \/ Idle

Spec == Init /\ [][Next]_vars
-----------------------------------------------------------------------------
(* Properties.                                                             *)

Nodes == 0..(N - 1)

\* Speculation never changes the output: every token the verification of a tree appends
\* is the target's own token after exactly the tokens before it, whatever was drafted.
GreedyExact ==
  [][phase = "accept" =>
       /\ Len(tokens') > Len(tokens)
       /\ \A j \in (Len(tokens) + 1)..Len(tokens') : \E i \in Nodes :
            /\ kv[row[seq_len + i]] = Context(SubSeq(tokens', 1, j - 1))
            /\ target_predict[i] = tokens'[j]]_vars

\* No accepted work is lost: unless the request ends, the token after the last accepted
\* one was not drafted there, so the walk over children and siblings went as far as the
\* tree allows.
AcceptsLongest ==
  [][phase = "accept" /\ phase' = "extend" =>
       \A i \in Nodes : kv[row[seq_len + i]] # Context(tokens')]_vars

\* Between two steps every committed position has the KV of exactly its prefix, though
\* accepted nodes were computed at tree positions, in other slots, under a mask.
CommittedKV ==
  phase \in {"extend", "preprocess", "draft", "verify"} =>
    /\ seq_len = Len(tokens) - 1
    /\ \A p \in 0..(seq_len - 1) : kv[row[p]] = Context(SubSeq(tokens, 1, p + 1))

\* Every page is free once or held by the row, never both: the drafts' slots are given
\* back, the rejected ones exactly once, and a finished request leaves nothing behind.
PagesConserved ==
  LET len == IF phase \in {"prefill", "done"} THEN 0
             ELSE IF phase = "accept" THEN seq_len + N ELSE seq_len
      held == {Page(row[p]) : p \in 0..(len - 1)}
  IN  \A p \in Pages : free[p] = (IF p \in held THEN 0 ELSE 1)

\* What the ranks draft together is what one rank with the whole lm_head would: the
\* positions of the best kept tokens, best first, with their probabilities among the kept
\* ones.  No shard scores a column that is not its own, no filled or padded column gets a
\* share, and the selection keeps the order of the ids.
BestOfKept ==
  phase = "preprocess" =>
    LET kept == IF Indices = <<>> THEN [i \in 1..V |-> i - 1] ELSE Indices
        exact == Softmax([i \in DOMAIN kept |-> draft.logits[kept[i] + 1]])
        top == [i \in 1..TopK |-> draft.topk_index[i] + 1]
    IN  \A i \in 1..TopK :
          /\ top[i] \in DOMAIN kept /\ draft.topk_p[i] = exact[top[i]]
          /\ \A x \in DOMAIN kept : Geq(exact[top[i]], exact[x]) \/ \E j \in 1..(i - 1) : top[j] = x

\* What the draft model proposes first are the best tokens of its vocabulary by the
\* logits of the whole model: the positions it drafts are the ids of those tokens.
DraftsKept ==
  phase = "preprocess" =>
    LET kept == IF Indices = <<>> THEN Vocab ELSE Range(Indices)
        drafted == Range(draft.topk_index)
    IN  /\ drafted \subseteq kept
        /\ \A t \in drafted, u \in kept \ drafted : draft.logits[t + 1] >= draft.logits[u + 1]
=============================================================================
