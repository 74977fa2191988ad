# The SGLang runtime: TLA+ models, model checking and proofs

The repository is a fork of SGLang, a serving system for language models. Its
Python runtime (`src/python/sglang/srt`) runs one scheduler process per tensor
parallel rank; the scheduler forms batches of requests, and every token a request
has seen occupies a slot of KV memory on the device. This directory holds the
verification project for that runtime. It covers who owns which page of KV memory and
whether a request reads the pages it believes it reads; the event loop with its
queues, budgets, retraction and preemption; the grammar queue that the ranks must
agree on; and speculative decoding with this fork's static draft vocabulary.

All source paths below are relative to `src/python/sglang/srt`.

## 1. Inventory

| Part | State | Operations that change it | What makes it hard | What must hold |
|---|---|---|---|---|
| Radix prefix cache, `mem_cache/radix_cache.py` | tree of nodes (key, value, `lock_ref`), `evictable_size_`, `protected_size_` | `reset`, `match_prefix` (splits nodes), `insert`, `cache_finished_req`, `cache_unfinished_req`, `evict`, `inc_lock_ref`, `dec_lock_ref` | several requests share nodes; a match by one splits a node locked by others; duplicates are freed while the owner still runs; pages and bigrams shift lengths by one | one owner per page, exact locks, exact sizes, locked pages never change, a row reads the tree |
| KV allocators, `mem_cache/allocator.py` | free list, release list, free group | `alloc`, `alloc_extend`, `alloc_decode`, `free`, `free_group_begin/end`, `merge_and_sort_free`, `clear`, `backup_state/restore_state` | kernels whose programs run in parallel; grouped frees; three different tests for merging | pages partitioned, token order within pages, no spurious failure |
| Row pool, `mem_cache/memory_pool.py` (`ReqToTokenPool`) | free rows, row contents | `alloc`, `free`, `write`, `clear` | a chunked request gives its row back between chunks | a row has one request |
| Allocation helpers, `mem_cache/common.py` | - | `alloc_for_extend`, `alloc_for_decode`, `evict_from_tree_cache`, `release_kv_cache` | eviction inside an allocation; over-estimates in pages | an admitted batch finds its memory |
| Admission, `managers/schedule_policy.py` | budgets of one `PrefillAdder`, `can_run_list`, `preempt_list` | `add_chunked_req`, `add_one_req`, `add_one_req_ignore_eos`, `preempt_to_schedule`, `calc_priority` | budgets over estimates; locks taken tentatively; preemption in the middle of admission | admission never over-commits; a preempted request is queued again |
| Scheduler, `managers/scheduler.py` | `waiting_queue`, `running_batch`, `last_batch`, `cur_batch`, `chunked_req`, `grammar_queue`, `result_queue`, `batch_is_full`, `new_token_ratio` | `event_loop_normal`, `event_loop_overlap`, `get_next_batch_to_run`, `get_new_batch_prefill`, `update_running_batch`, `abort_request`, `flush_cache` | the result of a batch is applied after the next is launched; aborts at any time | every request is in one place and finally answered |
| Requests and batches, `managers/schedule_batch.py` | `Req` lengths, finish state, retraction; batch tensors | `init_next_round_input`, `check_finished`, `reset_for_retract`, `prepare_for_extend`, `prepare_for_decode`, `retract_decode`, `filter_batch`, `merge_batch`, `mix_with_running` | a request object is in two batches at once under overlap | KV released exactly once |
| Result processing, `managers/scheduler_output_processor_mixin.py` | requests, cache | `process_batch_result_prefill`, `process_batch_result_decode` | late results of finished or retracted requests | late results change nothing |
| Chunk cache, `mem_cache/chunk_cache.py` | `protected_size_` | as the radix cache, without sharing | - | KV released once |
| SWA, mamba, hierarchical caches | a second resource or a host tier per node | as the radix cache, plus load-back, write-through, prefetch | asynchronous copies race with eviction | as the radix cache, per tier |
| Speculative decoding, `speculative/` | draft KV, accepted lengths | draft, verify, `backup_state/restore_state` | over-allocation, accepted length known late | over-allocated slots return |
| Static draft vocabulary, `layers/logits_processor.py`, `configs/model_config.py` | index lists, per-device caches | configuration, projection, mapping back | partitions over ranks, CUDA graph capture | an index always maps back to its token |
| Grammar queue | futures, agreement between ranks | `move_ready_grammar_requests` | timeouts and aborts race with compilation | ranks take the same requests |
| Tokenizer and detokenizer managers | request states by id | generate, abort, update weights, output handling | separate processes, lost clients | a state is freed once, with one final answer |
| Sessions, disaggregation, data parallel controller, router, HTTP/gRPC | queues, maps | see `PROJECT.json` | messages between processes | not in this stage |

The radix cache, the allocators and the row pool only meet inside the scheduler
process. The admission code matches a prompt and locks the node it ends at;
`alloc_for_extend` evicts unlocked leaves if needed and writes the row; results are
cached back into the tree; a finished or retracted request unlocks.
Requests with a grammar pass through the grammar queue first. With speculative
decoding the draft worker replaces the decode step: it proposes a tree of tokens and
the target verifies it in one pass. `PROJECT.json` lists every hazard found in this
reading at its line, with the properties that cover it or the reason why none does.

## 2. Modules

| Module | Models |
|---|---|
| `RadixTree` | the tree as a value: match, split, insert, lock, unlock, evict, delete |
| `RadixRequests` | what a request does with KV memory, as operators: keys, slots of a path, free and allocated pages, `cache_unfinished_req`, `cache_finished_req` |
| `RadixCache` | the cache with its clients: requests, free pages, rows; one action per operation a request performs on KV memory |
| `MCRadixCache` | prompts and symmetry for TLC |
| `SlotPool` | the abstract page pool: available, held, pending |
| `KVAllocator` | token and paged allocator, row pool, kernels; implements `SlotPool` |
| `RequestLife` | the abstract life of a request: queued, active, done, its tokens, the limit on active ones |
| `Scheduler` | the event loops, waiting queue, `PrefillAdder`, batches, retraction, preemption, aborts, results, with the chunk cache; implements `RequestLife` |
| `GrammarQueue` | the grammar queue of the ranks of a tensor parallel group, compilation, timeouts, aborts |
| `StaticVocab` | the static draft vocabulary: which tokens are kept, the logits over them on sharded ranks |
| `EagleDecode` | EAGLE drafting and verification of a request, with its slots, rows and KV |
| `MCKVAllocator`, `MCScheduler`, `MCGrammarQueue`, `MCEagleDecode` | configurations and symmetry for TLC |
| `RadixTreeProofs` | lemmas about the operators of `RadixTree` and `RadixRequests`: slots and blocks, trees and locks, owners of pages |
| `RadixCacheProofs` | the proofs about types, structure, locks, stability of held prefixes, and sizes |
| `RadixCachePages` | the proofs that a page has one owner and that rows read the tree |
| `KVAllocatorKernels`, `KVAllocatorProofs` | the proofs about the allocator: what a program of a kernel writes; the invariants and the refinement of `SlotPool` |
| `GrammarQueueProofs` | the proofs about the grammar queue |
| `SchedulerSteps`, `SchedulerProofs` | the proofs about the scheduler: lists and the invariants, the steps up to the start of a prefill; the other steps and the theorems |

`KVAllocator`, `Scheduler`, `GrammarQueue` and `EagleDecode` have a variable `conf`, a
record chosen at the start from the constant `Configs` and never changed: server
arguments and workload. One run then covers several configurations.

### RadixTree, RadixRequests and RadixCache

A key is a sequence of page keys: the tokens of a page (or bigrams, for EAGLE) with
the request's `extra_key`. A path is the key of a whole prefix. Nodes are named by
the path they end at. This is what makes the model short: `_split_node` keeps the
lower half's end and identity and adds the upper half, so splitting adds one name to
`DOMAIN lock` and copies a lock count; keys and values of single nodes never have
to be cut. `TreeNode.value` is the function `val` from stored paths to pages.

`RadixCache` has three variables: `tree`, `free` (how often a page is in the free
lists; twice would be a double free) and `req`, a record per request slot with the
fields the code keeps in `Req`: tokens, `fill_ids` by their length, `prefix_indices`,
`last_matched_prefix_len`, `last_node`, the row of `req_to_token`, and the results
in flight. A slot is abstracted to its page.

| Action | Code |
|---|---|
| `Arrive`, `Abort` | `_add_request_to_queue`; `abort_request` on the waiting queue |
| `Reject`, `Admit` | `init_next_round_input` with `add_one_req`, refused or accepted; a refusal still may have split a node |
| `Extend` | `prepare_for_extend` -> `alloc_for_extend`, including the eviction |
| `CacheChunk` | `get_next_batch_to_run` caching the chunk and giving the row back, then `add_chunked_req` |
| `Decode`, `CheckDecodeMem` | `prepare_for_decode` -> `alloc_for_decode`; `check_decode_mem` |
| `PrefillResult`, `DecodeResult` | the two result handlers, with finish and release |
| `Retract` | `release_req`, from `retract_decode` or preemption |
| `FlushCache` | `flush_cache` |

The scheduler is single threaded but free in how it forms batches, so a batch is the
sequence of its requests' steps, and the interleaving over-approximates batch
formation. What the rest of a batch adds to an eviction request is the nondeterministic
`slack`, at most `BatchSlack`. The eviction order is any order of unlocked leaves,
which covers LRU, LFU, FIFO, MRU and FILO. With `Overlap` a request may have a second
forward pass in flight when the first result is applied. Sampled tokens come from
`Tok`. A failed allocation raises in the code and ends the scheduler; here the action
is not enabled.

### KVAllocator and SlotPool

`KVAllocator` keeps slots, not only pages: lists of page numbers, the free group,
the slots of each request by position, and the row pool. `ExtendKernel` and
`DecodeKernel` are the Triton kernels for one program id. `torch.sort` and
`torch.unique` are given by ranks (element i has i elements up to itself), and the sums
of the kernels by the number of pairs they count, so that both can be reasoned about
without recursion. The free group is the concatenation of what was freed since
`free_group_begin`, which is what `free_group_end` passes on. `SlotPool` is what clients
rely on: a batch takes disjoint available pages, an owner gives all its pages back,
for reuse at once or at the end of the group. The refinement maps both lists to
`avail`, the pages under each request to `held`, and the pages of an open group to
`pending`.

### Scheduler and RequestLife

With `ChunkCache` (`--disable-radix-cache`) a request owns all the KV it uses, so
memory is a number of free pages, and what matters is counts, budgets and who is
where. The loop is one thread. An iteration passes through the program counter values
`recv`, `prefill`, `scan`, `commit`, `decode` and `process`; input is handled at `recv`
only, as in `process_input_requests`. An exception that would leave the loop sets `pc`
to `dead` and names the reason in `err`: allocation failures, assertions, and the leak
check of the idle loop.

| Action | Code |
|---|---|
| `HandleGenerate`, `AbortRequest`, `FlushCache` | `_add_request_to_queue` with the queue limit; `abort_request`; `flush_cache` |
| `MergeLastBatch` | head of `get_next_batch_to_run`: the chunked request gives up its row, the last prefill is filtered and merged |
| `NoPrefill`, `StartPrefill` | early returns of `get_new_batch_prefill`; the adder with its budgets, `add_chunked_req` |
| `AddOneReq`, `PreemptToSchedule`, `EndScan` | an iteration of the loop over the queue: `add_one_req`, `add_one_req_ignore_eos`, `preempt_to_schedule` |
| `NothingToPrefill`, `PrefillBatch` | empty `can_run_list`; `prepare_for_extend`, mixing with the running batch |
| `NothingToRun`, `DecodeBatch`, `RetractDecode` | `update_running_batch`: filter, memory check, `retract_decode`, `prepare_for_decode` |
| `ProcessBatchResult`, `NoResultYet`, `Idle` | result handlers, in the overlap loop one batch late; `self_check_during_idle` |

The token of a result is abstracted to whether it is EOS. `new_token_ratio` moves
between values computed from floating point decay; the model lets it be any value of
`Ratios` where the code updates it. Requests are sent once each, in any order and at
any iteration.

`RequestLife` says what clients rely on: a request is queued, active and done in that
order, may go back to the queue with its tokens, ends once, and at most `max_running`
are active. The refinement maps the requests in `waiting_queue` to queued and those
that left it unanswered to active.

### GrammarQueue

Every rank has its own queue, futures, backend cache and executor. The ranks handle
the same broadcast input at the top of an iteration; then each polls the head of its
queue (`Poll`), they meet in the reduction of the counts (`AllReduce`), each waits for
the results others already have and moves the agreed number of requests (`MoveReady`),
and they meet again in the next broadcast (`NextIteration`). `Compile` is a thread of an
executor ending, at any time. A poll with a timeout of 0.03 s is counted, and
`MaxPolls` stands for `GRAMMAR_TIMEOUT / 0.03`. An exception ends the rank.

### StaticVocab and EagleDecode

`StaticVocab` is pure: the list of kept ids from a file (repeated ids and ids out of
range skipped) or from a ratio (one outside (0, 1] keeps the whole vocabulary), the
padded shards of the vocabulary, the columns each rank computes, all of them
(`WholeLogits`) or the kept ones (`LocalLogits`), and the gathered logits.

`EagleDecode` follows a request through prefill, draft extension (`capture_for_decode`),
allocation of the draft's slots between `backup_state` and `restore_state`, the draft
steps with `select_top_k_tokens`, the tree kernel, the verification forward pass,
greedy acceptance, and the return of the rejected slots in its three variants (single
slots, chains in pages, trees in pages). The KV of a token is represented by what it
was computed from, the sequence of positions and tokens it attended to, so a property
can say that a slot holds the KV of a given prefix. The target's answer is any function
from what a node attends to into a small set of tokens; the draft's logits are any of a
small set, with ties; probabilities are exact fractions, and `torch.topk` returns equal
values in any order. Ties can select a node without its parent. The tree kernel leaves
such a node out of the tree, but its mask loop reads past the selection; what it finds
there is any choice of `Beyond`, so the node attends to nodes that are not its ancestors
and at a position that is not its own.

## 3. Properties and runs

| Run | Instance | Properties |
|---|---|---|
| `radix_page1` | page size 1, 5 pages, 2 requests, 3 prompts, chunks of 1 | `TypeOK`, `PageOwnedOnce`, `RowReadsTree` |
| `radix_paged` | page size 2, 5 pages, 2 requests, 2 prompts, overlap | all properties of `RadixCache` but `TypeOK` |
| `radix_eagle` | bigram keys, chunks of 1 | `PageOwnedOnce`, `RowReadsTree` |
| `radix_unaligned` | page size 2, overlap, chunks of 1 or 2 tokens | `RowReadsTree`, violated |
| `allocator` | 3 pages of 2 with `need_sort`, and 3 single slots without; 2 requests, 2 rows | all properties of `KVAllocator` |
| `sched_loops` | 3 requests in 5 configurations: pages of 2, bounded queue, overlap, overlap with mixed chunks, overlap with `ignore_eos` | `TypeOK`, `NeverDies`, `OnePlace`, `AnsweredOnce`, `PagesConserved`, `ChunkedHasSlot`, `ChunkBudget`, `IgnoreEosFits`, `ImplementsLife`, `Served` |
| `sched_priority` | 3 requests of rising priority, 2 slots, preemption | `PagesConserved`, `AdmitInOrder`, `OutputKept` |
| `sched_prefill_only` | 3 scoring requests, 1 slot, overlap | `IdleServesQueue`, violated |
| `grammar_groups` | 2 ranks; 1 rank with timeouts and an abort; 3 requests, 2 grammars | `TypeOK`, `RanksAgree`, `GrammarResolved`, `OneQueue`, `Moves` |
| `grammar_aborts` | 1 rank, any request aborted | `AbortedIsReady`, violated |
| `eagle_decoding` | 4 tokens, padded shards; a tree in single slots over all of them, a chain in pages with an invalid ratio, one over 3 ids of a file in both of 2 shards, a tree in pages over 3/4 of the vocabulary in 2 of 3 shards | `GreedyExact`, `AcceptsLongest`, `CommittedKV`, `PagesConserved`, `BestOfKept` |
| `eagle_vocab_file` | a vocabulary file | `DraftsKept`, violated |

All properties of `RadixCache` are proved (section 4). `radix_page1` and `radix_eagle`
check the two that depend most on page size and bigrams, on instances that `radix_paged`
does not cover.

- `PageOwnedOnce`: every page is once in the free lists, or caches one path, or is
  private to one request.
- `LockRefExact`: `lock_ref` counts the live requests at or below a node.
- `SizesExact`: `evictable_size_` is what eviction can really reach, which is what the
  admission budget assumes; `protected_size_` is the locked rest.
- `RowReadsTree`: over the matched prefix the row of a request is the KV cached for
  the request's own tokens and namespace.
- `HeldPrefixStable`: no step changes the pages of a locked prefix.
- `StructureOK`: the tree is a radix tree, `last_node` is in it, and a row is as long
  as tokens and results in flight ask for.
- `PagesPartitioned`, `KvPaged`: the allocator's pages have one place each; token i
  lies at offset i of its page and next to token i - 1 (the assertions of
  `SGLANG_DEBUG_MEMORY_POOL`).
- `NoneOnlyWhenShort`: an allocation fails only if the pages of both lists together
  are too few.
- `KernelsSequential`: for every state and batch the kernels yield what a
  token-by-token allocation yields.
- `PoolSpec`: refinement of `SlotPool`.
- `NeverDies`: no exception ends the event loop.
- `OnePlace`, `AnsweredOnce`, `Served`: a request is in one place until it is answered,
  is answered at most once, and is answered.
- `PagesConserved` (`Scheduler`): pages and rows are free or belong to a live request.
- `ChunkedHasSlot`, `ChunkBudget`, `IgnoreEosFits`: what the comments and the arithmetic
  of `PrefillAdder` promise.
- `AdmitInOrder`, `OutputKept`: admission does not overtake; preemption loses no token.
- `ImplementsLife`: refinement of `RequestLife`.
- `RanksAgree`, `GrammarResolved`, `OneQueue`, `Moves`: the ranks move the same requests
  with the same outcome; no request leaves with a future or an invalid grammar; none is
  lost; all leave.
- `GreedyExact`, `AcceptsLongest`: speculation yields the target's own greedy tokens, and
  accepts as many of the drafted ones as match.
- `CommittedKV`, `PagesConserved` (`EagleDecode`): the row holds the KV of the committed
  tokens, and every page is free once or in the row.
- `BestOfKept`: the ranks together draft what one rank with the whole `lm_head` would:
  the positions of the best kept tokens, best first, with their probabilities.
- `DraftsKept`: the first drafts are the best tokens of the draft vocabulary, by id.

Bounds. *Radix cache*: two requests suffice for every sharing case (one inserts, the
other finds its copy taken); the prompts share a prefix, branch, and differ in
namespace. Five pages are fewer than two requests want, so eviction, refusal and
retraction happen. Two new tokens give a prefill and a decode result in flight
together. Request slots are used again, so finished requests leave content in the tree
for later ones. *Allocator*: three pages and batches of two let it run dry with pages
in the release list. *Scheduler*: two requests with short prompts outgrow the pool
together, which forces retraction; the third has a prompt longer than a chunk, so a
chunked request meets running ones, a full pool and aborts. `ClipMaxNew` lies beyond
every `max_new_tokens`, `Ratios` has the ends of the range. *Grammar queue*: two of the
three requests share a grammar, so a result is found in the cache, and one grammar is
invalid; `MaxPolls` is 1. *EAGLE*: four new tokens are two or more rounds of drafting,
two steps with two branches give trees with siblings and grandchildren, and the pages
of two tokens begin at both offsets. The target answers one of three of the four tokens,
enough to agree with a branch, to disagree with all and to end. Three kept ids in two
shards are more than the one or two drafted, so a column on the wrong rank, a filled one
and one out of order each change a draft. `NumPages` and `RowLen` are large enough for
any draft.

Fairness. `Scheduler` assumes weak fairness of `EventLoop` as a whole: the loop is
`while True` in one thread and never blocks on input (`recv_requests` does not wait);
input arrives or does not. `GrammarQueue` assumes weak fairness of each rank's steps and
of the collective ones, for the same reason, and of compilations only in the
configuration without timeouts; where there are timeouts a compilation may never end,
and `Moves` still holds.

Deadlock is checked except in `sched_priority` and `grammar_groups`, where the process
may really end: by an exception after a preemption (see below), and by an abort of a
request in the grammar queue.

### What the violated runs show

`radix_unaligned`: `cache_unfinished_req` frees duplicates from
`old_prefix_len = len(prefix_indices)` on and rewrites the row from the same position
(radix_cache.py:443 and 449). `prefix_indices` includes the partial page of the previous
chunk. If a chunk ended inside a page, and another request with the same prompt was
cached in between, the request's page is freed as a whole, but its first positions in
the row still point to it. `add_one_req` cuts chunks at pages, `add_chunked_req` does
not: with mixed chunked prefill the chunk budget is reduced by the number of decoding
requests (schedule_policy.py:337 and 450). The passing runs set `Aligned`, which keeps
later chunks at whole pages; the violated run drops it.

`sched_prefill_only`: under overlap, scoring requests (`max_new_tokens` 0) that fill the
slots set `batch_is_full` on an empty running batch; the branches that clear it are
passed by (scheduler.py:1671) and the queue is not served any more.

`grammar_aborts`: an abort sets `to_finish`, `finished()` reads `finished_reason`, so the
poll asks an aborted request, whose `grammar` is `None`, for its result
(scheduler.py:2132).

`eagle_vocab_file`: with a vocabulary file the draft worker uses positions in the file
as token ids; `static_vocab_token_ids` is applied by the sampler only, which drafting
does not use (eagle_worker.py:983 and 622). `GreedyExact` is not affected.

### Configurations outside the passing runs

The passing scheduler runs do not set the following combinations, in which TLC finds
the property violated. They are given as changes to the records of `MCScheduler`.

| Configuration | Property | What happens |
|---|---|---|
| `Normal` with `overlap` | `NeverDies` | `new_page_count_next_decode` misses a request at a page boundary after a prefill came in between; the decode allocation fails (schedule_batch.py:1487) |
| `Normal` with `mixed`, pages of 4 (4 of them), prompts 4, chunk 8, `max_prefill` 16, outputs (2, 2, 1), no aborts | `NeverDies` | a mixed batch decodes without a memory check (scheduler.py:1891) |
| `Preempting` | `NeverDies` | a finished request is preempted and released again (schedule_policy.py:703) |
| `Growing` with priorities (0, 2, 1), 2 slots, `preempt` | `OnePlace` | requests preempted for one that is then refused are not queued again (scheduler.py:1828) |
| `PrefillOnly` | `NeverDies` | rows of a prefill-only batch in flight are counted as free (scheduler.py:1710) |
| `Growing` with `max_queued` 1 | `ImplementsLife` | a retracted request is rejected by the queue limit (scheduler.py:1933) |
| `Normal` with `ignore_eos`, prompts 1, outputs (7, 1, 1), `max_prefill` 4, no aborts | `Served` | a request that may use the whole pool is refused by the empty pool (schedule_policy.py:535) |
| `Normal` with `ignore_eos`, pages of 4, prompts 4, outputs 2, chunk 8, `max_prefill` 16, no aborts | `IgnoreEosFits` | the simulation counts tokens where pages are needed (schedule_policy.py:533) |
| `Normal` with `mixed`, `ignore_eos`, prompts (1, 1, 8), outputs (6, 1, 1), 12 pages, `max_prefill` 16, no aborts | `NeverDies` | a negative chunk budget passes the test for zero (schedule_policy.py:550, assertion scheduler.py:1844) |

## 4. Proofs

### The radix cache

For every page size, number of pages, finite set of requests, set of prompts, chunk
lengths, and with or without overlap and bigrams:

| Module | Theorem | Statement |
|---|---|---|
| `RadixCacheProofs` | `Inductive` | `Spec => []IInv` |
| | `TypeCorrect` | `Spec => []TypeOK` |
| | `StructureCorrect` | `Spec => []StructureOK` |
| | `LocksCorrect` | `Spec => []LockRefExact` |
| | `HeldPrefixStableCorrect` | `Spec => HeldPrefixStable` |
| | `SizesCorrect` | `Spec => []SizesExact` |
| `RadixCachePages` | `PagesOwnedCorrect` | `Spec => []PageOwnedOnce` |
| | `RowsReadTree` | `WholePages => (Spec => []RowReadsTree)` |

The assumptions are `PageSizeAssumption`, `ConstantsOK` and `ClientConstants`. `RowsReadTree` alone has a
hypothesis, `WholePages == PageSize = 1 \/ (~IsEagle /\ Aligned)`; `radix_unaligned` is
the counterexample without it.

*Types, structure, locks.* None of these invariants is inductive alone: that a
decremented lock stays natural needs the exact count, the count is preserved by a split
only if the tree is a radix tree and every holder sits at a node, and eviction spares a
holder only because its whole chain is counted. `IInv` joins them: the pair of a tree
and the map from holders to nodes is a `LockedTree`, requests are typed, and their
lengths obey `FillLaw`, which makes the keys that `insert` receives as long as the row.
`RadixTreeProofs` shows what each tree operator preserves and lifts this to a tree with
holders; `RadixCacheProofs` handles the records and has one lemma per action.

*Sizes.* The code changes `evictable_size_` and `protected_size_` node by node, along a
chain. The proof counts paths instead (`Sized`): a path is held when some request's node
lies at or below it, and the sizes are the page size times the numbers of paths not held
and held. A split then changes nothing, `inc_lock_ref` moves the paths of one chain that
nobody held, `insert` adds the new ones and `evict` removes paths not held. `Sized` and
`LockedTree` give `SizesExact`.

*Pages.* The invariant `PInv` adds two things to `IInv`. `Parted` says that the values of
the tree, the free pages and what each request owns are disjoint, each page counted
once, and together all pages. It is not inductive without `Good`, which says what a
request's slots look like past the match: `last_node` is the key of exactly the matched
tokens, `prefix_indices` passes the match by less than a page (and the partial bigram),
and two positions share a page exactly when they are in the same block. That is what
makes the three pieces a row is cut into (kept, freed as duplicate, inserted) disjoint in
pages and not only in positions: `ThreeCuts` in `RadixTreeProofs` is this fact, and
`UnfinishedParted` and `FinishedParted` apply it to `cache_unfinished_req` and
`cache_finished_req`. It holds for chunks that end inside a page, too.

*Rows.* `RInv` adds to `PInv` that the slots of the matched prefix are the values of the
tree along `last_node` (`Reads`), and that until the prefill's result `prefix_indices` is
the match (`Whole`), so that `cache_unfinished_req` rewrites the row from where the tree
begins to differ. Other requests' steps keep `Reads` by the stability of held prefixes.

### The allocator

For every set of configurations (page size, sorting, length), number of pages and rows,
set of requests and batch size:

| Theorem | Statement |
|---|---|
| `AllocatorInv` | `Spec => []IInv` |
| `AllocatorIsPool` | `Spec => PoolSpec` |
| `AllocatorTypes` | `Spec => []TypeOK` |
| `NoPageLost` | `Spec => []PagesPartitioned` |
| `KvStaysPaged` | `Spec => []KvPaged` |
| `NoneIsShort` | `Spec => []NoneOnlyWhenShort` |

The assumption is `AllocatorConstants`. In `IInv` (`PagesInv` and `RowsOK`) the slots of a
request fill a list of distinct pages one after the other (`BlockTable`), no page belongs
to two requests or to a request and the group, and the lists hold the rest, each once.
Neither `PagesPartitioned` nor `KvPaged` is inductive: a kernel that continues the last
page writes from `last_loc` on, which is right only if the whole table is laid out in
blocks, and frees count pages by slots. `KVAllocatorKernels` shows what program i writes:
its share of the list begins after the pages of the programs before it (sums as numbers
of pairs, by induction on i), so the shares are disjoint pieces of the free list.
`KVAllocatorProofs` has one lemma per action, each proving the invariant and the step of
`SlotPool` together. `NoneIsShort` compares the three estimates that decide on a merge
with the pages a batch opens.

### The grammar queue

For every nonempty set of ranks, set of requests, assignment of grammars and outcomes,
and with timeouts and aborts on any of them:

| Theorem | Statement |
|---|---|
| `Inductive` | `Spec => []IInv` |
| `RanksAgreeCorrect` | `Spec => []RanksAgree` |
| `GrammarResolvedCorrect` | `Spec => []GrammarResolved` |
| `QueueInductive` | `Spec => []QInv` |
| `OneQueueCorrect` | `Spec => []OneQueue` |
| `GrammarTypes` | `Spec => []TypeOK` |

The assumption is `GrammarConstants`. `RanksAgree` speaks only of the moments when all
ranks are at the top of an iteration, so it says nothing about the steps in between,
where queues, aborts and caches differ. `IInv` says what holds there (`Together`): there
are a queue, a list of moved requests, a set of aborted ones and a cache with which the
iteration began on every rank; a rank that has polled differs from them by the results
of its own ready requests, and one that has moved by those of the agreed number, which
is the greatest of the ranks' counts and therefore one that some rank has seen ready.
That is why a rank that waits for the missing results ends with the same state as the one
that had them. `Phases` keeps the ranks on the same side of the reduction; `Settled`
says that a resolved request has a valid grammar or is aborted, and that the cache
never calls an invalid grammar valid. `QInv` splits the requests received into queue and
moved, each once, and says that one polled `MaxPolls + 1` times is about to leave
(`Waits`), which bounds the polls. There is one lemma per action. The theorems include
groups of several ranks with timeouts, which the runs leave out: a rank may end with an
exception there, but ranks that meet again agree.

### The scheduler

For every set of configurations (both loops, page and chunk sizes, limits, mixed chunks,
priorities, `ignore_eos`), every set of requests, and aborts at any time:

| Theorem | Statement |
|---|---|
| `AInvCorrect` | `Spec => []AInv` |
| `AnsweredOnceCorrect` | `Spec => []AnsweredOnce` |
| `OutputKeptCorrect` | `Spec => OutputKept` |
| `AdmitInOrderCorrect` | `Spec => AdmitInOrder` |
| `OnePlaceCorrect` | `Spec => [](Steady => OnePlace)` |

The assumption is `SchedulerConstants`. `AnsweredOnce` alone is far from inductive: an
answer is given by an abort, by the queue limit, by a result and by a late result of the
overlap loop, and each looks in a different place. `AInv` says where a request may be at
every point of an iteration (`Placed`): one that waits or was just preempted is unanswered
and in no batch; one that runs, is chunked, is admitted or is in the batch just launched
is unanswered unless it is finished; one of the batch whose result is overdue may also
have been retracted, and then may wait again, which is the case `is_retracted` exists for.
Every list names a request once, which filtering, sorting, merging and retraction keep.
`Pending` ties `result_queue` to the last batches, and `Fresh` keeps a prefill batch
apart from the running batch until it is merged. `Scanned` says that the admitted
requests are the first ones of the sorted queue; `AdmitInOrder` follows from it in the
step that commits the batch. There is one lemma per action, which proves `AInv'`, the step
of `OutputKept` and the second invariant together.

`OnePlace` also needs that no request drops out. `CInv` says that one received and not
answered is queued, running, chunked, admitted or in the prefill batch to be merged
(`Covered`), and that there is at most one chunked request, which is first in its batch
(`OneChunk`): otherwise it would be counted twice or be merged half prefilled. The
hypothesis `Steady == ~PriorityScheduling /\ \A r \in Reqs : MaxNew[r] > 0` leaves out
preemption, which loses requests (the table in section 3), and requests that generate
nothing, whose batches are never merged. The theorem covers overlap, mixed chunks,
retraction, the queue limit, `ignore_eos` and pages of any size, also where the process may
die for lack of memory.

`Scheduler` builds its lists without recursion so that these proofs are possible: a
sorted list by ranks, a filtered one by a recursive function on positions.

### Only model-checked

- `KernelsSequential`, whose reference is a fold over the tokens of a batch: what a
  recursive definition computes for every input is out of the prover's reach, which is
  also why `KVAllocator` and `Scheduler` sort and sum without recursion.
- Of the scheduler: `NeverDies`, `ImplementsLife` and `IgnoreEosFits`, which are not true of every
  configuration (section 3); `PagesConserved`, `ChunkedHasSlot`, `ChunkBudget` and the
  numeric part of `TypeOK`, which rest on sums over the requests and on the budgets of
  the passing configurations.
- All properties of speculative decoding.
- Liveness (`Served`, `Moves`), as `ENABLED` is out of the prover's reach.

## 5. Plan

1. Proofs: pages and rows conserved in `Scheduler`; the slots of `EagleDecode`.
2. Speculative decoding of several requests, and the overlapped worker, whose accepted
   lengths are known one iteration late.
3. The retraction and preemption of `Scheduler` over the radix cache instead of the
   chunk cache.
4. Hierarchical and sliding-window caches; sessions; tokenizer manager request states.

## 6. Not modelled

KV tensors, attention, sampling and every other numeric computation; logprobs,
streaming, metrics, tracing; KV events, sliding-window, mamba and hierarchical caches,
the C++ tree; data and pipeline parallel coordination; disaggregation; processes
outside the scheduler; the router. `PROJECT.json` gives the reason for each.

- Radix cache: with bigram keys the decode allocation belongs to the draft worker, so
  `Decode` is not taken there.
- Scheduler: cache-aware orders (they permute the queue), LoRA, weight updates, the
  branches for data and pipeline parallelism. The budget error of a preemption that
  displaces a request of another length (schedule_policy.py:700) needs four requests
  and is beyond the instances.
- Grammar queue: the backends and the token masks. Timeouts are combined with one rank
  only: with several, a head that times out on one rank while another has its result is
  counted twice (scheduler.py:2179), after which a rank ends with an exception; the
  model has this step, the runs do not reach it.
- Speculation: the KV of the draft model, sampling verification, grammar masks, batches
  of several requests (the programs of `assign_draft_cache_locs`, spec_utils.py:199,
  then write a shared array), the v2, standalone and n-gram workers, CUDA graphs. Of the
  tree kernel's read past its selection (eagle_utils.cu:105-118) the model has the masks
  it can give; that the loop may not end, and the write of up to two entries behind the
  mask of the last node, are not modelled.
- Static vocabulary: per-device caches of selected rows, the soft cap, token-id logprobs.
