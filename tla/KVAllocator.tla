---------------------------- MODULE KVAllocator -----------------------------
(***************************************************************************)
(* The token and the paged KV allocator with the request pool: the free    *)
(* and the release list, merging them, grouped frees, and the kernels that *)
(* spread the pages of one batch over its requests.  A slot is a page      *)
(* number times PageSize plus an offset; page 0 takes the dummy writes of  *)
(* padded tokens.  The clients are the requests of one scheduler; each has *)
(* the slots its KV lives in and, while it is in a batch, a row of         *)
(* req_to_token.                                                           *)
(***************************************************************************)
EXTENDS Integers, FiniteSets, Sequences, SequencesExt

CONSTANTS
  Configs,     \* the allocators to check: [page_size, need_sort, max_len]
  NumPages,    \* num_pages
  Owners,      \* requests
  NumRows,     \* ReqToTokenPool.size
  MaxBatch     \* bound: the largest batch

ASSUME AllocatorConstants ==
  /\ NumPages \in Nat /\ NumRows \in Nat /\ MaxBatch \in Nat
  /\ Configs \subseteq [page_size : Nat \ {0}, need_sort : BOOLEAN, max_len : Nat]

VARIABLES
  conf,                         \* the allocator, fixed
  free_pages, release_pages,    \* sequences of page numbers
  free_group,                   \* slots freed since free_group_begin, concatenated
  in_group,                     \* ~is_not_in_free_group
  free_slots,                   \* ReqToTokenPool.free_slots
  kv,                           \* the slots of each owner, by token position
  row                           \* req_pool_idx, or -1

vars == <<conf, free_pages, release_pages, free_group, in_group, free_slots, kv, row>>
lists == <<free_pages, release_pages>>

PageSize == conf.page_size   \* 1 is TokenToKVPoolAllocator
NeedSort == conf.need_sort
MaxLen == conf.max_len       \* bound: the longest sequence

Pages == 1..NumPages
Page(slot) == slot \div PageSize
Ceil(n) == (n + PageSize - 1) \div PageSize

\* torch.sort and torch.unique: element i has i elements up to itself.
Sorted(s) ==
  LET rank(p) == Cardinality({q \in DOMAIN s : s[q] < s[p] \/ (s[q] = s[p] /\ q <= p)})
  IN  [i \in DOMAIN s |-> s[CHOOSE p \in DOMAIN s : rank(p) = i]]
SortedSeq(S) ==
  [i \in 1..Cardinality(S) |-> CHOOSE x \in S : Cardinality({y \in S : y <= x}) = i]

\* The sum of the naturals f[j] for j in S, as a number of pairs.
Sum(f, S) == Cardinality(UNION {{j} \X (1..f[j]) : j \in S})
Total(f) == Sum(f, DOMAIN f)

\* Mutant: the dummy page is free as well.
InitFromZero ==
  /\ conf \in Configs
  /\ free_pages = [i \in 1..NumPages |-> i - 1]
  /\ release_pages = <<>> /\ free_group = <<>> /\ in_group = FALSE
  /\ free_slots = [i \in 1..NumRows |-> i - 1]
  /\ kv = [o \in Owners |-> <<>>] /\ row = [o \in Owners |-> -1]

Init ==
  /\ conf \in Configs
  /\ free_pages = [i \in 1..NumPages |-> i]
  /\ release_pages = <<>>
  /\ free_group = <<>>
  /\ in_group = FALSE
  /\ free_slots = [i \in 1..NumRows |-> i - 1]
  /\ kv = [o \in Owners |-> <<>>]
  /\ row = [o \in Owners |-> -1]
-----------------------------------------------------------------------------
(* The lists as values l = [free |-> .., release |-> ..].                  *)

Lists == [free |-> free_pages, release |-> release_pages]

merge_and_sort_free(l) ==
  IF l.release = <<>> THEN l
  ELSE [free |-> Sorted(l.free \o l.release), release |-> <<>>]

\* Mutant: a page is added once per slot.
FreedEachSlot(l, slots) ==
  LET pages == [i \in DOMAIN slots |-> Page(slots[i])]
  IN  IF NeedSort THEN [l EXCEPT !.release = pages \o @] ELSE [l EXCEPT !.free = pages \o @]

\* free outside a group: the paged allocator adds each page once and in front.
Freed(l, slots) ==
  LET pages == SortedSeq({Page(slots[i]) : i \in DOMAIN slots})
      into(list) == IF PageSize = 1 THEN list \o slots ELSE pages \o list
  IN  IF slots = <<>> THEN l
      ELSE IF NeedSort THEN [l EXCEPT !.release = into(@)]
      ELSE [l EXCEPT !.free = into(@)]

\* A batch: owners b, their lengths before and after.
NewPages(pre, seq, i) == Ceil(seq[i]) - Ceil(pre[i])

\* Mutant: the sum keeps the request's own pages.
BeforeAndOwn(f, i) == Sum(f, 1..i)

\* The pages of the requests before i (sum_num_new_pages - num_page_start_loc_self).
Before(f, i) == Sum(f, 1..(i - 1))

\* alloc_extend_kernel, program i: the slots of request i of the batch.
ExtendKernel(pre, seq, last_loc, free, i) ==
  LET start == Before([j \in DOMAIN pre |-> NewPages(pre, seq, j)], i)
      full == Ceil(pre[i]) * PageSize
      part1 == (IF seq[i] < full THEN seq[i] ELSE full) - pre[i]
      part2 == (seq[i] \div PageSize) * PageSize - full
  IN  [k \in 1..(seq[i] - pre[i]) |->
         LET o == k - 1 IN
         IF o < part1 THEN last_loc[i] + 1 + o
         ELSE IF o < part1 + part2
           THEN free[start + (o - part1) \div PageSize + 1] * PageSize
                  + ((o - part1) % PageSize)
         ELSE free[start + NewPages(pre, seq, i)] * PageSize + (o - part1 - part2)]

\* alloc_decode_kernel, program i; with PageSize 1 the slots are the pages.
DecodeKernel(seq, last_loc, free, i) ==
  LET pre == [j \in DOMAIN seq |-> seq[j] - 1]
      start == Before([j \in DOMAIN seq |-> NewPages(pre, seq, j)], i)
  IN  <<IF NewPages(pre, seq, i) = 0 THEN last_loc[i] + 1 ELSE free[start + 1] * PageSize>>

\* Mutant: merges only for the full pages.
ExtendListsTight(l, pre, seq) ==
  IF NeedSort /\ Total([i \in DOMAIN pre |-> seq[i] - pre[i]]) \div PageSize > Len(l.free)
  THEN merge_and_sort_free(l) ELSE l

\* alloc, alloc_extend: the lists after the merge, and the pages the batch needs.
ExtendLists(l, pre, seq) ==
  LET tokens == Total([i \in DOMAIN pre |-> seq[i] - pre[i]])
      want == IF PageSize = 1 THEN tokens ELSE tokens \div PageSize + Len(pre) + 1
  IN  IF NeedSort /\ want > Len(l.free) THEN merge_and_sort_free(l) ELSE l
ExtendPages(pre, seq) == Total([i \in DOMAIN pre |-> NewPages(pre, seq, i)])

\* alloc, alloc_decode: get_num_new_pages counts the sequences that open a page.
DecodeLists(l, seq) ==
  IF NeedSort /\ Len(seq) > Len(l.free) THEN merge_and_sort_free(l) ELSE l
DecodePages(seq) ==
  IF PageSize = 1 THEN Len(seq)
  ELSE Cardinality({i \in DOMAIN seq : seq[i] % PageSize = 1})
-----------------------------------------------------------------------------
(* Actions.  A failed allocation raises and ends the scheduler, so the     *)
(* allocating actions are guarded by success.                              *)

\* The batches: distinct owners with their new lengths.
Batches(S) ==
  {b \in UNION {[1..n -> S] : n \in 1..MaxBatch} : \A i, j \in DOMAIN b : b[i] = b[j] => i = j}
Pre(b) == [i \in DOMAIN b |-> Len(kv[b[i]])]

\* Mutant: the location of the first token.
LastLocFirst(b) == [i \in DOMAIN b |-> IF kv[b[i]] = <<>> THEN -1 ELSE Head(kv[b[i]])]

LastLoc(b) == [i \in DOMAIN b |-> IF kv[b[i]] = <<>> THEN -1 ELSE Last(kv[b[i]])]
Lengths(b) == {seq \in [DOMAIN b -> 1..MaxLen] : \A i \in DOMAIN b : seq[i] > Len(kv[b[i]])}

\* kv with the slots out[i] appended for request i of the batch.
Appended(b, out) ==
  [o \in Owners |-> kv[o] \o (IF \E i \in DOMAIN b : b[i] = o
                              THEN out[CHOOSE i \in DOMAIN b : b[i] = o] ELSE <<>>)]
ExtendOut(b, seq, l) ==
  Appended(b, [i \in DOMAIN b |-> ExtendKernel(Pre(b), seq, LastLoc(b), l.free, i)])
DecodeSeq(b) == [i \in DOMAIN b |-> Len(kv[b[i]]) + 1]
DecodeOut(b, l) ==
  Appended(b, [i \in DOMAIN b |-> DecodeKernel(DecodeSeq(b), LastLoc(b), l.free, i)])

TakeLists(l, n) ==
  /\ n <= Len(l.free)
  /\ free_pages' = SubSeq(l.free, n + 1, Len(l.free))
  /\ release_pages' = l.release

\* alloc_for_extend: a row and KV for every request of the batch.
Extend ==
  /\ ~in_group
  /\ \E b \in Batches({o \in Owners : row[o] = -1}) : \E seq \in Lengths(b) :
       LET l == ExtendLists(Lists, Pre(b), seq)
       IN  /\ Len(b) <= Len(free_slots)
           /\ row' = [o \in Owners |-> IF \E i \in DOMAIN b : b[i] = o
                        THEN free_slots[CHOOSE i \in DOMAIN b : b[i] = o] ELSE row[o]]
           /\ free_slots' = SubSeq(free_slots, Len(b) + 1, Len(free_slots))
           /\ TakeLists(l, ExtendPages(Pre(b), seq))
           /\ kv' = ExtendOut(b, seq, l)
  /\ UNCHANGED <<conf, free_group, in_group>>

\* alloc_for_decode: one more token for every request of the batch.
Decode ==
  /\ ~in_group
  /\ \E b \in Batches({o \in Owners : row[o] # -1 /\ Len(kv[o]) < MaxLen}) :
       LET l == DecodeLists(Lists, DecodeSeq(b))
       IN  TakeLists(l, DecodePages(DecodeSeq(b))) /\ kv' = DecodeOut(b, l)
  /\ UNCHANGED <<conf, free_group, in_group, free_slots, row>>

\* get_next_batch_to_run: a chunked request gives its row back and keeps its KV.
ReleaseRow(o) ==
  /\ row[o] # -1 /\ ~in_group
  /\ row' = [row EXCEPT ![o] = -1]
  /\ free_slots' = Append(free_slots, row[o])
  /\ UNCHANGED <<conf, lists, free_group, in_group, kv>>

\* cache_finished_req: two frees that meet at a page boundary, then the row.
Release(o) ==
  /\ row[o] # -1
  /\ \E cut \in {c \in 0..Len(kv[o]) : c % PageSize = 0} :
       LET head == SubSeq(kv[o], 1, cut)
           tail == SubSeq(kv[o], cut + 1, Len(kv[o]))
           l == Freed(Freed(Lists, head), tail)
       IN  IF in_group
           THEN /\ free_group' = free_group \o head \o tail
                /\ UNCHANGED lists
           ELSE /\ free_pages' = l.free /\ release_pages' = l.release
                /\ UNCHANGED free_group
  /\ kv' = [kv EXCEPT ![o] = <<>>]
  /\ row' = [row EXCEPT ![o] = -1]
  /\ free_slots' = Append(free_slots, row[o])
  /\ UNCHANGED <<conf, in_group>>

\* process_batch_result_decode groups the frees of one batch.
free_group_begin ==
  /\ ~in_group
  /\ in_group' = TRUE
  /\ free_group' = <<>>
  /\ UNCHANGED <<conf, lists, free_slots, kv, row>>

\* Mutant: the flag is reset after the call of free, which appends to the group again.
free_group_end_late ==
  /\ in_group
  /\ in_group' = FALSE
  /\ free_group' = free_group \o free_group
  /\ UNCHANGED <<conf, lists, free_slots, kv, row>>

free_group_end ==
  LET l == Freed(Lists, free_group)
  IN  /\ in_group
      /\ in_group' = FALSE
      /\ free_pages' = l.free /\ release_pages' = l.release
      /\ UNCHANGED <<conf, free_group, free_slots, kv, row>>

\* flush_cache, when no request is left.
Clear ==
  /\ ~in_group /\ \A o \in Owners : kv[o] = <<>> /\ row[o] = -1
  /\ free_pages' = [i \in 1..NumPages |-> i] /\ release_pages' = <<>>
  /\ free_group' = <<>> /\ in_group' = FALSE
  /\ free_slots' = [i \in 1..NumRows |-> i - 1]
  /\ UNCHANGED <<conf, kv, row>>

Next ==
  \/ Extend \/ Decode \/ free_group_begin \/ free_group_end \/ Clear
  \/ \E o \in Owners : ReleaseRow(o) \/ Release(o)

Spec == Init /\ [][Next]_vars
-----------------------------------------------------------------------------
(* Properties.                                                             *)

PagesOf(s) == {Page(s[i]) : i \in DOMAIN s}
Grouped == IF in_group THEN PagesOf(free_group) ELSE {}

\* Lists hold page numbers, never the dummy page 0; slots and rows are in range.
TypeOK ==
  /\ free_pages \in Seq(Pages) /\ release_pages \in Seq(Pages)
  /\ in_group \in BOOLEAN
  /\ kv \in [Owners -> Seq(PageSize..(PageSize * (NumPages + 1) - 1))]
  /\ row \in [Owners -> -1..(NumRows - 1)]

\* Every page is in exactly one place: once in one of the lists, in the group, or
\* under one request, and no request has a slot twice.  Rows alike.
PagesPartitioned ==
  /\ \A p \in Pages :
       Cardinality({i \in DOMAIN free_pages : free_pages[i] = p})
         + Cardinality({i \in DOMAIN release_pages : release_pages[i] = p})
         + Cardinality({o \in Owners : p \in PagesOf(kv[o])})
         + (IF p \in Grouped THEN 1 ELSE 0) = 1
  /\ \A o \in Owners : IsInjective(kv[o])
  /\ \A s \in 0..(NumRows - 1) :
       Cardinality({i \in DOMAIN free_slots : free_slots[i] = s})
         + Cardinality({o \in Owners : row[o] = s}) = 1

\* Token i of a request sits at offset i of its page and next to token i - 1: what the
\* assertions of debug_mode on last_loc ask of the callers.
KvPaged ==
  \A o \in Owners : \A i \in DOMAIN kv[o] :
    /\ kv[o][i] % PageSize = (i - 1) % PageSize
    /\ i > 1 /\ (i - 1) % PageSize # 0 => kv[o][i] = kv[o][i - 1] + 1

\* An allocation that returns None really had too few pages: none waits in the release
\* list, whatever the batch, although each method has its own test for merging.
NoneOnlyWhenShort ==
  /\ \A b \in Batches(Owners) : \A seq \in Lengths(b) :
       ExtendPages(Pre(b), seq) > Len(ExtendLists(Lists, Pre(b), seq).free) =>
         ExtendPages(Pre(b), seq) > Len(free_pages) + Len(release_pages)
  /\ \A b \in Batches({o \in Owners : kv[o] # <<>>}) :
       DecodePages(DecodeSeq(b)) > Len(DecodeLists(Lists, DecodeSeq(b)).free) =>
         DecodePages(DecodeSeq(b)) > Len(free_pages) + Len(release_pages)

\* The reference for the kernels: token after token, request after request; a token
\* goes next to the one before it, or opens the next page of the free list.
OneToken(s, o) ==
  IF Len(s.kv[o]) % PageSize # 0
  THEN [s EXCEPT !.kv[o] = Append(@, Last(@) + 1)]
  ELSE [s EXCEPT !.kv[o] = Append(@, Head(s.free) * PageSize), !.free = Tail(@)]
Tokens(b, n) == FlattenSeq([i \in DOMAIN b |-> [k \in 1..n[i] |-> b[i]]])
OneByOne(l, b, n) == FoldLeft(OneToken, [kv |-> kv, free |-> l.free], Tokens(b, n))

\* The programs of a kernel run side by side and find their pages by a sum over the
\* requests before them; they yield what the one-by-one allocation does, and the pages
\* cut off the list are those it used.
KernelsSequential ==
  /\ \A b \in Batches(Owners) : \A seq \in Lengths(b) :
       LET l == ExtendLists(Lists, Pre(b), seq)
           n == ExtendPages(Pre(b), seq)
           s == OneByOne(l, b, [i \in DOMAIN b |-> seq[i] - Len(kv[b[i]])])
       IN  n <= Len(l.free) =>
             ExtendOut(b, seq, l) = s.kv /\ SubSeq(l.free, n + 1, Len(l.free)) = s.free
  /\ \A b \in Batches({o \in Owners : kv[o] # <<>>}) :
       LET l == DecodeLists(Lists, DecodeSeq(b))
           n == DecodePages(DecodeSeq(b))
           s == OneByOne(l, b, [i \in DOMAIN b |-> 1])
       IN  n <= Len(l.free) =>
             DecodeOut(b, l) = s.kv /\ SubSeq(l.free, n + 1, Len(l.free)) = s.free

Pool == INSTANCE SlotPool WITH
  avail <- ToSet(free_pages) \cup ToSet(release_pages),
  held <- [o \in Owners |-> PagesOf(kv[o])],
  pending <- Grouped

\* The allocator implements the page pool: the two lists, the merge, grouped frees and
\* the kernels are invisible to its clients.
PoolSpec == Pool!Spec
=============================================================================
