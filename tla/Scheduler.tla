----------------------------- MODULE Scheduler ------------------------------
(***************************************************************************)
(* The event loop of one scheduler process: the waiting queue, the running *)
(* batch, chunked prefill, admission by the PrefillAdder budgets, decode   *)
(* with retraction, priority preemption, aborts and flushes, in the normal *)
(* and in the overlap loop.  The prefix cache is ChunkCache, so a request  *)
(* owns all the KV it uses and memory is a number of free pages.  The loop *)
(* is one thread: each action is one part of an iteration, and input is    *)
(* handled only at the top (pc = "recv").  An exception that leaves the    *)
(* loop ends the process (pc = "dead", err tells which).                   *)
(***************************************************************************)
EXTENDS Integers, FiniteSets, FiniteSetsExt, Functions, Sequences

CONSTANTS
  Reqs,
  Configs       \* the configurations and workloads the server may be started with

VARIABLE conf   \* the one it was started with

\* Of the workload, for each request: len(origin_input_ids), max_new_tokens, priority,
\* ignore_eos; and the sets of requests that one AbortReq may match.
Prompt == conf.prompt
MaxNew == conf.max_new
Priority == conf.priority
IgnoreEos == conf.ignore_eos
AbortSets == conf.aborts

PageSize == conf.page_size
NumPages == conf.pages
MaxTokens == NumPages * PageSize
MaxRunning == conf.max_running      \* max_running_requests = rows of req_to_token
MaxQueued == conf.max_queued        \* max_queued_requests; 0 is None
ChunkSize == conf.chunk             \* chunked_prefill_size; 0 is None
MaxPrefill == conf.max_prefill      \* max_prefill_tokens
Overlap == conf.overlap             \* event_loop_overlap
MixedChunk == conf.mixed            \* enable_mixed_chunk
PriorityScheduling == conf.preempt  \* enable_priority_scheduling, and with it try_preemption
Threshold == 0                      \* priority_scheduling_preemption_threshold
ClipMaxNew == 9                     \* CLIP_MAX_NEW_TOKENS, beyond every max_new_tokens
ReserveTokens == 1                  \* IGNORE_EOS_RESERVE_TOKENS

\* new_token_ratio is n / RatioDen for an n in Ratios.
Ratios == {0, 1}
RatioDen == 2

\* init_req_max_new_tokens clamps max_new_tokens with max_req_len = max_total_num_tokens - 1.
ASSUME SchedulerConstants ==
  \A c \in Configs :
    /\ c.page_size \in Nat \ {0} /\ c.pages \in Nat
    /\ c.max_running \in Nat \ {0} /\ c.max_queued \in Nat
    /\ \A r \in Reqs : /\ c.prompt[r] \in Nat \ {0} /\ c.max_new[r] \in Nat /\ c.priority[r] \in Int
                       /\ c.prompt[r] + c.max_new[r] <= c.pages * c.page_size - 2

VARIABLES
  waiting,       \* waiting_queue
  running,       \* running_batch.reqs
  full,          \* running_batch.batch_is_full
  chunked,       \* chunked_req, as a set of at most one request
  batch, last,   \* the batch of this iteration; last_batch (cur_batch between iterations)
  results,       \* result_queue
  adder,         \* the PrefillAdder of this iteration
  scan,          \* the position in the waiting queue it has come to
  req,           \* the fields of the Req objects
  avail, rows,   \* free pages, free rows of req_to_token
  protected,     \* ChunkCache.protected_size_
  ratio,         \* new_token_ratio
  sent, aborts,  \* requests received; AbortReqs received
  answered,      \* terminal answers sent for each request
  pc, err

vars == <<conf, waiting, running, full, chunked, batch, last, results, adder, scan, req,
          avail, rows, protected, ratio, sent, aborts, answered, pc, err>>

Least(a, b) == IF a < b THEN a ELSE b
Most(a, b) == IF a > b THEN a ELSE b
Ceil(n) == (n + PageSize - 1) \div PageSize
Sum(S, f(_)) == FoldSet(LAMBDA r, n : f(r) + n, 0, S)

\* The elements of s at the positions I; those of s in the order that the set of pairs of
\* positions before gives; s backwards; s without its element at i.
Picked(s, I) ==
  LET f[n \in 0..Len(s)] ==
        IF n = 0 THEN <<>> ELSE IF n \in I THEN Append(f[n - 1], s[n]) ELSE f[n - 1]
  IN  f[Len(s)]
Arranged(s, before) ==
  [n \in DOMAIN s |->
     s[CHOOSE i \in DOMAIN s : Cardinality({j \in DOMAIN s : <<j, i>> \in before}) = n - 1]]
Pairs(s) == (DOMAIN s) \X (DOMAIN s)
Reversed(s) == [i \in 1..Len(s) |-> s[(Len(s) - i) + 1]]
RemoveAt(s, i) == SubSeq(s, 1, i - 1) \o SubSeq(s, i + 1, Len(s))

Without(s, S) == Picked(s, {i \in DOMAIN s : s[i] \notin S})

NoBatch == [mode |-> "none", reqs |-> <<>>, chunked |-> {}, decoding |-> {},
            prefill_only |-> FALSE]
NoAdder == [can |-> <<>>, preempted |-> <<>>, new_chunked |-> {}, states |-> {},
            rem_input |-> 0, rem_chunk |-> 0, total_off |-> 0, cur_off |-> 0]
FreshReq == [out |-> 0, fill |-> 0, prefix |-> 0, ext |-> 0, kv |-> 0, chunks |-> 0,
             retracted |-> FALSE, to_finish |-> FALSE, finished |-> FALSE, freed |-> FALSE]

IsExtend(b) == b.mode \in {"extend", "mixed"}

Init ==
  /\ conf \in Configs
  /\ waiting = <<>> /\ running = <<>> /\ full = FALSE /\ chunked = {}
  /\ batch = NoBatch /\ last = NoBatch /\ results = <<>>
  /\ adder = NoAdder /\ scan = 0
  /\ req = [r \in Reqs |-> FreshReq]
  /\ avail = NumPages /\ rows = MaxRunning /\ protected = 0
  /\ ratio \in Ratios
  /\ sent = {} /\ aborts = {} /\ answered = [r \in Reqs |-> 0]
  /\ pc = "recv" /\ err = "none"

\* An exception leaves the event loop.
Die(why) ==
  /\ pc' = "dead" /\ err' = why
  /\ UNCHANGED <<conf, waiting, running, full, chunked, batch, last, results, adder, scan, req,
                 avail, rows, protected, ratio, sent, aborts, answered>>
-----------------------------------------------------------------------------
(* The waiting queue.  A queue with the requests rejected so far is a      *)
(* record [q |-> .., out |-> ..].                                          *)

\* The queued request a more important one may displace: least priority, then newest.
LeastPreferred(q) ==
  CHOOSE i \in DOMAIN q : \A j \in DOMAIN q :
    \/ Priority[q[i]] < Priority[q[j]]
    \/ Priority[q[i]] = Priority[q[j]] /\ i >= j

\* Mutant of Enqueue: the rejected request gets no answer.
EnqueueSilent(w, r) ==
  IF MaxQueued = 0 \/ Len(w.q) < MaxQueued THEN [w EXCEPT !.q = Append(@, r)] ELSE w

\* _add_request_to_queue with _abort_on_queued_limit.
Enqueue(w, r) ==
  LET i == LeastPreferred(w.q)
  IN  IF MaxQueued = 0 \/ Len(w.q) < MaxQueued THEN [w EXCEPT !.q = Append(@, r)]
      ELSE IF PriorityScheduling /\ Priority[r] > Priority[w.q[i]]
      THEN [q |-> Append(RemoveAt(w.q, i), r), out |-> w.out \cup {w.q[i]}]
      ELSE [w EXCEPT !.out = @ \cup {r}]

EnqueueAll(q, s) ==
  LET w[n \in 0..Len(s)] == IF n = 0 THEN [q |-> q, out |-> {}] ELSE Enqueue(w[n - 1], s[n])
  IN  w[Len(s)]

Answer(S) == [r \in Reqs |-> answered[r] + IF r \in S THEN 1 ELSE 0]

\* Mutant of Sorted: the priority is forgotten.
SortedFCFS(q) == q

\* calc_priority: FCFS, by priority first when it is enabled; the order of equals is kept.
Sorted(q) ==
  LET before(i, j) == \/ Priority[q[i]] > Priority[q[j]]
                      \/ Priority[q[i]] = Priority[q[j]] /\ i < j
  IN  IF PriorityScheduling THEN Arranged(q, {p \in Pairs(q) : before(p[1], p[2])}) ELSE q
-----------------------------------------------------------------------------
(* Input, handled at the top of an iteration.                              *)

HandleGenerate(r) ==
  LET w == Enqueue([q |-> waiting, out |-> {}], r)
  IN  /\ pc = "recv" /\ r \notin sent
      /\ sent' = sent \cup {r}
      /\ waiting' = w.q /\ answered' = Answer(w.out)
      /\ UNCHANGED <<conf, running, full, chunked, batch, last, results, adder, scan, req,
                     avail, rows, protected, ratio, aborts, pc, err>>

\* Mutant of AbortedAtOnce: a request that runs is answered, too.
AbortedAndRunning(S) == {r \in S \cap sent : answered[r] = 0}

AbortedAtOnce(S) == S \cap Range(waiting)

\* abort_request: queued requests are dropped, started ones finish with their next token.
AbortRequest(S) ==
  LET queued == AbortedAtOnce(S)
      started == S \cap (Range(running) \cup Range(last.reqs))
  IN  /\ pc = "recv" /\ S \notin aborts /\ S \cap sent # {}
      /\ aborts' = aborts \cup {S}
      /\ waiting' = Without(waiting, queued) /\ answered' = Answer(queued)
      /\ req' = [r \in Reqs |-> IF r \in started /\ ~req[r].finished
                                THEN [req[r] EXCEPT !.to_finish = TRUE] ELSE req[r]]
      /\ UNCHANGED <<conf, running, full, chunked, batch, last, results, adder, scan,
                     avail, rows, protected, ratio, sent, pc, err>>

\* flush_cache, when _is_no_request allows it.
FlushCache ==
  /\ pc = "recv"
  /\ waiting = <<>> /\ running = <<>> /\ last.reqs = <<>>
  /\ Overlap => results = <<>>
  /\ last' = NoBatch
  /\ avail' = NumPages /\ rows' = MaxRunning
  /\ UNCHANGED <<conf, waiting, running, full, chunked, batch, results, adder, scan, req,
                 protected, ratio, sent, aborts, answered, pc, err>>
-----------------------------------------------------------------------------
(* get_next_batch_to_run.                                                  *)

\* Mutant of Leaving: the chunked request is merged with the others.
LeavingFinished == {r \in Range(last.reqs) : req[r].finished}

\* filter_batch with chunked_req_to_exclude.
Leaving == {r \in Range(last.reqs) : req[r].finished} \cup chunked \cup last.chunked

\* The chunked request keeps its pages as its prefix and gives its row back; the requests
\* of the last prefill batch join the running batch.
MergeLastBatch ==
  LET kept == IF IsExtend(last) THEN Without(last.reqs, Leaving) ELSE <<>>
      shrank == IsExtend(last) /\ Len(kept) < Len(last.reqs)
      joins == kept # <<>> /\ ~last.prefill_only
      added == Sum(chunked, LAMBDA r : req[r].fill - req[r].prefix)
  IN  /\ pc = "recv" /\ pc' = "prefill"
      /\ req' = [r \in Reqs |-> IF r \in chunked THEN [req[r] EXCEPT !.prefix = req[r].fill]
                                ELSE req[r]]
      /\ protected' = protected + added
      /\ rows' = rows + Cardinality(chunked)
      /\ running' = IF joins THEN running \o kept ELSE running
      \* An empty running batch is replaced by the last batch, whose flag is not set.
      /\ full' = (full /\ ~shrank /\ ~(joins /\ running = <<>>))
      /\ UNCHANGED <<conf, waiting, chunked, batch, last, results, adder, scan, avail, ratio,
                     sent, aborts, answered, err>>

\* Token counts of the adder are in units of 1 / RatioDen where new_token_ratio enters.
Offset(r) == Least(MaxNew[r] - req[r].out, ClipMaxNew) * ratio
rem_total_tokens(a) == avail * PageSize * RatioDen - a.total_off
cur_rem_tokens(a) == avail * PageSize - a.cur_off
Chunking == ChunkSize > 0

\* Mutant of NewAdder: the tokens of the running requests of a mixed batch are forgotten.
NewAdderUnmixed ==
  [NoAdder EXCEPT !.rem_input = MaxPrefill, !.rem_chunk = ChunkSize,
                  !.total_off = Sum(Range(running), Offset)]

NewAdder ==
  LET mixed == IF Chunking /\ MixedChunk THEN Len(running) ELSE 0
  IN  [NoAdder EXCEPT
         !.rem_input = MaxPrefill - mixed, !.rem_chunk = ChunkSize - mixed,
         !.cur_off = mixed,
         !.total_off = mixed * RatioDen + Sum(Range(running), Offset)]

budget_state(a) ==
  IF rem_total_tokens(a) <= 0 \/ cur_rem_tokens(a) <= 0 THEN "NO_TOKEN"
  ELSE IF a.rem_input <= 0 \/ (Chunking /\ a.rem_chunk <= 0) THEN "OTHER"
  ELSE "CONTINUE"

\* _update_prefill_budget, for a request put on can_run_list.
Budgeted(a, r, ext, new) ==
  LET tokens == Ceil(ext) * PageSize
  IN  [a EXCEPT !.can = Append(@, r),
                !.total_off = @ + (tokens + new) * RatioDen,
                !.cur_off = @ + tokens,
                !.rem_input = @ - tokens,
                !.rem_chunk = @ - tokens]

\* int() of a count in units of 1 / RatioDen.
Truncated(n) == IF n >= 0 THEN n \div RatioDen ELSE -((-n) \div RatioDen)

\* add_chunked_req: how many tokens of request r the next chunk takes.
ChunkLen(a, r) ==
  Least(Prompt[r] + req[r].out - req[r].prefix,
        Least(a.rem_chunk, Truncated(rem_total_tokens(a))))

\* get_new_batch_prefill up to the scan of the waiting queue.
NoPrefill ==
  /\ pc = "prefill" /\ chunked = {}
  /\ \/ waiting = <<>> /\ full' = (full /\ ~PriorityScheduling)
     \/ waiting # <<>> /\ full /\ ~PriorityScheduling /\ full' = full
     \/ /\ waiting # <<>> /\ ~full /\ ~PriorityScheduling
        /\ MaxRunning - Len(running) <= 0 /\ full' = TRUE
  /\ pc' = "decode"
  /\ UNCHANGED <<conf, waiting, running, chunked, batch, last, results, adder, scan, req,
                 avail, rows, protected, ratio, sent, aborts, answered, err>>

StartPrefill ==
  /\ pc = "prefill" /\ pc' = "scan" /\ scan' = 1
  /\ chunked = {} => /\ waiting # <<>>
                     /\ PriorityScheduling \/ (~full /\ MaxRunning - Len(running) > 0)
  /\ full' = (full /\ ~PriorityScheduling)
  /\ waiting' = Sorted(waiting)
  /\ IF chunked = {} THEN adder' = NewAdder /\ UNCHANGED <<conf, chunked, req>>
     ELSE LET r == CHOOSE x \in chunked : TRUE
              ext == ChunkLen(NewAdder, r)
              cut == req[r].prefix + ext < Prompt[r] + req[r].out
              new == IF cut THEN 0 ELSE Least(MaxNew[r], ClipMaxNew)
          IN  /\ adder' = Budgeted(NewAdder, r, ext, new)
              /\ req' = [req EXCEPT ![r].ext = ext, ![r].fill = req[r].prefix + ext]
              /\ chunked' = IF cut THEN chunked ELSE {}
  /\ UNCHANGED <<conf, running, batch, last, results, avail, rows, protected, ratio,
                 sent, aborts, answered, err>>
-----------------------------------------------------------------------------
(* The scan of the waiting queue.                                          *)

IsFull ==
  full \/ Len(adder.can) >= MaxRunning - (Len(running) - Len(adder.preempted))

\* init_next_round_input, then add_one_req, as [result, adder, ext].
Refused(why, r) == [result |-> why, adder |-> adder, ext |-> Prompt[r] + req[r].out]
Added(a, ext) == [result |-> budget_state(a), adder |-> a, ext |-> ext]

AddOne(r) ==
  LET ext == Prompt[r] + req[r].out
      total == ext + Least(Most(MaxNew[r] - req[r].out, 0), ClipMaxNew)
      input == Ceil(ext) * PageSize
      trunc == (adder.rem_chunk \div PageSize) * PageSize
  IN  IF total * RatioDen >= rem_total_tokens(adder) THEN Refused("NO_TOKEN", r)
      ELSE IF input >= adder.rem_input /\ adder.can # <<>> THEN Refused("OTHER", r)
      ELSE IF ~Chunking \/ input <= adder.rem_chunk
      THEN Added(Budgeted(adder, r, input, Least(MaxNew[r], ClipMaxNew)), ext)
      ELSE IF trunc <= 0 THEN Refused("OTHER", r)
      ELSE Added([Budgeted(adder, r, trunc, 0) EXCEPT !.new_chunked = {r}], trunc)

\* add_one_req_ignore_eos.  req_states, None or a list, is a set of at most one sequence;
\* a state is what a request has still to generate and what it gives back when it ends.
StateOf(r) ==
  [left |-> MaxNew[r] * (IF r \in IgnoreEos THEN RatioDen ELSE ratio) - req[r].out * RatioDen,
   occupied |-> (Prompt[r] + req[r].out) * RatioDen]

ByTokensLeft(s) ==
  LET before(i, j) == s[i].left < s[j].left \/ (s[i].left = s[j].left /\ i < j)
  IN  Arranged(s, {p \in Pairs(s) : before(p[1], p[2])})

\* A state greater than all the others goes before the last one.
InsertState(s, x) ==
  LET i == CHOOSE i \in 1..Most(1, Len(s)) :
             /\ i <= Len(s) => x.left <= s[i].left \/ i = Len(s)
             /\ \A j \in 1..(i - 1) : x.left > s[j].left
  IN  IF x.left <= 0 THEN s ELSE SubSeq(s, 1, i - 1) \o <<x>> \o SubSeq(s, i, Len(s))

ReqStates(r) ==
  LET states == <<StateOf(r)>> \o [i \in DOMAIN running |-> StateOf(running[i])]
                  \o [i \in DOMAIN adder.can |-> StateOf(adder.can[i])]
  IN  IF adder.states = {} THEN ByTokensLeft(SelectSeq(states, LAMBDA x : x.left > 0))
      ELSE InsertState(CHOOSE s \in adder.states : TRUE, StateOf(r))

\* Mutant of AllFit: one request grows at a time.
AllFitAlone(s, free) ==
  \A i \in DOMAIN s : free + Sum(1..(i - 1), LAMBDA j : s[j].occupied) - s[i].left
                        > ReserveTokens * RatioDen

\* The requests end in the order of their tokens left, each giving its tokens back.
AllFit(s, free) ==
  \A i \in DOMAIN s :
    LET bs == Len(s) - i + 1
    IN  free + Sum(1..(i - 1), LAMBDA j : s[j].occupied) - s[i].left * bs
          > ReserveTokens * bs * RatioDen

AddIgnoreEos(r) ==
  LET ext == Prompt[r] + req[r].out
      input == Ceil(ext) * PageSize
      free == (cur_rem_tokens(adder) - input) * RatioDen
      a == [adder EXCEPT !.states = {ReqStates(r)}]
      trunc == adder.rem_chunk
  IN  IF free < 0 \/ input * RatioDen > rem_total_tokens(adder) THEN Refused("NO_TOKEN", r)
      ELSE IF ~AllFit(ReqStates(r), free) THEN Refused("NO_TOKEN", r)
      ELSE IF ~Chunking \/ ext <= adder.rem_chunk
      THEN Added(Budgeted(a, r, ext, Least(MaxNew[r], ClipMaxNew)), ext)
      ELSE IF trunc = 0 THEN Refused("OTHER", r)
      ELSE Added([Budgeted(a, r, trunc, 0) EXCEPT !.new_chunked = {r}], trunc)

AddOneReq ==
  /\ \/ pc = "scan" /\ scan <= Len(waiting) /\ ~IsFull
     \/ pc = "add"
  /\ LET r == waiting[scan]
         added == IF r \in IgnoreEos THEN AddIgnoreEos(r) ELSE AddOne(r)
         \* fill_ids[:n] with a negative n drops tokens from the end.
         fill == added.ext + IF added.ext < 0 THEN Prompt[r] + req[r].out ELSE 0
     IN  /\ adder' = added.adder
         /\ req' = [req EXCEPT ![r].prefix = 0, ![r].ext = added.ext, ![r].fill = fill]
         /\ full' = (full \/ added.result = "NO_TOKEN")
         /\ pc' = IF added.result = "CONTINUE" THEN "scan" ELSE "commit"
  /\ scan' = scan + 1
  /\ UNCHANGED <<conf, waiting, running, chunked, batch, last, results, avail, rows, protected,
                 ratio, sent, aborts, answered, err>>

\* preempt_to_schedule: the running requests the one at hand may displace, and whether
\* their reservations cover it.  Its extend_input_len is the one of an earlier scan, if any.
Preemptible(r) == {q \in Range(running) : Priority[r] - Priority[q] > Threshold}

MayPreempt(r) ==
  /\ PriorityScheduling /\ Preemptible(r) # {}
  /\ (req[r].ext + Least(MaxNew[r], ClipMaxNew)) * RatioDen - rem_total_tokens(adder)
       - Sum(Preemptible(r), Offset) <= 0

EndScan ==
  /\ pc = "scan" /\ pc' = "commit"
  /\ \/ scan > Len(waiting) /\ full' = full
     \/ scan <= Len(waiting) /\ IsFull /\ ~MayPreempt(waiting[scan]) /\ full' = TRUE
  /\ UNCHANGED <<conf, waiting, running, chunked, batch, last, results, adder, scan, req,
                 avail, rows, protected, ratio, sent, aborts, answered, err>>

\* release_req for the requests of S: release_kv_cache, then reset_for_retract.
PagesOf(S) == Sum(S, LAMBDA r : Ceil(req[r].kv))
PrefixesOf(S) == Sum(S, LAMBDA r : req[r].prefix)
\* Mutant of Reset: the output is dropped with the KV.
ResetOutput(r) == [req[r] EXCEPT !.out = 0, !.prefix = 0, !.ext = 0, !.kv = 0,
                                 !.retracted = TRUE, !.freed = FALSE]

Reset(r) == [req[r] EXCEPT !.prefix = 0, !.ext = 0, !.kv = 0, !.chunks = 0,
                           !.retracted = TRUE, !.freed = FALSE]

\* Mutant of ReleaseReqs: the row is kept.
ReleaseReqsNoRow(S) ==
  avail' = avail + PagesOf(S) /\ rows' = rows /\ protected' = protected - PrefixesOf(S)

ReleaseReqs(S) ==
  /\ avail' = avail + PagesOf(S)
  /\ rows' = rows + Cardinality(S)
  /\ protected' = protected - PrefixesOf(S)

PreemptToSchedule ==
  /\ pc = "scan" /\ scan <= Len(waiting) /\ IsFull /\ MayPreempt(waiting[scan])
  /\ LET r == waiting[scan]
         S == Preemptible(r)
     IN  IF \E q \in S : req[q].freed THEN Die("released twice")
         ELSE /\ ReleaseReqs(S)
              /\ req' = [q \in Reqs |-> IF q \in S THEN Reset(q) ELSE req[q]]
              /\ running' = Without(running, S)
              /\ full' = TRUE
              /\ \E s \in Bijection(1..Cardinality(S), S) :
                   adder' = [adder EXCEPT !.preempted = @ \o s,
                               \* the offset of the new request, once per preempted one
                               !.total_off = @ - Cardinality(S) * Offset(r)]
              /\ pc' = "add"
              /\ UNCHANGED <<conf, waiting, chunked, batch, last, results, scan, ratio, sent,
                             aborts, answered, err>>
-----------------------------------------------------------------------------
(* The new prefill batch, or the decode batch.                             *)

\* The running requests that have not finished.
Live == Picked(running, {i \in DOMAIN running : ~req[running[i]].finished})

\* Launch b: run_batch, and in the overlap loop its result waits in the queue.
Launch(b) ==
  /\ batch' = b /\ pc' = "process"
  /\ results' = IF Overlap /\ b # NoBatch THEN Append(results, b) ELSE results

\* Mutant of DecodePages: the new token takes no page.
DecodePagesNone(s) == 0

\* alloc_decode: a request at a page boundary takes a page.
DecodePages(s) == Cardinality({r \in Range(s) : req[r].kv % PageSize = 0})

\* can_run_list is empty: the iteration goes on to decode.
NothingToPrefill ==
  /\ pc = "commit" /\ adder.can = <<>> /\ pc' = "decode"
  /\ UNCHANGED <<conf, waiting, running, full, chunked, batch, last, results, adder, scan, req,
                 avail, rows, protected, ratio, sent, aborts, answered, err>>

\* prepare_for_extend of a request, of which chunk says whether a part is left.
Extended(r, chunk) ==
  [req[r] EXCEPT !.kv = req[r].fill, !.retracted = FALSE,
                 !.chunks = @ + IF r \in chunk THEN 1 ELSE 0]
ExtendPages(S) == Sum(S, LAMBDA r : Most(0, Ceil(req[r].fill) - Ceil(req[r].prefix)))

\* mix_with_running: a running request is extended by one token.
Mixed(r) == [req[r] EXCEPT !.kv = @ + 1, !.ext = 1, !.fill = Prompt[r] + req[r].out]

\* The batch is made, preempted requests are queued again, and prepare_for_extend
\* allocates; a mixed batch takes the running requests along, which decode one token.
PrefillBatch ==
  LET can == Range(adder.can)
      w == EnqueueAll(Without(waiting, can), adder.preempted)
      chunk == IF adder.new_chunked # {} THEN adder.new_chunked ELSE chunked
      pages == ExtendPages(can)
      live == IF Chunking /\ MixedChunk THEN Live ELSE <<>>
      decodes == DecodePages(live)
      b == [mode |-> IF live = <<>> THEN "extend" ELSE "mixed",
            reqs |-> adder.can \o live, chunked |-> chunk, decoding |-> Range(live),
            prefill_only |-> live = <<>> /\ \A r \in can : MaxNew[r] = 0]
  IN  /\ pc = "commit" /\ adder.can # <<>>
      /\ IF adder.new_chunked # {} /\ chunked # {} THEN Die("two chunked requests")
         ELSE IF \E r \in can : req[r].fill - req[r].prefix # req[r].ext
         THEN Die("extend length")
         ELSE IF Len(adder.can) > rows THEN Die("no row")
         ELSE IF pages > avail THEN Die("prefill out of memory")
         ELSE IF pages + decodes > avail THEN Die("decode out of memory")
         ELSE /\ waiting' = w.q /\ answered' = Answer(w.out)
              /\ chunked' = chunk
              /\ avail' = avail - pages - decodes
              /\ rows' = rows - Len(adder.can)
              /\ req' = [r \in Reqs |-> IF r \in can THEN Extended(r, chunk)
                                        ELSE IF r \in Range(live) THEN Mixed(r) ELSE req[r]]
              /\ running' = IF Chunking /\ MixedChunk THEN <<>> ELSE running
              /\ Launch(b)
              /\ UNCHANGED <<conf, full, last, adder, scan, protected, ratio, sent, aborts, err>>

\* Mutant of NewPageCount: one page is enough for the whole batch.
NewPageCountOne(s) == 1

\* new_page_count_next_decode.
NewPageCount(s) ==
  LET grows(r) == \/ PageSize = 1
                  \/ Overlap /\ (Prompt[r] + req[r].out) % PageSize = 0
                  \/ ~Overlap /\ (Prompt[r] + req[r].out - 1) % PageSize = 0
  IN  Cardinality({r \in Range(s) : grows(r)})

\* retract_decode keeps the requests with the most output, then the shortest prompts.
RetractOrder(s) ==
  LET before(i, j) ==
        LET a == s[i]  b == s[j]
        IN  \/ req[a].out > req[b].out
            \/ req[a].out = req[b].out /\ Prompt[a] < Prompt[b]
            \/ req[a].out = req[b].out /\ Prompt[a] = Prompt[b] /\ i < j
  IN  Arranged(s, {p \in Pairs(s) : before(p[1], p[2])})

\* prepare_for_decode of the requests s, after the requests out were retracted.
Decode(s, out) ==
  LET free == avail + PagesOf(Range(out))
      w == EnqueueAll(waiting, out)
  IN  IF DecodePages(s) > free THEN Die("decode out of memory")
      ELSE /\ running' = s /\ full' = (full /\ Len(s) = Len(running))
           /\ avail' = free - DecodePages(s)
           /\ rows' = rows + Len(out)
           /\ protected' = protected - PrefixesOf(Range(out))
           /\ req' = [r \in Reqs |-> IF r \in Range(s) THEN [req[r] EXCEPT !.kv = @ + 1]
                                     ELSE IF r \in Range(out) THEN Reset(r) ELSE req[r]]
           /\ waiting' = w.q /\ answered' = Answer(w.out)
           /\ ratio' \in Ratios
           /\ Launch([NoBatch EXCEPT !.mode = "decode", !.reqs = s])
           /\ UNCHANGED <<conf, chunked, last, adder, scan, sent, aborts, err>>

NothingToRun ==
  /\ pc = "decode" /\ Live = <<>>
  /\ running' = <<>> /\ full' = (full /\ running = <<>>)
  /\ Launch(NoBatch)
  /\ UNCHANGED <<conf, waiting, chunked, last, adder, scan, req, avail, rows, protected, ratio,
                 sent, aborts, answered, err>>

\* update_running_batch.
DecodeBatch ==
  /\ pc = "decode" /\ Live # <<>> /\ NewPageCount(Live) <= avail
  /\ Decode(Live, <<>>)

RetractDecode ==
  /\ pc = "decode" /\ Live # <<>> /\ NewPageCount(Live) > avail
  /\ \E s \in {RetractOrder(Live)} :
       LET n == Len(s)
           freed(m) == PagesOf(Range(SubSeq(s, m + 1, n)))
           fits(m) == NewPageCount(SubSeq(s, 1, m)) <= avail + freed(m)
       IN  \E m \in {Max({1} \cup {k \in 1..(n - 1) : fits(k)})} :
             IF m = 1 /\ ~fits(1) /\ avail + freed(1) = 0 THEN Die("no space for one request")
             ELSE Decode(SubSeq(s, 1, m), Reversed(SubSeq(s, m + 1, n)))
-----------------------------------------------------------------------------
(* process_batch_result, and the idle check.                               *)

\* The normal loop processes the batch it just ran, the overlap loop the one before.
Due == IF ~Overlap THEN batch ELSE IF last # NoBatch THEN Head(results) ELSE NoBatch

\* Mutant of Skipped: a retracted request still takes the token.
SkippedFinished(b, r) == (b.mode # "decode" \/ Overlap) /\ req[r].finished

\* A result that came too late: the request finished or was retracted in the meantime.
Skipped(b, r) ==
  (b.mode # "decode" \/ Overlap) /\ (req[r].finished \/ req[r].retracted)

\* A prefill result that is only a chunk of the prompt.
Midway(b, r) == b.mode # "decode" /\ req[r].chunks > 0

ProcessBatchResult ==
  LET b == Due
      seen == {r \in Range(b.reqs) : ~Skipped(b, r)}
      midway == {r \in seen : Midway(b, r)}
      token == seen \ midway
  IN  /\ pc = "process" /\ b # NoBatch
      /\ \E eos \in SUBSET (token \ IgnoreEos) :
           LET done == {r \in token : \/ req[r].to_finish \/ r \in eos
                                      \/ req[r].out + 1 >= MaxNew[r]}
               cached == IF b.mode = "decode" THEN {} ELSE (token \ done) \ b.decoding
           IN  IF \E r \in done : req[r].freed THEN Die("released twice")
               ELSE /\ req' = [r \in Reqs |->
                         [req[r] EXCEPT !.out = @ + IF r \in token THEN 1 ELSE 0,
                                        !.finished = @ \/ r \in done,
                                        !.freed = @ \/ r \in done,
                                        !.to_finish = @ /\ r \notin done,
                                        !.prefix = IF r \in cached THEN req[r].fill ELSE @,
                                        !.chunks = @ - IF r \in midway THEN 1 ELSE 0]]
                    /\ avail' = avail + PagesOf(done)
                    /\ rows' = rows + Cardinality(done)
                    /\ protected' = protected - PrefixesOf(done)
                                      + Sum(cached, LAMBDA r : req[r].fill - req[r].prefix)
                    /\ answered' = Answer(done)
                    /\ results' = IF Overlap THEN Tail(results) ELSE results
                    /\ last' = batch /\ batch' = NoBatch /\ adder' = NoAdder /\ scan' = 0
                    /\ pc' = "recv"
                    /\ UNCHANGED <<conf, waiting, running, full, chunked, ratio, sent, aborts, err>>

\* The first iteration of the overlap loop with a batch has no result to process.
NoResultYet ==
  /\ pc = "process" /\ Due = NoBatch /\ batch # NoBatch
  /\ last' = batch /\ batch' = NoBatch /\ adder' = NoAdder /\ scan' = 0 /\ pc' = "recv"
  /\ UNCHANGED <<conf, waiting, running, full, chunked, results, req, avail, rows, protected,
                 ratio, sent, aborts, answered, err>>

\* check_memory.
MemoryLeak == avail * PageSize # MaxTokens - protected \/ rows # MaxRunning

\* self_check_during_idle: a leak of pages or rows is an error.
Idle ==
  /\ pc = "process" /\ Due = NoBatch /\ batch = NoBatch
  /\ IF MemoryLeak THEN Die("leak")
     ELSE /\ last' = NoBatch /\ ratio' \in Ratios
          /\ adder' = NoAdder /\ scan' = 0 /\ pc' = "recv"
          /\ UNCHANGED <<conf, waiting, running, full, chunked, batch, results, req,
                         avail, rows, protected, sent, aborts, answered, err>>
-----------------------------------------------------------------------------
Input == \/ \E r \in Reqs : HandleGenerate(r)
         \/ \E S \in AbortSets : AbortRequest(S)
         \/ FlushCache

EventLoop ==
  \/ MergeLastBatch \/ NoPrefill \/ StartPrefill
  \/ AddOneReq \/ PreemptToSchedule \/ EndScan
  \/ NothingToPrefill \/ PrefillBatch
  \/ NothingToRun \/ DecodeBatch \/ RetractDecode
  \/ ProcessBatchResult \/ NoResultYet \/ Idle

Next == Input \/ EventLoop

Spec == Init /\ [][Next]_vars
FairSpec == Spec /\ WF_vars(EventLoop)
-----------------------------------------------------------------------------
Requests == [out : Nat, fill : Int, prefix : Nat, ext : Int, kv : Nat, chunks : Nat,
             retracted : BOOLEAN, to_finish : BOOLEAN, finished : BOOLEAN, freed : BOOLEAN]

\* Types; at most one request is chunked and at most two results wait in the overlap loop.
TypeOK ==
  /\ req \in [Reqs -> Requests]
  /\ Range(waiting) \cup Range(running) \subseteq Reqs /\ full \in BOOLEAN
  /\ Cardinality(chunked) <= 1 /\ Len(results) <= 2
  /\ avail \in 0..NumPages /\ rows \in 0..MaxRunning

\* No sequence of requests, aborts, retractions and flushes makes an allocation fail, an
\* assertion fire or the idle leak check raise: the event loop never ends with an exception.
NeverDies == pc # "dead"

\* A loop that has nothing to run serves its queue: batch_is_full is not left set.
IdleServesQueue ==
  pc = "recv" /\ full /\ waiting # <<>> =>
    running # <<>> \/ last # NoBatch \/ results # <<>>

Places(r) ==
  Cardinality({i \in DOMAIN waiting : waiting[i] = r})
  + Cardinality({i \in DOMAIN running : running[i] = r})
  + IF IsExtend(last) THEN Cardinality({i \in DOMAIN last.reqs : last.reqs[i] = r}) ELSE 0

\* At the top of an iteration a request that was received and not yet answered is in
\* exactly one of waiting_queue, running_batch and the prefill batch about to be merged,
\* and no answered request is still queued.
OnePlace ==
  pc = "recv" =>
    \A r \in Reqs : /\ r \in sent /\ answered[r] = 0 => Places(r) = 1
                    /\ answered[r] > 0 => r \notin Range(waiting)

\* Whatever an abort, the queue limit, a retraction and the end of generation do to a
\* request, and in whatever order, the client gets one terminal answer at most.
AnsweredOnce == \A r \in Reqs : answered[r] <= 1

Holders == {r \in Reqs : req[r].kv > 0 /\ ~req[r].freed}

\* Every KV page and every req_to_token row is free or belongs to a request that has
\* cached tokens and was not released, in every intermediate state of the loop.
PagesConserved ==
  /\ avail + PagesOf(Holders) = NumPages
  /\ pc = "recv" => rows + Cardinality(Holders) = MaxRunning

\* The comment at the head of get_new_batch_prefill: while a chunked request is in
\* progress there is a slot for it, so skipping the running-requests check is safe.
ChunkedHasSlot == pc = "prefill" /\ chunked # {} => MaxRunning - Len(running) > 0

\* A prefill batch makes progress on each of its requests, and stays within the chunk
\* budget, decode tokens of a mixed batch included.
ChunkBudget ==
  pc = "process" /\ IsExtend(batch) =>
    /\ \A r \in Range(batch.reqs) : req[r].ext > 0
    /\ Chunking => Sum(Range(batch.reqs), LAMBDA r : req[r].ext) <= ChunkSize

\* add_one_req_ignore_eos simulates the requests to their ends before it admits one: when
\* all of them ignore EOS, no decode step is short of pages and none is retracted.
IgnoreEosFits ==
  Reqs \subseteq IgnoreEos /\ pc = "decode" => NewPageCount(Live) <= avail

\* A prefill batch takes the queue from its head: no request is admitted past one that
\* stays in waiting_queue, and with priorities none past a more important one.
AdmitInOrder ==
  [][pc = "commit" /\ pc' = "process" =>
       \A j \in DOMAIN waiting : waiting[j] \in Range(batch'.reqs) =>
         /\ \A i \in 1..j : waiting[i] \in Range(batch'.reqs)
         /\ PriorityScheduling => \A i \in j..Len(waiting) :
                                    Priority[waiting[i]] <= Priority[waiting[j]]]_vars

\* Tokens given to a client stay valid: retraction and preemption recompute the KV of the
\* output so far and lose none of it, and a finished request gets no token more.
OutputKept ==
  [][\A r \in Reqs : /\ req'[r].out >= req[r].out
                     /\ req[r].finished => req'[r].out = req[r].out]_vars

\* The loop implements RequestLife: a queued request is one in waiting_queue, an active one
\* has left it and is not answered.
Status(r) == IF r \notin sent THEN "new" ELSE IF answered[r] > 0 THEN "done"
             ELSE IF r \in Range(waiting) THEN "queued" ELSE "active"
Life == INSTANCE RequestLife WITH status <- [r \in Reqs |-> Status(r)],
                                  tokens <- [r \in Reqs |-> req[r].out],
                                  max_new <- MaxNew, max_running <- MaxRunning
ImplementsLife == Life!LifeSpec

\* Every request received is answered in the end.
Served == \A r \in Reqs : r \in sent ~> answered[r] > 0
=============================================================================
