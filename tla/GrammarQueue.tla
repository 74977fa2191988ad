---------------------------- MODULE GrammarQueue ----------------------------
(***************************************************************************)
(* Requests with a grammar, on the ranks of one tensor-parallel group.     *)
(* Grammars are compiled by a thread pool; every rank has its own queue,   *)
(* futures and cache and its scheduler polls the head of the queue, then   *)
(* the ranks agree on how many requests leave it.  Input is broadcast, so  *)
(* all ranks handle the same message in the same iteration.  A request     *)
(* that leaves goes to _add_request_to_queue (module Scheduler).           *)
(***************************************************************************)
EXTENDS Integers, FiniteSets, Sequences, SequencesExt

CONSTANTS
  Reqs, Keys,
  Key,          \* grammar_key of each request
  Outcome,      \* of each key: "valid", "invalid", or "none" if the backend has no such grammar
  MaxPolls,     \* GRAMMAR_TIMEOUT / 0.03
  Configs       \* the groups the server may be started with

ASSUME GrammarConstants ==
  /\ Key \in [Reqs -> Keys] /\ Outcome \in [Keys -> {"valid", "invalid", "none"}]
  /\ MaxPolls \in Nat
  /\ \A c \in Configs : c.ranks # {} /\ c.timeouts \in BOOLEAN /\ c.aborts \subseteq Reqs

VARIABLE conf

Ranks == conf.ranks
Timeouts == conf.timeouts   \* whether a compilation may outlast GRAMMAR_TIMEOUT
MayAbort == conf.aborts     \* bound: the requests an AbortReq may match

VARIABLES       \* all but sent: for each rank
  queue,        \* grammar_queue
  grammar,      \* req.grammar: "none", "future", or "valid" for a compiled one
  finish,       \* the requests with to_finish set
  polls,        \* req.grammar_wait_ct, counted where there are timeouts
  done,         \* requests whose future has a result
  cache,        \* the backend's cache: "none", "valid" or "invalid" for each key
  ready, late,  \* num_ready_reqs, num_timeout_reqs
  moved,        \* the requests given to _add_request_to_queue, in order
  sent, pc, err

vars == <<conf, queue, grammar, finish, polls, done, cache, ready, late, moved, sent, pc, err>>

Init ==
  /\ conf \in Configs
  /\ queue = [k \in Ranks |-> <<>>] /\ moved = [k \in Ranks |-> <<>>]
  /\ grammar = [k \in Ranks |-> [r \in Reqs |-> "none"]]
  /\ finish = [k \in Ranks |-> {}] /\ done = [k \in Ranks |-> {}]
  /\ polls = [k \in Ranks |-> [r \in Reqs |-> 0]]
  /\ cache = [k \in Ranks |-> [g \in Keys |-> "none"]]
  /\ ready = [k \in Ranks |-> 0] /\ late = [k \in Ranks |-> 0]
  /\ sent = {}
  /\ pc = [k \in Ranks |-> "recv"] /\ err = [k \in Ranks |-> "none"]

AtTop == \A k \in Ranks : pc[k] = "recv"
-----------------------------------------------------------------------------
(* Input.                                                                  *)

Cached(k, r) == cache[k][Key[r]]
Hit(k, r) == Cached(k, r) # "none"

\* handle_generate_request with get_cached_or_future_value.
HandleGenerate(r) ==
  /\ AtTop /\ r \notin sent
  /\ sent' = sent \cup {r}
  /\ grammar' = [k \in Ranks |-> [grammar[k] EXCEPT ![r] =
                   CASE Cached(k, r) = "none" -> "future"
                     [] Cached(k, r) = "valid" -> "valid"
                     [] Cached(k, r) = "invalid" -> "none"]]
  /\ finish' = [k \in Ranks |-> finish[k] \cup IF Cached(k, r) = "invalid" THEN {r} ELSE {}]
  /\ queue' = [k \in Ranks |-> IF Hit(k, r) THEN queue[k] ELSE Append(queue[k], r)]
  /\ moved' = [k \in Ranks |-> IF Hit(k, r) THEN Append(moved[k], r) ELSE moved[k]]
  /\ UNCHANGED <<conf, polls, done, cache, ready, late, pc, err>>

\* abort_request for a request in the grammar queue: cancel(), set_finish_with_abort.
AbortRequest(r) ==
  LET here(k) == r \in ToSet(queue[k]) /\ r \notin finish[k]
  IN  /\ AtTop /\ r \in MayAbort /\ \E k \in Ranks : here(k)
      /\ grammar' = [k \in Ranks |-> IF here(k) THEN [grammar[k] EXCEPT ![r] = "none"]
                                     ELSE grammar[k]]
      /\ finish' = [k \in Ranks |-> finish[k] \cup IF here(k) THEN {r} ELSE {}]
      /\ UNCHANGED <<conf, queue, polls, done, cache, ready, late, moved, sent, pc, err>>

\* flush_cache resets the backend; _is_no_request does not look at the grammar queue.
FlushCache ==
  /\ AtTop
  /\ cache' = [k \in Ranks |-> [g \in Keys |-> "none"]]
  /\ UNCHANGED <<conf, queue, grammar, finish, polls, done, ready, late, moved, sent, pc, err>>

\* A thread of rank k's executor ends _init_value_dispatch for request r.
Compile(k, r) ==
  /\ r \in ToSet(queue[k]) \ done[k]
  /\ done' = [done EXCEPT ![k] = @ \cup {r}]
  /\ UNCHANGED <<conf, queue, grammar, finish, polls, cache, ready, late, moved, sent, pc, err>>
-----------------------------------------------------------------------------
(* move_ready_grammar_requests.                                            *)

Die(k, why) ==
  /\ pc' = [pc EXCEPT ![k] = "dead"] /\ err' = [err EXCEPT ![k] = why]
  /\ UNCHANGED <<conf, queue, grammar, finish, polls, done, cache, ready, late, moved, sent>>

\* Req.finished() reads finished_reason, which only check_finished sets: never in this queue.
Finished(k, r) == FALSE

\* The longest prefix of the queue that has its results.
ReadyLen(k) ==
  LET ok(r) == \/ Finished(k, r)
               \/ grammar[k][r] = "future" /\ r \in done[k] /\ Outcome[Key[r]] # "none"
  IN  Max({n \in 0..Len(queue[k]) : \A i \in 1..n : ok(queue[k][i])})

Segment(k, m, n) == {queue[k][i] : i \in (m + 1)..n}

\* Mutant of Resolved: an invalid grammar is not told from a valid one.
ResolvedUnchecked(k, S) ==
  /\ grammar' = [grammar EXCEPT ![k] = [r \in Reqs |-> IF r \in S THEN "valid" ELSE @[r]]]
  /\ UNCHANGED <<finish, cache>>

\* The results of the requests of S: kept in the cache, and an invalid one aborts its request.
Resolved(k, S) ==
  /\ grammar' = [grammar EXCEPT ![k] = [r \in Reqs |->
       IF r \notin S \/ Finished(k, r) THEN @[r]
       ELSE IF Outcome[Key[r]] = "valid" THEN "valid" ELSE "none"]]
  /\ finish' = [finish EXCEPT ![k] = @ \cup {r \in S : Outcome[Key[r]] = "invalid"}]
  /\ cache' = [cache EXCEPT ![k] = [g \in Keys |->
       IF \E r \in S : Key[r] = g /\ ~Finished(k, r) THEN Outcome[g] ELSE @[g]]]

\* Mutant of TimedOut: no request ever times out.
TimedOutNever(k, r) == FALSE

TimedOut(k, r) == Timeouts /\ polls[k][r] + 1 > MaxPolls

PollCap == MaxPolls + 2   \* bound on the counter, beyond any timeout

Poll(k) ==
  LET q == queue[k]
      n == ReadyLen(k)
      next == q[n + 1]
      waits == n < Len(q)
  IN  /\ pc[k] = "recv" /\ q # <<>>
      /\ IF waits /\ grammar[k][next] = "none" THEN Die(k, "no grammar")
         ELSE IF waits /\ next \in done[k] THEN Die(k, "unsupported grammar")
         ELSE /\ Resolved(k, Segment(k, 0, n))
              /\ ready' = [ready EXCEPT ![k] = n]
              /\ late' = [late EXCEPT ![k] = IF waits /\ TimedOut(k, next) THEN 1 ELSE 0]
              /\ polls' = [polls EXCEPT ![k] = [r \in Reqs |->
                   IF waits /\ r = next /\ Timeouts /\ @[r] < PollCap THEN @[r] + 1 ELSE @[r]]]
              /\ pc' = [pc EXCEPT ![k] = "sync"]
              /\ UNCHANGED <<conf, queue, done, moved, sent, err>>

\* Mutant of Agreed: every rank goes by its own count.
AgreedAlone(k, count) == count[k]

\* all_reduce with MAX, once all ranks have come to it.
Agreed(k, count) == Max({count[j] : j \in Ranks})

AllReduce ==
  /\ \A k \in Ranks : pc[k] = "sync"
  /\ pc' = [k \in Ranks |-> "fill"]
  /\ UNCHANGED <<conf, queue, grammar, finish, polls, done, cache, ready, late, moved, sent, err>>

\* Mutant of Left: one more request is dropped from the queue than is moved.
LeftOneShort(k, n) == SubSeq(queue[k], n + 2, Len(queue[k]))

Left(k, n) == SubSeq(queue[k], n + 1, Len(queue[k]))

\* The rank waits for the results that another one already has, cancels the request that
\* timed out, and moves what is agreed on.  The request that timed out is looked for
\* behind the rank's own count.
MoveReady(k) ==
  LET n == ready[k]
      m == Agreed(k, ready)
      t == Agreed(k, late)
      more == Segment(k, n, m)
  IN  /\ pc[k] = "fill" /\ more \subseteq done[k]
      /\ IF t > 0 /\ n + 1 > Len(queue[k]) THEN Die(k, "no such request")
         ELSE IF t > 0 /\ n < m THEN Die(k, "not a future")
         ELSE /\ IF t = 0 THEN Resolved(k, more)
                 ELSE LET r == queue[k][n + 1]
                      IN  /\ grammar' = [grammar EXCEPT ![k][r] = "none"]
                          /\ finish' = [finish EXCEPT ![k] = @ \cup {r}]
                          /\ cache' = [cache EXCEPT ![k][Key[r]] = "invalid"]
              /\ moved' = [moved EXCEPT ![k] = @ \o SubSeq(queue[k], 1, m + t)]
              /\ queue' = [queue EXCEPT ![k] = Left(k, m + t)]
              /\ pc' = [pc EXCEPT ![k] = "moved"]
              /\ UNCHANGED <<conf, polls, done, ready, late, sent, err>>

\* The rest of the iteration, at whose end the ranks meet again in the broadcast.
NextIteration ==
  /\ \A k \in Ranks : pc[k] = "moved"
  /\ pc' = [k \in Ranks |-> "recv"]
  /\ ready' = [k \in Ranks |-> 0] /\ late' = [k \in Ranks |-> 0]
  /\ UNCHANGED <<conf, queue, grammar, finish, polls, done, cache, moved, sent, err>>
-----------------------------------------------------------------------------
Input == \/ \E r \in Reqs : HandleGenerate(r) \/ AbortRequest(r)
         \/ FlushCache

Rank(k) == Poll(k) \/ MoveReady(k)
Group == AllReduce \/ NextIteration

Next == \/ Input
        \/ \E k \in Ranks : Rank(k) \/ \E r \in Reqs : Compile(k, r)
        \/ Group

Spec == Init /\ [][Next]_vars

\* The schedulers keep running.  Of the compilers it is assumed that they end only where
\* there is no timeout for those that do not.
FairSpec ==
  /\ Spec /\ WF_vars(Group)
  /\ \A c \in Configs : \A k \in c.ranks :
       /\ WF_vars(k \in Ranks /\ Rank(k))
       /\ \A r \in Reqs : WF_vars(k \in Ranks /\ ~Timeouts /\ Compile(k, r))
-----------------------------------------------------------------------------
\* A queue holds requests received, results are of requests received, no request is polled
\* more often than GRAMMAR_TIMEOUT allows, and a count of ready ones fits its queue.
TypeOK ==
  \A k \in Ranks :
    /\ ToSet(queue[k]) \cup ToSet(moved[k]) \subseteq sent /\ done[k] \subseteq sent
    /\ grammar[k] \in [Reqs -> {"none", "future", "valid"}]
    /\ cache[k] \in [Keys -> {"none", "valid", "invalid"}]
    /\ polls[k] \in [Reqs -> 0..(MaxPolls + 1)]
    /\ ready[k] \in 0..Len(queue[k]) \/ pc[k] \in {"moved", "dead"}

\* The ranks run the same batches, so they must queue the same requests: between two
\* iterations all of them have moved the same requests in the same order, rejected the
\* same ones and cached the same results, although their compilers end at different times.
RanksAgree ==
  AtTop => \A j, k \in Ranks : /\ queue[j] = queue[k] /\ moved[j] = moved[k]
                              /\ finish[j] = finish[k] /\ cache[j] = cache[k]

\* A request enters the waiting queue with a compiled, valid grammar or with its abort set:
\* never with a future, and an invalid grammar is never used to sample.
GrammarResolved ==
  \A k \in Ranks : \A r \in ToSet(moved[k]) \ finish[k] :
    grammar[k][r] = "valid" /\ Outcome[Key[r]] = "valid"

\* No request is lost between the two queues or put in both.
OneQueue ==
  \A k \in Ranks : \A r \in sent :
    Cardinality({i \in DOMAIN queue[k] : queue[k][i] = r})
      + Cardinality({i \in DOMAIN moved[k] : moved[k][i] = r}) = 1

Aborted == \E k \in Ranks : ToSet(queue[k]) \cap finish[k] # {}

\* Every request leaves the grammar queue: the head is compiled, or times out and is
\* rejected even if its compilation never ends.  (An abort in the queue ends the process.)
Moves ==
  \A r \in Reqs : r \in sent ~> Aborted \/ \A k \in Ranks : r \in ToSet(moved[k])

\* move_ready_grammar_requests counts an aborted request as ready ("It is aborted by
\* AbortReq") and never asks for its result.
AbortedIsReady == \A k \in Ranks : err[k] # "no grammar"
=============================================================================
