---------------------------- MODULE MCScheduler -----------------------------
(* Small instances of Scheduler: three requests, five configurations of    *)
(* the loops, one with priorities and one of prefill-only requests.        *)
EXTENDS Scheduler, TLC

CONSTANTS r1, r2, r3

Profile(a, b, c) == r1 :> a @@ r2 :> b @@ r3 :> c
Same(n) == Profile(n, n, n)

\* Two requests outgrow the pool of nine tokens together, a third one is chunked.
Growing ==
  [prompt |-> Profile(1, 1, 5), max_new |-> Profile(5, 5, 2), priority |-> Same(0),
   ignore_eos |-> {}, aborts |-> {},
   page_size |-> 1, pages |-> 9, max_running |-> 3, max_queued |-> 0,
   chunk |-> 2, max_prefill |-> 4,
   overlap |-> FALSE, mixed |-> FALSE, preempt |-> FALSE]

\* The normal loop with pages of two tokens.
Normal == [Growing EXCEPT !.page_size = 2, !.pages = 5, !.chunk = 4, !.max_prefill = 8,
                          !.aborts = {{r1}, {r3}}]

\* Short requests, two slots and one place to wait: the queue limit and aborts do the work.
Queue == [Growing EXCEPT !.prompt = Profile(2, 3, 1), !.max_new = Profile(2, 1, 3),
                         !.max_running = 2, !.max_queued = 1, !.aborts = {{r1}, Reqs}]

Overlapped == [Growing EXCEPT !.overlap = TRUE, !.aborts = {Reqs}]
OverlappedMixed == [Overlapped EXCEPT !.mixed = TRUE]
OverlappedIgnoreEos == [Overlapped EXCEPT !.ignore_eos = Reqs, !.aborts = {}]

Loops == {Normal, Queue, Overlapped, OverlappedMixed, OverlappedIgnoreEos}

\* Each request may preempt the ones before it.
Preempting == {[Growing EXCEPT !.priority = Profile(0, 1, 2), !.max_running = 2,
                               !.preempt = TRUE]}

\* Scoring requests generate no token; one of them may run at a time.
PrefillOnly == {[Overlapped EXCEPT !.max_new = Same(0), !.max_running = 1, !.aborts = {}]}
=============================================================================
