---------------------------- MODULE RequestLife -----------------------------
(***************************************************************************)
(* What the scheduler promises about its requests, whatever the batching:  *)
(* a request waits, runs, may be sent back to wait with the tokens it has, *)
(* and ends once; running requests never exceed the limit.  Scheduler is   *)
(* shown to implement this module.                                         *)
(***************************************************************************)
EXTENDS Integers, FiniteSets

CONSTANT Reqs

VARIABLES
  status,                \* of each request: "new", "queued", "active" or "done"
  tokens,                \* how many output tokens it has
  max_new, max_running   \* the limits the server was started with

lifevars == <<status, tokens, max_new, max_running>>

LifeInit ==
  /\ status = [r \in Reqs |-> "new"]
  /\ tokens = [r \in Reqs |-> 0]
  /\ max_new \in [Reqs -> Nat] /\ max_running \in Nat

Becomes(r, from, to) == status[r] = from /\ status'[r] = to

\* The steps of one request.  A request that runs ends with a token, never by rejection.
Stay(r) == status'[r] = status[r] /\ tokens'[r] = tokens[r]
Submit(r) == Becomes(r, "new", "queued") /\ tokens'[r] = tokens[r]
Start(r) == Becomes(r, "queued", "active") /\ tokens'[r] = tokens[r]
Retract(r) == Becomes(r, "active", "queued") /\ tokens'[r] = tokens[r]
Reject(r) ==
  status[r] \in {"new", "queued"} /\ status'[r] = "done" /\ tokens'[r] = tokens[r]
Emit(r) ==
  Becomes(r, "active", "active") /\ tokens'[r] = tokens[r] + 1 /\ tokens'[r] < max_new[r]
Finish(r) == Becomes(r, "active", "done") /\ tokens'[r] = tokens[r] + 1

\* A batch moves several requests in one step.
LifeNext ==
  /\ \A r \in Reqs : \/ Stay(r) \/ Submit(r) \/ Start(r) \/ Retract(r)
                     \/ Reject(r) \/ Emit(r) \/ Finish(r)
  /\ Cardinality({r \in Reqs : status'[r] = "active"}) <= max_running
  /\ UNCHANGED <<max_new, max_running>>

LifeSpec == LifeInit /\ [][LifeNext]_lifevars
=============================================================================
