-------------------------- MODULE SchedulerProofs ---------------------------
(***************************************************************************)
(* Where the scheduler keeps its requests, for every set of requests and   *)
(* every configuration: the other steps of the event loop, and the         *)
(* theorems.  No request is queued twice, or queued while a batch has it,  *)
(* so none is answered twice; none is lost.                                *)
(***************************************************************************)
EXTENDS SchedulerSteps

USE SMTT(30)
-----------------------------------------------------------------------------
(* The scan of the waiting queue, batches and results.                     *)

\* The outcome x of add_one_req for r: r is put on can_run_list, or the scan is over.
Adds(x, r) ==
  /\ IsAdder(x.adder) /\ x.adder.preempted = adder.preempted
  /\ \/ x.adder.can = Append(adder.can, r) /\ x.adder.new_chunked \in {adder.new_chunked, {r}}
     \/ /\ x.adder.can = adder.can /\ x.result # "CONTINUE"
        /\ x.adder.new_chunked = adder.new_chunked

\* add_one_req, with and without ignore_eos.
LEMMA AddOneIs ==
  ASSUME IsAdder(adder), NEW r
  PROVE  Adds(AddOne(r), r) /\ Adds(AddIgnoreEos(r), r)
<1>1. Adds(Refused("NO_TOKEN", r), r) /\ Adds(Refused("OTHER", r), r)
  BY DEF Adds, Refused
<1>2. ASSUME NEW a, NEW ext, IsAdder(a), a.preempted = adder.preempted,
             a.can = Append(adder.can, r), a.new_chunked = adder.new_chunked
      PROVE  /\ Adds(Added(a, ext), r) /\ Adds(Added([a EXCEPT !.new_chunked = {r}], ext), r)
  BY <1>2 DEF Adds, Added, IsAdder
<1>3. ASSUME NEW a, NEW e, NEW new, IsAdder(a), a.can = adder.can, a.preempted = adder.preempted,
             a.new_chunked = adder.new_chunked
      PROVE  \A ext : /\ Adds(Added(Budgeted(a, r, e, new), ext), r)
                      /\ Adds(Added([Budgeted(a, r, e, new) EXCEPT !.new_chunked = {r}], ext), r)
  <2> DEFINE b == Budgeted(a, r, e, new)
  <2>1. /\ IsAdder(b) /\ b.can = Append(adder.can, r) /\ b.preempted = adder.preempted
        /\ b.new_chunked = adder.new_chunked
    BY <1>3, AdderIs
  <2> HIDE DEF b
  <2>2. \A ext : Adds(Added(b, ext), r) /\ Adds(Added([b EXCEPT !.new_chunked = {r}], ext), r)
    BY <1>2, <2>1, Zenon
  <2> QED
    BY <2>2 DEF b
<1>4. Adds(AddOne(r), r)
  BY <1>1, <1>3, Zenon DEF AddOne
<1>5. Adds(AddIgnoreEos(r), r)
  <2> DEFINE a == [adder EXCEPT !.states = {ReqStates(r)}]
  <2>1. /\ IsAdder(a) /\ a.can = adder.can /\ a.preempted = adder.preempted
        /\ a.new_chunked = adder.new_chunked
    BY DEF IsAdder
  <2>2. \A e, new, ext :
          /\ Adds(Added(Budgeted(a, r, e, new), ext), r)
          /\ Adds(Added([Budgeted(a, r, e, new) EXCEPT !.new_chunked = {r}], ext), r)
    <3> HIDE DEF a
    <3> QED
      BY <1>3, <2>1, Zenon
  <2> QED
    BY <1>1, <2>2, Zenon DEF AddIgnoreEos
<1> QED
  BY <1>4, <1>5

\* The next request of the queue is admitted, or the scan is over.
LEMMA AddOneReqStep ==
  ASSUME AInv, AddOneReq
  PROVE  AInv' /\ Kept /\ Stays
<1> DEFINE r == waiting[scan]
           W == Range(waiting)
           R == Range(running)
           C == Range(adder.can)
           P == Range(adder.preempted)
<1>1. /\ pc \in {"scan", "add"} /\ Typed /\ LInv /\ scan' = scan + 1 /\ pc' \in {"scan", "commit"}
      /\ pc = "scan" => scan <= Len(waiting)
      /\ UNCHANGED <<conf, waiting, running, chunked, batch, last, results, sent, answered>>
  BY Zenon DEF AddOneReq, AInv
<1>2. /\ Held = NoBatch /\ Put = P /\ Admitted = C /\ Ahead
      /\ Held' = NoBatch /\ Admitted' = Range(adder'.can) /\ Put' = Range(adder'.preempted)
      /\ Late' = Late /\ Ahead'
  BY <1>1 DEF Held, Put, Admitted, Ahead, Late, Overlap
<1>3. /\ Placed(W, P, R, chunked, C, {}, Late, sent, req, answered) /\ Scanned
      /\ Once(waiting, Reqs) /\ Once(running, Reqs) /\ Fresh /\ Pending
  BY <1>1, <1>2, Nothing, Zenon DEF LInv
<1>4. scan \in 1..Len(waiting) /\ r \in Reqs /\ r \in W
  BY <1>1, <1>3, SeqIs DEF Scanned, Once
<1>5. PICK x : /\ Adds(x, r) /\ adder' = x.adder
               /\ pc' = IF x.result = "CONTINUE" THEN "scan" ELSE "commit"
               /\ \E fill : req' = [req EXCEPT ![r].prefix = 0, ![r].ext = x.ext, ![r].fill = fill]
  <2>1. Adds(AddOne(r), r) /\ Adds(AddIgnoreEos(r), r)
    BY <1>3, AddOneIs DEF Scanned
  <2> QED
    BY <2>1, Zenon DEF AddOneReq
<1> HIDE DEF r, W, R, C, P
<1>6. Reworked(req')
  <2>1. req = [q \in Reqs |-> req[q]] /\ \A q \in Reqs : IsReq(req[q])
    BY <1>1 DEF Typed
  <2>2. PICK ext, fill : req' = [req EXCEPT ![r].prefix = 0, ![r].ext = ext, ![r].fill = fill]
    BY <1>5, Zenon
  <2>3a. req' = [q \in Reqs |-> req'[q]]
    <3> DEFINE f == [req EXCEPT ![r].prefix = 0]
               g == [f EXCEPT ![r].ext = ext]
               h == [g EXCEPT ![r].fill = fill]
    <3>1. f = [q \in Reqs |-> f[q]]
      BY <2>1
    <3> HIDE DEF f
    <3>2. g = [q \in Reqs |-> g[q]]
      BY <3>1
    <3> HIDE DEF g
    <3>3. h = [q \in Reqs |-> h[q]]
      BY <3>2
    <3>4. req' = h
      BY <2>2 DEF f, g
    <3> QED
      BY <3>3, <3>4, Zenon
  <2>3. \A q \in Reqs : q # r => req'[q] = req[q]
    BY <1>4, <2>1, <2>2
  <2>6. req'[r] = [req[r] EXCEPT !.prefix = 0, !.ext = ext, !.fill = fill]
    BY <1>4, <2>1, <2>2
  <2>4. /\ IsReq(req'[r]) /\ req'[r].finished = req[r].finished /\ req'[r].freed = req[r].freed
        /\ req'[r].retracted = req[r].retracted /\ req'[r].out = req[r].out
    BY <1>4, <2>1, <2>6 DEF IsReq
  <2>5. \A q \in Reqs : IsReq(req'[q])
    BY <2>1, <2>3, <2>4
  <2> QED
    BY <2>3a, <2>3, <2>4, <2>5, Zenon DEF Reworked
<1>7. Typed'
  BY <1>1, <1>6 DEF Typed, Reworked
<1>8. /\ IsAdder(adder') /\ adder'.preempted = adder.preempted
      /\ \/ adder'.can = Append(adder.can, r) /\ adder'.new_chunked \in {adder.new_chunked, {r}}
         \/ adder'.can = adder.can /\ adder'.new_chunked = adder.new_chunked /\ pc' = "commit"
  BY <1>5 DEF Adds
<1>9. PICK k \in 0..Len(waiting) :
        k = scan - 1 /\ \A i \in DOMAIN waiting : waiting[i] \in C <=> i <= k
  BY <1>1, <1>3 DEF Scanned, C
<1>10. r \notin C /\ \A i \in DOMAIN waiting : waiting[i] = r <=> i = scan
  BY <1>3, <1>4, <1>9, SeqIs DEF r, Once, IsInjective
<1>11. /\ Once(adder'.can, Reqs)
       /\ \/ /\ Range(adder'.can) = C \cup {r}
             /\ adder'.new_chunked = adder.new_chunked \/ adder'.new_chunked = {r}
          \/ Range(adder'.can) = C /\ adder'.new_chunked = adder.new_chunked /\ pc' = "commit"
  <2>1. Once(adder.can, Reqs)
    BY <1>3 DEF Scanned
  <2>2. r \in Reqs /\ r \notin Range(adder.can)
    BY <1>4, <1>10 DEF C
  <2>3. Once(Append(adder.can, r), Reqs) /\ Range(Append(adder.can, r)) = Range(adder.can) \cup {r}
    BY <2>1, <2>2, AppendOnce, Zenon
  <2> QED
    BY <1>8, <2>1, <2>3, Zenon DEF C
<1>12. Scanned'
  <2>1. Len(waiting) \in Nat /\ DOMAIN waiting = 1..Len(waiting)
    BY <1>3, SeqIs DEF Once
  <2>2. \E l \in 0..Len(waiting) :
          /\ l < scan + 1 /\ (pc' # "commit" => l = scan)
          /\ \A i \in DOMAIN waiting : waiting[i] \in Range(adder'.can) <=> i <= l
    <3>1. CASE Range(adder'.can) = C \cup {r}
      <4>1. \A i \in DOMAIN waiting : waiting[i] \in Range(adder'.can) <=> i <= scan
        BY <1>4, <1>9, <1>10, <2>1, <3>1
      <4> QED
        BY <1>4, <2>1, <4>1
    <3>2. CASE Range(adder'.can) = C /\ pc' = "commit"
      BY <1>4, <1>9, <2>1, <3>2
    <3> QED
      BY <1>11, <3>1, <3>2
  <2>3. \A q \in adder'.new_chunked : q \in Range(adder'.can)
    <3>1. \A q \in adder.new_chunked : q \in C
      BY <1>3 DEF Scanned, C
    <3> QED
      BY <1>11, <3>1
  <2> QED
    BY <1>1, <1>3, <1>4, <1>8, <1>11, <2>1, <2>2, <2>3 DEF Scanned, PriorityScheduling, Priority
<1>13. Placed(W, P, R, chunked, Range(adder'.can), {}, Late, sent, req', answered)
  <2> DEFINE D == Range(adder'.can)
  <2>1. D \subseteq C \cup {r} /\ sent \subseteq Reqs
    BY <1>1, <1>11 DEF Typed
  <2> HIDE DEF D
  <2>2. Placed(W, P, R, chunked, D, {}, Late, sent, req', answered)
    BY <1>3, <1>4, <1>6, <2>1 DEF Placed, Reworked
  <2> QED
    BY <2>2 DEF D
<1>14. Fresh' /\ Pending'
  BY <1>1, <1>2, <1>3 DEF Fresh, Pending, Overlap, IsExtend, NoBatch
<1>15. LInv'
  <2>1. Put' = P
    BY <1>2, <1>8 DEF P
  <2> QED
    BY <2>1, <1>1, <1>2, <1>3, <1>12, <1>13, <1>14, Nothing, Zenon DEF LInv, R, W
<1>c. Stays
  <2>1. ASSUME Steady, Whole PROVE Whole'
    <3> DEFINE D == Range(adder'.can)
               n == adder.new_chunked
    <3>1. /\ Covered(W, R, chunked, C, {}, sent, answered) /\ P = {}
          /\ OneChunk(pc, chunked, C, n, NoBatch)
          /\ \A y \in Reqs : req[y].finished => answered[y] = 1
      BY <1>1, <1>2, <2>1, NothingJoins, Zenon DEF Whole, W, R
    <3>2. C \subseteq D /\ (adder'.new_chunked = n \/ adder'.new_chunked = {r})
      BY <1>11
    <3> HIDE DEF D, n
    <3>3. \A m : m = n \/ m = {r} => OneChunk(pc', chunked, D, m, NoBatch)
      BY <1>1, <3>1, <3>2 DEF OneChunk
    <3>4. Covered(W, R, chunked, D, {}, sent, answered)
      BY <3>1, <3>2 DEF Covered
    <3>5. \A y \in Reqs : req'[y].finished => answered[y] = 1
      BY <1>6, <3>1 DEF Reworked
    <3> QED
      BY <1>1, <1>2, <1>8, <3>1, <3>2, <3>3, <3>4, <3>5, NothingJoins, Zenon DEF Whole, W, R, D, P
  <2> QED
    BY <1>1, <2>1, StaysIs
<1>k. Kept
  BY <1>1, <1>6, KeptIs DEF Reworked
<1> QED
  BY <1>7, <1>15, <1>k, <1>c DEF AInv

\* An exception ends the loop and changes nothing else.
LEMMA DieStep ==
  ASSUME AInv, NEW e, Die(e)
  PROVE  AInv' /\ Kept /\ Stays
<1>1. Typed /\ pc' = "dead" /\ UNCHANGED <<conf, req, sent, answered>>
  BY DEF Die, AInv
<1>2. Typed'
  BY <1>1 DEF Typed
<1>c. Stays
  BY <1>1 DEF Stays, CInv
<1>k. Kept
  BY <1>1, SameKept
<1> QED
  BY <1>1, <1>2, <1>k, <1>c DEF AInv

\* A set of requests of a list, in some order.
LEMMA OrderOf ==
  ASSUME NEW t, Once(t, Reqs), NEW S \in SUBSET Range(t), NEW s \in Bijection(1..Cardinality(S), S)
  PROVE  Once(s, Reqs) /\ Range(s) = S
<1>1. t \in [1..Len(t) -> Reqs] /\ Len(t) \in Nat /\ Range(t) \subseteq Reqs
  BY DEF Once, Range
<1>2. IsFiniteSet(Range(t))
  <2>1. IsFiniteSet(1..Len(t))
    BY <1>1, FS_Interval
  <2>2. t \in Surjection(1..Len(t), Range(t))
    BY <1>1 DEF Surjection, Range
  <2> QED
    BY <2>1, <2>2, FS_Surjection
<1>3. Cardinality(S) \in Nat
  BY <1>2, FS_Subset, FS_CardinalityType
<1> DEFINE c == Cardinality(S)
<1>4. /\ s \in [1..c -> S] /\ \A x \in S : \E i \in 1..c : s[i] = x
      /\ \A i, j \in 1..c : s[i] = s[j] => i = j
  BY DEF Bijection, Injection, Surjection, IsInjective
<1> HIDE DEF c
<1> QED
  BY <1>1, <1>3, <1>4 DEF Once, IsInjective, Range, c

\* Running requests make room for a request of a higher priority.
LEMMA PreemptToScheduleStep ==
  ASSUME AInv, PreemptToSchedule
  PROVE  AInv' /\ Kept /\ Stays
<1> DEFINE S == Preemptible(waiting[scan])
           W == Range(waiting)
           R == Range(running)
           C == Range(adder.can)
           P == Range(adder.preempted)
<1>a. CASE \E e : Die(e)
  BY <1>a, DieStep
<1>b. CASE ~\E e : Die(e)
  <2>1. /\ pc = "scan" /\ scan <= Len(waiting) /\ pc' = "add" /\ Typed /\ LInv
        /\ \A q \in S : ~req[q].freed
        /\ running' = Without(running, S)
        /\ req' = [q \in Reqs |-> IF q \in S THEN Reset(q) ELSE req[q]]
        /\ UNCHANGED <<conf, waiting, chunked, batch, last, results, scan, sent, answered>>
    BY <1>b, Zenon DEF PreemptToSchedule, AInv
  <2>2. PICK s, off :
          /\ s \in Bijection(1..Cardinality(S), S)
          /\ adder' = [adder EXCEPT !.preempted = adder.preempted \o s, !.total_off = off]
    BY <1>b, Zenon DEF PreemptToSchedule
  <2>3. /\ Held = NoBatch /\ Put = P /\ Admitted = C /\ Ahead
        /\ Held' = NoBatch /\ Admitted' = Range(adder'.can) /\ Put' = Range(adder'.preempted)
        /\ Late' = Late /\ Ahead'
    BY <2>1 DEF Held, Put, Admitted, Ahead, Late, Overlap
  <2>4. /\ Placed(W, P, R, chunked, C, {}, Late, sent, req, answered) /\ Scanned
        /\ Once(waiting, Reqs) /\ Once(running, Reqs) /\ Fresh /\ Pending
    BY <2>1, <2>3, Nothing, Zenon DEF LInv
  <2>5. Once(Without(running, S), Reqs) /\ Range(Without(running, S)) = R \ S
    BY <2>4, WithoutIs
  <2>6. S \in SUBSET Range(running)
    BY DEF Preemptible
  <2> HIDE DEF S
  <2>7. Once(s, Reqs) /\ Range(s) = S
    BY <2>2, <2>4, <2>6, OrderOf, Zenon
  <2>8. /\ IsAdder(adder') /\ adder'.can = adder.can /\ adder'.new_chunked = adder.new_chunked
        /\ adder'.preempted = adder.preempted \o s
    BY <2>2, <2>4 DEF Scanned, IsAdder
  <2>9. \A q \in S : q \in R /\ q \notin P /\ q \notin W /\ ~req[q].finished /\ answered[q] = 0
    <3>1. S \subseteq R /\ sent \subseteq Reqs
      BY <2>1, <2>6 DEF Typed
    <3> HIDE DEF W, R, C, P
    <3> QED
      BY <2>1, <2>4, <3>1 DEF Placed
  <2>10. Once(adder'.preempted, Reqs) /\ Range(adder'.preempted) = P \cup S
    <3>1. Once(adder.preempted, Reqs) /\ \A x \in Range(adder.preempted) : x \notin Range(s)
      BY <2>4, <2>7, <2>9 DEF Scanned
    <3> DEFINE p == adder.preempted
    <3>2. Once(p, Reqs) /\ Once(s, Reqs) /\ \A x \in Range(p) : x \notin Range(s)
      BY <2>7, <3>1
    <3>3. adder'.preempted = p \o s /\ P = Range(p)
      BY <2>8
    <3> HIDE DEF p, P
    <3>4. Joined(p \o s, p, s, Reqs)
      BY <3>2, JoinOnce, Zenon
    <3> QED
      BY <2>7, <3>3, <3>4, Zenon DEF Joined
  <2> HIDE DEF W, R, C, P
  <2>11. /\ req' = [q \in Reqs |-> req'[q]] /\ \A q \in Reqs : IsReq(req'[q])
         /\ \A q \in Reqs : /\ req'[q].finished = req[q].finished /\ req'[q].out = req[q].out
                            /\ q \in S => req'[q].retracted
                            /\ q \notin S => req'[q] = req[q]
    <3>1. req' = [q \in Reqs |-> req'[q]]
      BY <2>1
    <3>2. ASSUME NEW q \in Reqs
          PROVE  /\ IsReq(req'[q]) /\ req'[q].finished = req[q].finished /\ req'[q].out = req[q].out
                 /\ q \in S => req'[q].retracted
                 /\ q \notin S => req'[q] = req[q]
      <4>1. IsReq(req[q])
        BY <2>1 DEF Typed
      <4>2. CASE q \in S
        <5>1. req'[q] = Reset(q)
          BY <2>1, <4>2
        <5> QED
          BY <4>1, <4>2, <5>1 DEF IsReq, Reset
      <4>3. CASE q \notin S
        BY <2>1, <4>1, <4>3
      <4> QED
        BY <4>2, <4>3
    <3> QED
      BY <3>1, <3>2
  <2>12. Typed'
    BY <2>1, <2>11 DEF Typed
  <2>13. Placed(W, P \cup S, R \ S, chunked, C, {}, Late, sent, req', answered)
    <3>1. sent \subseteq Reqs
      BY <2>1, Zenon DEF Typed
    <3> QED
      BY <2>4, <2>9, <2>11, <3>1 DEF Placed
  <2>14. Scanned'
    BY <2>1, <2>4, <2>8, <2>10, Zenon DEF Scanned, PriorityScheduling, Priority
  <2>15. Fresh' /\ Pending'
    BY <2>1, <2>3, <2>4 DEF Fresh, Pending, Overlap, IsExtend, NoBatch
  <2>16. LInv'
    BY <2>1, <2>3, <2>4, <2>5, <2>8, <2>10, <2>13, <2>14, <2>15, Nothing, Zenon DEF LInv, W, R, C
  <2>c. Stays
    <3>1. ~Steady
      BY Zenon DEF PreemptToSchedule, MayPreempt, Steady
    <3> QED
      BY <2>1, <3>1, StaysIs
  <2>k. Kept
    BY <2>1, <2>11, KeptIs, Zenon
  <2> QED
    BY <2>12, <2>16, <2>k, <2>c DEF AInv
<1> QED
  BY <1>a, <1>b

\* The scan ends.
LEMMA EndScanStep ==
  ASSUME AInv, EndScan
  PROVE  AInv' /\ Kept /\ Stays
<1>1. /\ pc = "scan" /\ pc' = "commit" /\ Typed /\ LInv
      /\ UNCHANGED <<conf, waiting, running, chunked, batch, last, results, adder, scan, req,
                     sent, answered>>
  BY Zenon DEF EndScan, AInv
<1>2. Held = NoBatch /\ Held' = NoBatch /\ Put' = Put /\ Admitted' = Admitted /\ Late' = Late
  BY <1>1 DEF Held, Put, Admitted, Ahead, Late, Overlap
<1>3. Typed'
  BY <1>1 DEF Typed
<1>4. Scanned'
  BY <1>1 DEF LInv, Ahead, Scanned, PriorityScheduling, Priority
<1>5. Fresh' /\ Pending'
  BY <1>1, <1>2 DEF LInv, Fresh, Pending, Overlap, IsExtend, NoBatch
<1>6. LInv'
  BY <1>1, <1>2, <1>4, <1>5, Zenon DEF LInv
<1>c. Stays
  <2>1. ASSUME Steady, Whole PROVE Whole'
    <3>1. OneChunk("scan", chunked, Admitted, adder.new_chunked, NoBatch)
      BY <1>1, <1>2, <2>1, Zenon DEF Whole
    <3>2. OneChunk("commit", chunked, Admitted, adder.new_chunked, NoBatch)
      BY <3>1 DEF OneChunk
    <3> QED
      BY <1>1, <1>2, <2>1, <3>2, Zenon DEF Whole
  <2> QED
    BY <1>1, <2>1, StaysIs
<1>k. Kept
  BY <1>1, SameKept
<1> QED
  BY <1>3, <1>6, <1>k, <1>c DEF AInv

\* can_run_list is empty.
LEMMA NothingToPrefillStep ==
  ASSUME AInv, NothingToPrefill
  PROVE  AInv' /\ Kept /\ Stays
<1>1. /\ pc = "commit" /\ pc' = "decode" /\ Typed /\ LInv
      /\ UNCHANGED <<conf, waiting, running, chunked, batch, last, results, adder, scan, req,
                     sent, answered>>
  BY Zenon DEF NothingToPrefill, AInv
<1>2. /\ Held = NoBatch /\ Held' = NoBatch /\ Put' = {} /\ Admitted' = {} /\ Late' = Late
      /\ ~Ahead'
  BY <1>1 DEF Held, Put, Admitted, Ahead, Late, Overlap
<1>3. Typed'
  BY <1>1 DEF Typed
<1>4. Placed(Range(waiting), {}, Range(running), chunked, {}, {}, Late, sent, req, answered)
  <2> DEFINE W == Range(waiting)
             R == Range(running)
  <2>1. Placed(W, Put, R, chunked, Admitted, {}, Late, sent, req, answered)
    BY <1>1, <1>2, Nothing, Zenon DEF LInv
  <2> HIDE DEF W, R
  <2>2. Placed(W, {}, R, chunked, {}, {}, Late, sent, req, answered)
    BY <2>1 DEF Placed
  <2> QED
    BY <2>2 DEF W, R
<1>5. Fresh' /\ Pending'
  BY <1>1, <1>2 DEF LInv, Fresh, Pending, Overlap, IsExtend, NoBatch
<1>6. LInv'
  BY <1>1, <1>2, <1>4, <1>5, Nothing, Zenon DEF LInv
<1>c. Stays
  <2>1. ASSUME Steady, Whole PROVE Whole'
    <3>1. Admitted = {}
      BY <1>1, Nothing, Zenon DEF NothingToPrefill, Admitted
    <3>2. /\ OneChunk("commit", chunked, {}, adder.new_chunked, NoBatch)
          /\ Covered(Range(waiting), Range(running), chunked, {}, {}, sent, answered)
      BY <1>1, <1>2, <2>1, <3>1, NothingJoins, Zenon DEF Whole
    <3>3. OneChunk("decode", chunked, {}, adder.new_chunked, NoBatch)
      BY <3>2 DEF OneChunk
    <3> QED
      BY <1>1, <1>2, <2>1, <3>2, <3>3, NothingJoins, Zenon DEF Whole
  <2> QED
    BY <1>1, <2>1, StaysIs
<1>k. Kept
  BY <1>1, SameKept
<1> QED
  BY <1>3, <1>6, <1>k, <1>c DEF AInv

\* result_queue with a batch a or without, and a batch b behind it.
Behind(a, b) ==
  /\ Only(a) \o Only(NoBatch) = Only(a) /\ Only(NoBatch) \o Only(b) = Only(b)
  /\ b # NoBatch => Append(Only(a), b) = Only(a) \o Only(b)
  /\ a # NoBatch => Head(Only(a) \o Only(b)) = a /\ Tail(Only(a) \o Only(b)) = Only(b)

\* Both orders of two batches, and of one batch.
LEMMA BehindIs ==
  ASSUME NEW a, NEW b
  PROVE  Behind(a, b)
<1>0. /\ Only(NoBatch) = <<>> /\ (Only(a) = <<>> \/ Only(a) = <<a>>)
      /\ Only(b) = <<>> \/ Only(b) = <<b>>
      /\ a # NoBatch => Only(a) = <<a>>
      /\ b # NoBatch => Only(b) = <<b>>
  BY Zenon DEF Only
<1> HIDE DEF Only
<1>1. /\ <<>> \o <<>> = <<>> /\ <<a>> \o <<>> = <<a>> /\ <<>> \o <<b>> = <<b>>
      /\ Append(<<>>, b) = <<b>> /\ Append(<<a>>, b) = <<a>> \o <<b>>
      /\ Head(<<a>>) = a /\ Tail(<<a>>) = <<>>
  OBVIOUS
<1>2. Head(<<a>> \o <<b>>) = a /\ Tail(<<a>> \o <<b>>) = <<b>>
  <2> DEFINE u == <<a>> \o <<b>>
  <2>1. u \in Seq({a, b}) /\ Len(u) = 2 /\ u[1] = a /\ u[2] = b
    OBVIOUS
  <2> HIDE DEF u
  <2>2. u = <<a, b>>
    BY <2>1
  <2>3. Head(<<a, b>>) = a /\ Tail(<<a, b>>) = <<b>>
    OBVIOUS
  <2>4. Head(u) = a /\ Tail(u) = <<b>>
    BY <2>2, <2>3, Zenon
  <2> QED
    BY <2>4, Zenon DEF u
<1> QED
  BY <1>0, <1>1, <1>2, Zenon DEF Behind

\* A launched batch goes behind the one whose result is overdue.
LEMMA LaunchPending ==
  ASSUME Pending, pc # "process", Launch(batch'), UNCHANGED <<conf, last>>
  PROVE  Pending'
<1>1. pc' = "process" /\ Overlap' = Overlap
  BY DEF Launch, Overlap
<1>2. ASSUME Overlap PROVE results' = Only(last) \o Only(batch')
  <2>1. results = Only(last)
    BY <1>2 DEF Pending
  <2>2. /\ batch' # NoBatch => results' = Append(results, batch')
        /\ batch' = NoBatch => results' = results
    BY <1>2 DEF Launch
  <2> DEFINE b == batch'
  <2>3. Behind(last, b)
    BY BehindIs, Zenon
  <2> QED
    BY <2>1, <2>2, <2>3, Zenon DEF Behind
<1> QED
  BY <1>1, <1>2 DEF Pending, Only

\* The prefill batch has the admitted requests, and running ones.
Batched ==
  pc' = "process" => /\ Range(adder.can) \subseteq Range(batch'.reqs)
                     /\ Range(batch'.reqs) \subseteq Range(adder.can) \cup Range(running)

\* The prefill batch is launched, and the preempted requests go back to the queue.
LEMMA PrefillBatchStep ==
  ASSUME AInv, PrefillBatch
  PROVE  AInv' /\ Kept /\ Stays /\ Batched
<1> DEFINE C == Range(adder.can)
           P == Range(adder.preempted)
           W == Range(waiting)
           R == Range(running)
           w == EnqueueAll(Without(waiting, C), adder.preempted)
           K == IF adder.new_chunked # {} THEN adder.new_chunked ELSE chunked
           mix == Chunking /\ MixedChunk
           live == IF mix THEN Live ELSE <<>>
           M == Range(live)
           b == [mode |-> IF live = <<>> THEN "extend" ELSE "mixed",
                 reqs |-> adder.can \o live, chunked |-> K, decoding |-> Range(live),
                 prefill_only |-> live = <<>> /\ \A r \in C : MaxNew[r] = 0]
<1>a. CASE \E e : Die(e)
  BY <1>a, DieStep DEF Die, Batched
<1>b. CASE ~\E e : Die(e)
  <2>1. /\ pc = "commit" /\ Typed /\ LInv /\ Launch(b)
        /\ waiting' = w.q /\ answered' = Answer(w.out) /\ chunked' = K
        /\ running' = IF mix THEN <<>> ELSE running
        /\ req' = [r \in Reqs |-> IF r \in C THEN Extended(r, K)
                                  ELSE IF r \in M THEN Mixed(r) ELSE req[r]]
        /\ UNCHANGED <<conf, last, sent>>
    BY <1>b, Zenon DEF PrefillBatch, AInv
  <2>2. /\ batch'.reqs = adder.can \o live /\ Launch(batch')
        /\ batch'.mode # "decode" /\ pc' = "process"
    <3>1. batch' = b /\ Launch(batch') /\ pc' = "process"
      BY <2>1, Zenon DEF Launch
    <3> HIDE DEF live, C
    <3>2. b.reqs = adder.can \o live /\ b.mode # "decode"
      OBVIOUS
    <3> HIDE DEF b
    <3> QED
      BY <3>1, <3>2
  <2>20. /\ batch'.chunked = K /\ IsExtend(batch') /\ adder.can # <<>>
         /\ batch'.prefill_only => \A r \in C : MaxNew[r] = 0
    <3>1. batch' = b /\ adder.can # <<>>
      BY <2>1, Zenon DEF Launch, PrefillBatch
    <3> HIDE DEF live, C, K
    <3>2. b.chunked = K
      OBVIOUS
    <3>3. IsExtend(b)
      BY DEF IsExtend
    <3>4. b.prefill_only => \A r \in C : MaxNew[r] = 0
      BY Zenon
    <3> HIDE DEF b
    <3> QED
      BY <3>1, <3>2, <3>3, <3>4
  <2>3. /\ Held = NoBatch /\ Put = P /\ Admitted = C /\ Ahead
        /\ Held' = batch' /\ Admitted' = {} /\ Put' = {} /\ Late' = Late /\ ~Ahead'
    BY <2>1, <2>2 DEF Held, Put, Admitted, Ahead, Late, Overlap
  <2>4. /\ Placed(W, P, R, chunked, C, {}, Late, sent, req, answered) /\ Scanned
        /\ Once(waiting, Reqs) /\ Once(running, Reqs) /\ Fresh /\ Pending
    BY <2>1, <2>3, Nothing, Zenon DEF LInv
  <2>5. /\ Once(live, Reqs) /\ M \subseteq R /\ (M = {} \/ running' = <<>>)
        /\ Once(running', Reqs) /\ Range(running') \subseteq R
        /\ \A r \in R : req[r].finished \/ r \in M \/ r \in Range(running')
    <3>1. CASE mix
      <4>1. live = Live /\ running' = <<>>
        BY <2>1, <3>1, Zenon
      <4>2. Once(Live, Reqs) /\ Range(Live) = {r \in R : ~req[r].finished}
        BY <2>4, LiveIs
      <4> QED
        BY <4>1, <4>2, Nothing, Zenon
    <3>2. CASE ~mix
      <4>1. live = <<>> /\ running' = running
        BY <2>1, <3>2, Zenon
      <4> QED
        BY <2>4, <4>1, Nothing, Zenon
    <3> QED
      BY <3>1, <3>2
  <2>6. Once(Without(waiting, C), Reqs) /\ Range(Without(waiting, C)) = W \ C
    BY <2>4, WithoutIs, Zenon
  <2>21. C # {}
    BY <2>4, <2>20, SeqIs DEF Scanned, Once
  <2> HIDE DEF C, P, W, R, b
  <2>7. /\ sent \subseteq Reqs /\ conf \in Configs
        /\ \A x \in P : x \notin W /\ x \in Reqs /\ answered[x] = 0
        /\ \A x \in W : x \in Reqs /\ answered[x] = 0
    BY <2>1, <2>4 DEF Placed, Typed
  <2>8. Queue(w, (W \ C) \cup P)
    <3> DEFINE q == Without(waiting, C)
               p == adder.preempted
    <3>1. Once(q, Reqs) /\ Range(q) = W \ C /\ Once(p, Reqs) /\ Range(p) = P
      BY <2>4, <2>6 DEF Scanned, P
    <3> HIDE DEF q, p
    <3>2. \A x \in Range(q) : x \notin Range(p)
      BY <2>7, <3>1
    <3>3. Queue(EnqueueAll(q, p), Range(q) \cup Range(p))
      BY <2>7, <3>1, <3>2, EnqueueAllIs, Zenon
    <3> QED
      BY <3>1, <3>3, Zenon DEF q, p
  <2> HIDE DEF w, K, M
  <2>9. /\ Once(w.q, Reqs) /\ Range(w.q) \cup w.out = (W \ C) \cup P /\ Range(w.q) \cap w.out = {}
        /\ w.out \in SUBSET Reqs /\ \A x \in w.out : answered[x] = 0
    BY <2>7, <2>8 DEF Queue
  <2>10. /\ Answer(w.out) \in [Reqs -> 0..1]
         /\ \A x \in Reqs : x \notin w.out => Answer(w.out)[x] = answered[x]
         /\ \A x \in w.out : Answer(w.out)[x] = 1
    BY <2>1, <2>9, AnswerIs DEF Typed
  <2>11. /\ req' = [r \in Reqs |-> req'[r]] /\ \A r \in Reqs : IsReq(req'[r])
         /\ \A r \in Reqs : /\ req'[r].finished = req[r].finished /\ req'[r].freed = req[r].freed
                            /\ req'[r].out = req[r].out
                            /\ r \notin C => req'[r].retracted = req[r].retracted
    <3>1. req' = [r \in Reqs |-> req'[r]]
      BY <2>1
    <3>2. ASSUME NEW r \in Reqs
          PROVE  /\ IsReq(req'[r])
                 /\ req'[r].finished = req[r].finished /\ req'[r].freed = req[r].freed
                 /\ req'[r].out = req[r].out
                 /\ r \notin C => req'[r].retracted = req[r].retracted
      <4>1. IsReq(req[r])
        BY <2>1 DEF Typed
      <4>2. CASE r \in C
        <5>1. req'[r] = Extended(r, K)
          BY <2>1, <4>2
        <5>2. PICK k, n : req'[r] = [req[r] EXCEPT !.kv = k, !.retracted = FALSE, !.chunks = n]
          BY <5>1, Zenon DEF Extended
        <5>3. IsReq(req'[r])
          BY <4>1, <5>2 DEF IsReq
        <5>4. /\ req'[r].finished = req[r].finished /\ req'[r].freed = req[r].freed
              /\ req'[r].out = req[r].out
          BY <4>1, <5>2 DEF IsReq
        <5> QED
          BY <4>2, <5>3, <5>4
      <4>3. CASE r \notin C /\ r \in M
        <5>1. req'[r] = Mixed(r)
          BY <2>1, <4>3
        <5> QED
          BY <4>1, <5>1 DEF IsReq, Mixed
      <4>4. CASE r \notin C /\ r \notin M
        BY <2>1, <4>1, <4>4, Zenon
      <4> QED
        BY <4>2, <4>3, <4>4
    <3> QED
      BY <3>1, <3>2
  <2>12. Typed'
    <3>1. \A x \in Reqs \ sent : x \notin w.out
      BY <2>4, <2>9 DEF Placed
    <3> QED
      BY <2>1, <2>7, <2>10, <2>11, <3>1, Zenon DEF Typed
  <2>13. Once(batch'.reqs, Reqs) /\ Range(batch'.reqs) = C \cup M
    <3> DEFINE c == adder.can
    <3>1. Once(c, Reqs) /\ Range(c) = C /\ Range(live) = M /\ Once(live, Reqs)
      BY <2>4, <2>5 DEF Scanned, C, M
    <3>2. batch'.reqs = c \o live
      BY <2>2
    <3> HIDE DEF c, live
    <3>3. \A x \in Range(c) : x \notin Range(live)
      BY <2>4, <2>5, <3>1 DEF Placed
    <3>4. Joined(c \o live, c, live, Reqs)
      BY <3>1, <3>3, JoinOnce, Zenon
    <3> QED
      BY <3>1, <3>2, <3>4, Zenon DEF Joined
  <2>14. K \subseteq C \/ K = chunked
    BY <2>4 DEF Scanned, K, C
  <2>15. Placed(Range(w.q), {}, Range(running'), K, {}, C \cup M, Late, sent, req', Answer(w.out))
    <3> DEFINE Q == Range(w.q)
               O == w.out
               a == Answer(w.out)
               R2 == Range(running')
    <3>1. /\ Q \cup O = (W \ C) \cup P /\ Q \cap O = {} /\ R2 \subseteq R /\ M \subseteq R
          /\ \A x \in Reqs : x \notin O => a[x] = answered[x]
      BY <2>5, <2>9, <2>10, Zenon
    <3> HIDE DEF Q, O, a, R2
    <3>2. Placed(Q, {}, R2, K, {}, C \cup M, Late, sent, req', a)
      BY <2>4, <2>7, <2>11, <2>14, <3>1 DEF Placed
    <3> QED
      BY <3>2 DEF Q, a, R2
  <2>16. Fresh'
    <3>1. \A r \in C \cup M : r \notin Range(running')
      BY <2>4, <2>5, Nothing, Zenon DEF Placed
    <3> QED
      BY <2>2, <2>3, <2>13, <3>1, Zenon DEF Fresh
  <2>17. Pending'
    BY <2>1, <2>2, <2>4, LaunchPending
  <2>18. LInv'
    BY <2>1, <2>3, <2>5, <2>9, <2>13, <2>15, <2>16, <2>17, Zenon DEF LInv
  <2>19. Batched
    BY <2>5, <2>13 DEF Batched, C, R
  <2>c. Stays
    <3>1. ASSUME Steady, Whole PROVE Whole'
      <4> DEFINE Q == Range(w.q)
                 O == w.out
                 a == Answer(w.out)
                 R2 == Range(running')
                 n == adder.new_chunked
      <4>1. /\ Covered(W, R, chunked, C, {}, sent, answered)
            /\ OneChunk("commit", chunked, C, n, NoBatch)
            /\ \A x \in Reqs : req[x].finished => answered[x] = 1
        BY <2>1, <2>3, <3>1, NothingJoins, Zenon DEF Whole, W, R
      <4>2. Joining(batch') = C \cup M
        BY <2>13, <2>20, Zenon DEF Joining
      <4>3. /\ Q \cup O = (W \ C) \cup P /\ O \subseteq Reqs
            /\ \A x \in Reqs : x \notin O => a[x] = answered[x]
            /\ \A x \in O : a[x] = 1
        BY <2>9, <2>10
      <4>4. ~batch'.prefill_only
        <5>1. C \subseteq Reqs
          BY <2>4, <2>7 DEF Placed
        <5> QED
          BY <2>20, <2>21, <3>1, <5>1 DEF Steady
      <4>5. K \subseteq C /\ \A r, q \in K : r = q
        BY <2>14, <4>1 DEF OneChunk, K
      <4>6. \A m : OneChunk("process", K, {}, m, batch')
        BY <2>20, <4>2, <4>4, <4>5 DEF OneChunk
      <4> HIDE DEF Q, O, a, R2, n
      <4>7. \A r \in R : req[r].finished \/ r \in M \/ r \in R2
        BY <2>5 DEF R2
      <4>8. chunked \subseteq C
        BY <4>1 DEF OneChunk
      <4>9. Covered(Q, R2, K, {}, C \cup M, sent, a)
        BY <2>7, <4>1, <4>3, <4>7, <4>8 DEF Covered
      <4>10. \A x \in Reqs : req'[x].finished => a[x] = 1
        BY <2>11, <4>1, <4>3
      <4> QED
        BY <2>1, <2>2, <2>3, <4>2, <4>6, <4>9, <4>10, Zenon DEF Whole, Q, a, R2
    <3> QED
      BY <2>1, <3>1, StaysIs
  <2>k. Kept
    BY <2>1, <2>11, KeptIs, Zenon
  <2> QED
    BY <2>12, <2>18, <2>19, <2>k, <2>c DEF AInv
<1> QED
  BY <1>a, <1>b

\* Nothing runs: no batch is launched.
LEMMA NothingToRunStep ==
  ASSUME AInv, NothingToRun
  PROVE  AInv' /\ Kept /\ Stays
<1>1. /\ pc = "decode" /\ Typed /\ LInv /\ running' = <<>> /\ Launch(NoBatch)
      /\ UNCHANGED <<conf, waiting, chunked, last, req, sent, answered>>
  BY Zenon DEF NothingToRun, AInv
<1>2. batch' = NoBatch /\ Launch(batch') /\ pc' = "process"
  BY <1>1 DEF Launch
<1>3. /\ Held = NoBatch /\ Put = {} /\ Admitted = {}
      /\ Held' = NoBatch /\ Admitted' = {} /\ Put' = {} /\ Late' = Late /\ ~Ahead'
  BY <1>1, <1>2 DEF Held, Put, Admitted, Ahead, Late, Overlap
<1>4. Typed'
  BY <1>1 DEF Typed
<1>5. Placed(Range(waiting), {}, {}, chunked, {}, {}, Late, sent, req, answered)
  <2> DEFINE W == Range(waiting)
             R == Range(running)
  <2>1. Placed(W, {}, R, chunked, {}, {}, Late, sent, req, answered)
    BY <1>1, <1>3, Nothing, Zenon DEF LInv
  <2> HIDE DEF W, R
  <2>2. Placed(W, {}, {}, chunked, {}, {}, Late, sent, req, answered)
    BY <2>1 DEF Placed
  <2> QED
    BY <2>2 DEF W
<1>6. Fresh'
  BY <1>2, <1>3 DEF Fresh, IsExtend, NoBatch
<1>7. Pending'
  BY <1>1, <1>2, LaunchPending DEF LInv
<1>8. LInv'
  BY <1>1, <1>3, <1>5, <1>6, <1>7, Nothing, Zenon DEF LInv
<1>c. Stays
  <2>1. ASSUME Steady, Whole PROVE Whole'
    <3> DEFINE W == Range(waiting)
               R == Range(running)
    <3>1. /\ Covered(W, R, chunked, {}, {}, sent, answered)
          /\ OneChunk("decode", chunked, {}, adder.new_chunked, NoBatch)
          /\ \A x \in Reqs : req[x].finished => answered[x] = 1
      BY <1>1, <1>3, <2>1, NothingJoins, Zenon DEF Whole
    <3>2. \A r \in R : req[r].finished
      <4>1. Once(running, Reqs) /\ Live = <<>>
        BY <1>1, Zenon DEF LInv, NothingToRun
      <4>2. Range(Live) = {r \in R : ~req[r].finished}
        BY <4>1, LiveIs, Zenon
      <4> QED
        BY <4>1, <4>2, Nothing
    <3>3. \A m : OneChunk("process", chunked, {}, m, NoBatch)
      BY <3>1, Nothing, NothingJoins DEF OneChunk
    <3> HIDE DEF W, R
    <3>4. Covered(W, {}, chunked, {}, {}, sent, answered)
      <4>1. sent \subseteq Reqs
        BY <1>1 DEF Typed
      <4> QED
        BY <3>1, <3>2, <4>1 DEF Covered
    <3> QED
      BY <1>1, <1>2, <1>3, <3>1, <3>3, <3>4, Nothing, NothingJoins, Zenon DEF Whole, W
  <2> QED
    BY <1>1, <2>1, StaysIs
<1>k. Kept
  BY <1>1, SameKept
<1> QED
  BY <1>4, <1>8, <1>k, <1>c DEF AInv

\* prepare_for_decode: the requests of s run on, those of out go back to the queue.
LEMMA DecodeStep ==
  ASSUME AInv, pc = "decode", NEW s, NEW out, Decode(s, out), Once(s, Reqs), Once(out, Reqs),
         \A r \in Range(s) : r \notin Range(out),
         \A r \in Range(s) \cup Range(out) : r \in Range(running) /\ ~req[r].finished,
         \A r \in Range(running) : req[r].finished \/ r \in Range(s) \/ r \in Range(out)
  PROVE  AInv' /\ Kept /\ Stays
<1> DEFINE S == Range(s)
           O == Range(out)
           W == Range(waiting)
           R == Range(running)
           w == EnqueueAll(waiting, out)
<1>a. CASE \E e : Die(e)
  BY <1>a, DieStep
<1>b. CASE ~\E e : Die(e)
  <2>1. /\ Typed /\ LInv /\ running' = s /\ waiting' = w.q /\ answered' = Answer(w.out)
        /\ req' = [r \in Reqs |-> IF r \in S THEN [req[r] EXCEPT !.kv = @ + 1]
                                  ELSE IF r \in O THEN Reset(r) ELSE req[r]]
        /\ Launch([NoBatch EXCEPT !.mode = "decode", !.reqs = s])
        /\ UNCHANGED <<conf, chunked, last, sent>>
    BY <1>b, Zenon DEF Decode, AInv
  <2>2. batch'.reqs = s /\ ~IsExtend(batch') /\ Launch(batch') /\ pc' = "process"
    BY <2>1 DEF Launch, NoBatch, IsExtend
  <2>3. /\ Held = NoBatch /\ Put = {} /\ Admitted = {}
        /\ Held' = batch' /\ Admitted' = {} /\ Put' = {} /\ Late' = Late /\ ~Ahead'
    BY <2>1, <2>2 DEF Held, Put, Admitted, Ahead, Late, Overlap
  <2>4. /\ Placed(W, {}, R, chunked, {}, {}, Late, sent, req, answered)
        /\ Once(waiting, Reqs) /\ Fresh /\ Pending
    BY <2>1, <2>3, Nothing, Zenon DEF LInv
  <2>5. /\ \A r \in S : r \notin O /\ r \in R /\ ~req[r].finished
        /\ \A r \in O : r \in R /\ ~req[r].finished
    OBVIOUS
  <2>16. \A r \in R : req[r].finished \/ r \in S \/ r \in O
    OBVIOUS
  <2> HIDE DEF S, O, W, R
  <2>6. /\ sent \subseteq Reqs /\ conf \in Configs
        /\ \A r \in W : r \in Reqs /\ r \notin R /\ answered[r] = 0
        /\ \A r \in O : r \in Reqs /\ r \notin W /\ answered[r] = 0
    <3>1. sent \subseteq Reqs /\ conf \in Configs
      BY <2>1, Zenon DEF Typed
    <3>2. \A r \in W : r \in Reqs /\ r \notin R /\ answered[r] = 0
      BY <2>4, <3>1, Zenon DEF Placed
    <3>3. \A r \in R : r \in Reqs /\ (req[r].finished \/ answered[r] = 0)
      BY <2>4, <3>1 DEF Placed
    <3> QED
      BY <2>5, <3>1, <3>2, <3>3
  <2>7. Queue(w, W \cup O)
    <3>1. \A r \in Range(waiting) : r \notin Range(out)
      BY <2>6 DEF W, O
    <3>2. Queue(EnqueueAll(waiting, out), Range(waiting) \cup Range(out))
      BY <2>4, <2>6, <3>1, EnqueueAllIs, Zenon
    <3> QED
      BY <3>2, Zenon DEF W, O
  <2> HIDE DEF w
  <2>8. /\ Once(w.q, Reqs) /\ Range(w.q) \cup w.out = W \cup O /\ Range(w.q) \cap w.out = {}
        /\ w.out \in SUBSET Reqs /\ \A x \in w.out : answered[x] = 0
    BY <2>6, <2>7 DEF Queue
  <2>9. /\ Answer(w.out) \in [Reqs -> 0..1]
        /\ \A x \in Reqs : x \notin w.out => Answer(w.out)[x] = answered[x]
        /\ \A x \in w.out : Answer(w.out)[x] = 1
    BY <2>1, <2>8, AnswerIs DEF Typed
  <2>10. /\ req' = [r \in Reqs |-> req'[r]] /\ \A r \in Reqs : IsReq(req'[r])
         /\ \A r \in Reqs : /\ req'[r].finished = req[r].finished /\ req'[r].out = req[r].out
                            /\ r \notin O => req'[r].freed = req[r].freed
                            /\ r \notin O => req'[r].retracted = req[r].retracted
                            /\ r \in O => req'[r].retracted
    <3>1. req' = [r \in Reqs |-> req'[r]]
      BY <2>1, Zenon
    <3>2. ASSUME NEW r \in Reqs
          PROVE  /\ IsReq(req'[r]) /\ req'[r].finished = req[r].finished /\ req'[r].out = req[r].out
                 /\ r \notin O => req'[r].freed = req[r].freed
                 /\ r \notin O => req'[r].retracted = req[r].retracted
                 /\ r \in O => req'[r].retracted
      <4>1. IsReq(req[r])
        BY <2>1 DEF Typed
      <4>2. CASE r \in S
        <5>0. req'[r] = [req[r] EXCEPT !.kv = @ + 1]
          BY <2>1, <4>2
        <5>1. PICK k : req'[r] = [req[r] EXCEPT !.kv = k]
          BY <5>0, Zenon
        <5> QED
          BY <2>5, <4>1, <4>2, <5>1 DEF IsReq
      <4>3. CASE r \notin S /\ r \in O
        <5>1. req'[r] = Reset(r)
          BY <2>1, <4>3
        <5>2. IsReq(req'[r]) /\ req'[r].retracted
          BY <4>1, <5>1 DEF IsReq, Reset
        <5>3. req'[r].finished = req[r].finished /\ req'[r].out = req[r].out
          BY <4>1, <5>1 DEF IsReq, Reset
        <5> QED
          BY <4>3, <5>2, <5>3, Zenon
      <4>4. CASE r \notin S /\ r \notin O
        BY <2>1, <4>1, <4>4
      <4> QED
        BY <4>2, <4>3, <4>4
    <3> QED
      BY <3>1, <3>2
  <2>11. Typed'
    <3>1. \A x \in Reqs \ sent : x \notin w.out
      BY <2>4, <2>5, <2>8, Zenon DEF Placed
    <3> QED
      BY <2>1, <2>6, <2>9, <2>10, <3>1, Zenon DEF Typed
  <2>12. Placed(Range(w.q), {}, S, chunked, {}, S, Late, sent, req', Answer(w.out))
    <3> DEFINE Q == Range(w.q)
               A == w.out
               a == Answer(w.out)
    <3>1. /\ Q \cup A = W \cup O /\ Q \cap A = {} /\ S \subseteq R /\ O \subseteq R
          /\ \A x \in Reqs : x \notin A => a[x] = answered[x]
      BY <2>5, <2>8, <2>9, Zenon
    <3> HIDE DEF Q, A, a
    <3>2. Placed(Q, {}, S, chunked, {}, S, Late, sent, req', a)
      BY <2>4, <2>5, <2>6, <2>10, <3>1, Zenon DEF Placed
    <3> QED
      BY <3>2, Zenon DEF Q, a
  <2>13. Fresh'
    <3>1. \A r \in Range(batch'.reqs) : ~req'[r].finished
      <4>1. Range(batch'.reqs) = S /\ S \subseteq Reqs
        BY <2>2, SeqIs DEF S, Once
      <4> QED
        BY <2>5, <2>10, <4>1, Zenon
    <3> QED
      BY <2>2, <2>3, <3>1, Zenon DEF Fresh
  <2>14. Pending'
    BY <2>1, <2>2, <2>4, LaunchPending
  <2>15. LInv'
    BY <2>1, <2>2, <2>3, <2>8, <2>12, <2>13, <2>14, Zenon DEF LInv, S
  <2>c. Stays
    <3>1. ASSUME Steady, Whole PROVE Whole'
      <4> DEFINE Q == Range(w.q)
                 A == w.out
                 a == Answer(w.out)
      <4>1. /\ Covered(W, R, chunked, {}, {}, sent, answered)
            /\ OneChunk("decode", chunked, {}, adder.new_chunked, NoBatch)
            /\ \A x \in Reqs : req[x].finished => answered[x] = 1
        BY <2>3, <3>1, NothingJoins, Zenon DEF Whole, W, R
      <4>2. Joining(batch') = {} /\ ~batch'.prefill_only
        BY <2>1, <2>2, Zenon DEF Joining, Launch, NoBatch
      <4>3. /\ Q \cup A = W \cup O /\ A \subseteq Reqs
            /\ \A x \in Reqs : x \notin A => a[x] = answered[x]
            /\ \A x \in A : a[x] = 1
        BY <2>8, <2>9, Zenon
      <4>4. \A m : OneChunk("process", chunked, {}, m, batch')
        BY <2>2, <4>1, <4>2, Zenon DEF OneChunk
      <4> HIDE DEF Q, A, a
      <4>5. Covered(Q, S, chunked, {}, {}, sent, a)
        BY <2>6, <2>16, <4>1, <4>3 DEF Covered
      <4>6. \A x \in Reqs : req'[x].finished => a[x] = 1
        BY <2>10, <4>1, <4>3
      <4> QED
        BY <2>1, <2>2, <2>3, <4>2, <4>4, <4>5, <4>6, Zenon DEF Whole, Q, a, S
    <3> QED
      BY <2>1, <3>1, StaysIs
  <2>k. Kept
    BY <2>1, <2>10, KeptIs
  <2> QED
    BY <2>11, <2>15, <2>k, <2>c DEF AInv
<1> QED
  BY <1>a, <1>b

\* The running requests decode.
LEMMA DecodeBatchStep ==
  ASSUME AInv, DecodeBatch
  PROVE  AInv' /\ Kept /\ Stays
<1>1. pc = "decode" /\ Decode(Live, <<>>) /\ Once(running, Reqs)
  BY Zenon DEF DecodeBatch, AInv, LInv
<1>2. Once(Live, Reqs) /\ Range(Live) = {r \in Range(running) : ~req[r].finished}
  BY <1>1, LiveIs
<1>3. /\ \A r \in Range(Live) : r \notin Range(<<>>)
      /\ \A r \in Range(Live) \cup Range(<<>>) : r \in Range(running) /\ ~req[r].finished
      /\ \A r \in Range(running) : req[r].finished \/ r \in Range(Live) \/ r \in Range(<<>>)
  BY <1>2, Nothing
<1> QED
  BY <1>1, <1>2, <1>3, Nothing, DecodeStep, Zenon

\* Memory is short: the last requests in the order of retract_decode go back to the queue.
LEMMA RetractDecodeStep ==
  ASSUME AInv, RetractDecode
  PROVE  AInv' /\ Kept /\ Stays
<1>1. /\ pc = "decode" /\ Once(running, Reqs) /\ Live # <<>> /\ conf \in Configs
      /\ \A r \in Reqs : req[r].out \in Nat
  <2>1. pc = "decode" /\ Live # <<>> /\ Typed /\ LInv
    BY Zenon DEF RetractDecode, AInv
  <2> QED
    BY <2>1 DEF LInv, Typed, IsReq
<1>2. Once(Live, Reqs) /\ Range(Live) = {r \in Range(running) : ~req[r].finished}
  BY <1>1, LiveIs
<1> DEFINE s == RetractOrder(Live)
           n == Len(s)
<1>3. Once(s, Reqs) /\ Range(s) = Range(Live)
  BY <1>1, <1>2, RetractOrderIs
<1>4. PICK T \in SUBSET (1..(n - 1)) :
        \E m \in {Max({1} \cup T)} : \/ \E e : Die(e)
                                     \/ Decode(SubSeq(s, 1, m), Reversed(SubSeq(s, m + 1, n)))
  BY Zenon DEF RetractDecode
<1> HIDE DEF s
<1>5. n \in Nat /\ n # 0 /\ DOMAIN s = 1..n
  <2>1. s # <<>>
    BY <1>1, <1>2, <1>3, SeqIs DEF Once
  <2> QED
    BY <1>3, <2>1, SeqIs DEF Once
<1>6. Max({1} \cup T) \in 1..n
  <2> DEFINE U == {1} \cup T
  <2>1. U \in SUBSET (1..n) /\ 1 \in U
    BY <1>4, <1>5
  <2> HIDE DEF U
  <2>2. Max(U) \in U
    BY <1>5, <2>1, MaxIs, Zenon
  <2>3. Max(U) \in 1..n
    BY <2>1, <2>2, Zenon
  <2> QED
    BY <2>3, Zenon DEF U
<1> DEFINE m == Max({1} \cup T)
           a == SubSeq(s, 1, m)
           b == SubSeq(s, m + 1, n)
<1>7. (\E e : Die(e)) \/ Decode(a, Reversed(b))
  BY <1>4, Zenon
<1> HIDE DEF m
<1>8. m \in 1..n
  BY <1>6 DEF m
<1>9. /\ Once(a, Reqs) /\ \A x : x \in Range(a) <=> \E i \in 1..m : s[i] = x
      /\ Once(b, Reqs) /\ \A x : x \in Range(b) <=> \E i \in (m + 1)..n : s[i] = x
  <2>1. 1 \in Nat \ {0} /\ m + 1 \in Nat \ {0} /\ m \in 0..Len(s) /\ n \in 0..Len(s)
    BY <1>5, <1>8
  <2>2. Once(a, Reqs) /\ \A x : x \in Range(a) <=> \E i \in 1..m : s[i] = x
    BY <1>3, <2>1, CutOnce
  <2>3. Once(b, Reqs) /\ \A x : x \in Range(b) <=> \E i \in (m + 1)..n : s[i] = x
    BY <1>3, <2>1, CutOnce
  <2> QED
    BY <2>2, <2>3
<1> HIDE DEF a, b
<1>10. Once(Reversed(b), Reqs) /\ Range(Reversed(b)) = Range(b)
  BY <1>9, ReverseOnce
<1>11. /\ \A r \in Range(a) : r \notin Range(b)
       /\ \A r \in Range(a) \cup Range(b) : r \in Range(s)
       /\ \A r \in Range(s) : r \in Range(a) \/ r \in Range(b)
  <2>1. \A i, j \in 1..n : s[i] = s[j] => i = j
    BY <1>3, <1>5 DEF Once, IsInjective
  <2>2. (\A i \in 1..n : s[i] \in Range(s)) /\ \A r \in Range(s) : \E i \in 1..n : s[i] = r
    BY <1>5 DEF Range
  <2> QED
    BY <1>5, <1>8, <1>9, <2>1, <2>2
<1>12. CASE \E e : Die(e)
  BY <1>12, DieStep
<1>13. CASE Decode(a, Reversed(b))
  <2> DEFINE c == Reversed(b)
  <2>1. Once(c, Reqs) /\ Range(c) = Range(b) /\ Decode(a, c)
    BY <1>10, <1>13
  <2> HIDE DEF c
  <2>2. /\ \A r \in Range(a) : r \notin Range(c)
        /\ \A r \in Range(a) \cup Range(c) : r \in Range(running) /\ ~req[r].finished
        /\ \A r \in Range(running) : req[r].finished \/ r \in Range(a) \/ r \in Range(c)
    BY <1>2, <1>3, <1>11, <2>1
  <2> QED
    BY <1>1, <1>9, <2>1, <2>2, DecodeStep, Zenon
<1> QED
  BY <1>7, <1>12, <1>13, Zenon

\* The result that is processed is the one of the batch before in the overlap loop, the one
\* of the batch just launched in the normal loop; the queue then holds the other one.
LEMMA DueIs ==
  ASSUME Pending, pc = "process"
  PROVE  /\ Overlap => Due = last
         /\ ~Overlap => Due = batch
         /\ Overlap /\ last # NoBatch => Tail(results) = Only(batch)
         /\ Overlap /\ last = NoBatch => results = Only(batch)
<1>1. Behind(last, batch)
  BY BehindIs, Zenon
<1>2. Overlap => results = Only(last) \o Only(batch)
  BY DEF Pending
<1>3. Overlap => Due = IF last # NoBatch THEN Head(results) ELSE NoBatch
  BY Zenon DEF Due
<1>4. ~Overlap => Due = batch
  BY Zenon DEF Due
<1> QED
  BY <1>1, <1>2, <1>3, <1>4, Zenon DEF Behind

Processed(r, token, done, cached, midway) ==
  [req[r] EXCEPT !.out = @ + IF r \in token THEN 1 ELSE 0,
                 !.finished = @ \/ r \in done,
                 !.freed = @ \/ r \in done,
                 !.to_finish = @ /\ r \notin done,
                 !.prefix = IF r \in cached THEN req[r].fill ELSE @,
                 !.chunks = @ - IF r \in midway THEN 1 ELSE 0]

\* A result is processed: the requests it ends are answered.
LEMMA ProcessBatchResultStep ==
  ASSUME AInv, ProcessBatchResult
  PROVE  AInv' /\ Kept /\ Stays
<1> DEFINE b == Due
           seen == {r \in Range(b.reqs) : ~Skipped(b, r)}
           midway == {r \in seen : Midway(b, r)}
           token == seen \ midway
           ends(E) == {r \in token : req[r].to_finish \/ r \in E \/ req[r].out + 1 >= MaxNew[r]}
           caches(E) == IF b.mode = "decode" THEN {} ELSE (token \ ends(E)) \ b.decoding
           W == Range(waiting)
           R == Range(running)
           H == Range(batch.reqs)
<1>a. CASE \E e : Die(e)
  BY <1>a, DieStep
<1>b. CASE ~\E e : Die(e)
  <2>0. pc = "process" /\ Typed /\ LInv /\ b # NoBatch
    BY Zenon DEF ProcessBatchResult, AInv
  <2>1a. PICK E \in SUBSET (token \ IgnoreEos) :
           /\ req' = [r \in Reqs |-> Processed(r, token, ends(E), caches(E), midway)]
           /\ answered' = Answer(ends(E))
           /\ results' = IF Overlap THEN Tail(results) ELSE results
           /\ last' = batch /\ batch' = NoBatch /\ pc' = "recv"
           /\ UNCHANGED <<conf, waiting, running, chunked, sent>>
    BY <1>b, Zenon DEF ProcessBatchResult, Processed
  <2> DEFINE done == ends(E)
             cached == caches(E)
  <2>1b. done \subseteq token
    OBVIOUS
  <2>1c. req' = [r \in Reqs |-> Processed(r, token, done, cached, midway)]
    BY <2>1a, Zenon
  <2> HIDE DEF done, cached
  <2>1. /\ answered' = Answer(done)
        /\ results' = IF Overlap THEN Tail(results) ELSE results
        /\ last' = batch /\ batch' = NoBatch /\ pc' = "recv"
        /\ UNCHANGED <<conf, waiting, running, chunked, sent>>
    BY <2>1a, Zenon DEF done
  <2>2. /\ Held = batch /\ Put = {} /\ Admitted = {}
        /\ Late = IF Overlap THEN Range(last.reqs) ELSE {}
        /\ Held' = batch /\ Put' = {} /\ Admitted' = {} /\ Late' = {} /\ ~Ahead'
    BY <2>0, <2>1 DEF Held, Put, Admitted, Late, Ahead, Overlap
  <2>3. /\ Placed(W, {}, R, chunked, {}, H, Late, sent, req, answered)
        /\ Once(waiting, Reqs) /\ Once(running, Reqs) /\ Once(batch.reqs, Reqs)
        /\ Fresh /\ Pending
    BY <2>0, <2>2, Zenon DEF LInv
  <2>4. /\ Overlap => Due = last
        /\ ~Overlap => Due = batch
        /\ Overlap /\ last # NoBatch => Tail(results) = Only(batch)
    BY <2>0, <2>3, DueIs, Zenon
  <2> HIDE DEF W, R
  <2>5. \A r \in token : r \in Reqs /\ r \notin W /\ answered[r] = 0 /\ ~req[r].finished
    <3>0. /\ sent \subseteq Reqs
          /\ \A r \in token : r \in Range(b.reqs) /\ ~Skipped(b, r)
      BY <2>0, Zenon DEF Typed
    <3>1. CASE Overlap
      <4>1. \A r \in token : r \in Late /\ ~req[r].finished /\ ~req[r].retracted
        BY <2>2, <2>4, <3>0, <3>1, Zenon DEF Skipped
      <4> HIDE DEF token, H
      <4> QED
        BY <2>3, <3>0, <4>1, Zenon DEF Placed
    <3>2. CASE ~Overlap
      <4>1. \A r \in token : r \in H /\ ~req[r].finished
        <5>1. b = batch
          BY <2>4, <3>2, Zenon
        <5>2. CASE batch.mode = "decode"
          BY <2>0, <2>3, <3>0, <3>2, <5>1, <5>2, Zenon DEF Fresh
        <5>3. CASE batch.mode # "decode"
          BY <3>0, <5>1, <5>3, Zenon DEF Skipped
        <5> QED
          BY <5>2, <5>3
      <4> HIDE DEF token, H
      <4> QED
        BY <2>3, <3>0, <4>1, Zenon DEF Placed
    <3> QED
      BY <3>1, <3>2
  <2> HIDE DEF token, midway, H
  <2>6. done \in SUBSET Reqs /\ \A r \in done : r \notin W /\ answered[r] = 0
    BY <2>1b, <2>5, Zenon
  <2>7. /\ Answer(done) \in [Reqs -> 0..1]
        /\ \A r \in Reqs : r \notin done => Answer(done)[r] = answered[r]
        /\ \A r \in done : Answer(done)[r] = 1
    BY <2>0, <2>6, AnswerIs, Zenon DEF Typed
  <2>8. /\ req' = [r \in Reqs |-> req'[r]]
        /\ \A r \in Reqs : /\ IsReq(req'[r])
                           /\ req'[r].finished <=> (req[r].finished \/ r \in done)
                           /\ req'[r].freed <=> (req[r].freed \/ r \in done)
                           /\ req'[r].out = IF r \in token THEN req[r].out + 1 ELSE req[r].out
    <3>1. req' = [r \in Reqs |-> req'[r]]
      BY <2>1c
    <3>2. ASSUME NEW r \in Reqs
          PROVE  /\ IsReq(req'[r])
                 /\ req'[r].finished <=> (req[r].finished \/ r \in done)
                 /\ req'[r].freed <=> (req[r].freed \/ r \in done)
                 /\ req'[r].out = IF r \in token THEN req[r].out + 1 ELSE req[r].out
      <4>1. IsReq(req[r])
        BY <2>0 DEF Typed
      <4> DEFINE o == req[r].out + IF r \in token THEN 1 ELSE 0
                 f == req[r].finished \/ r \in done
                 g == req[r].freed \/ r \in done
                 t == req[r].to_finish /\ r \notin done
                 p == IF r \in cached THEN req[r].fill ELSE req[r].prefix
                 c == req[r].chunks - IF r \in midway THEN 1 ELSE 0
      <4>2. req'[r] = [req[r] EXCEPT !.out = o, !.finished = f, !.freed = g, !.to_finish = t,
                                     !.prefix = p, !.chunks = c]
        BY <2>1c, Zenon DEF Processed
      <4>3. /\ o \in Nat /\ f \in BOOLEAN /\ g \in BOOLEAN /\ t \in BOOLEAN
            /\ o = IF r \in token THEN req[r].out + 1 ELSE req[r].out
        BY <4>1 DEF IsReq
      <4> HIDE DEF o, f, g, t, p, c
      <4>4. IsReq(req'[r])
        BY <4>1, <4>2, <4>3 DEF IsReq
      <4>5. req'[r].finished = f /\ req'[r].freed = g /\ req'[r].out = o
        BY <4>1, <4>2, Zenon DEF IsReq
      <4> QED
        BY <4>3, <4>4, <4>5, Zenon DEF f, g
    <3> QED
      BY <3>1, <3>2
  <2>9. Typed'
    <3>1. \A r \in Reqs \ sent : r \notin done
      <4>1. \A r \in token : r \in sent
        BY <2>0, <2>2, <2>3, <2>4, Zenon DEF token, Placed, H
      <4> QED
        BY <2>1b, <4>1, Zenon
    <3> QED
      BY <2>0, <2>1, <2>7, <2>8, <3>1, Zenon DEF Typed
  <2>10. Placed(W, {}, R, chunked, {}, H, {}, sent, req', Answer(done))
    <3> DEFINE a == Answer(done)
    <3>1. sent \subseteq Reqs /\ \A r \in Reqs : r \notin done => a[r] = answered[r]
      BY <2>0, <2>7, Zenon DEF Typed
    <3> HIDE DEF a
    <3>2. Placed(W, {}, R, chunked, {}, H, {}, sent, req', a)
      BY <2>3, <2>6, <2>8, <3>1 DEF Placed
    <3> QED
      BY <3>2 DEF a
  <2>11. Fresh'
    BY <2>1, <2>2, <2>3, Zenon DEF Fresh
  <2>12. Pending'
    <3>1. Overlap => results' = Only(batch)
      BY <2>0, <2>1, <2>4
    <3>2. Overlap' = Overlap
      BY <2>1 DEF Overlap
    <3> QED
      BY <2>1, <3>1, <3>2, Zenon DEF Pending, Only
  <2>13. LInv'
    BY <2>1, <2>2, <2>3, <2>10, <2>11, <2>12, Zenon DEF LInv, W, R, H
  <2>c. Stays
    <3>1. ASSUME Steady, Whole PROVE Whole'
      <4> DEFINE a == Answer(done)
                 J == Joining(batch)
      <4>1. /\ Covered(W, R, chunked, {}, J, sent, answered)
            /\ OneChunk("process", chunked, {}, adder.new_chunked, batch)
            /\ \A x \in Reqs : req[x].finished => answered[x] = 1
        BY <2>0, <2>2, <3>1, Zenon DEF Whole, W, R
      <4>2. /\ sent \subseteq Reqs /\ done \subseteq Reqs
            /\ \A r \in Reqs : r \notin done => a[r] = answered[r]
            /\ \A r \in done : a[r] = 1
        BY <2>0, <2>6, <2>7, Zenon DEF Typed
      <4>3. \A m : OneChunk("recv", chunked, {}, m, batch)
        BY <4>1, Zenon DEF OneChunk
      <4> HIDE DEF a, J
      <4>4. Covered(W, R, chunked, {}, J, sent, a)
        BY <4>1, <4>2 DEF Covered
      <4>5. \A x \in Reqs : req'[x].finished => a[x] = 1
        BY <2>8, <4>1, <4>2
      <4> QED
        BY <2>1, <2>2, <4>3, <4>4, <4>5, Zenon DEF Whole, W, R, a, J
    <3> QED
      BY <2>0, <2>1, <3>1, StaysIs
  <2>k. Kept
    <3>1. \A r \in Reqs : req[r].out \in Nat
      BY <2>0, Zenon DEF Typed, IsReq
    <3> QED
      BY <2>5, <2>8, <3>1 DEF Kept
  <2> QED
    BY <2>9, <2>13, <2>k, <2>c DEF AInv
<1> QED
  BY <1>a, <1>b

\* The first batch of the overlap loop: no result is due yet.
LEMMA NoResultYetStep ==
  ASSUME AInv, NoResultYet
  PROVE  AInv' /\ Kept /\ Stays
<1> DEFINE W == Range(waiting)
           R == Range(running)
           H == Range(batch.reqs)
<1>1. /\ pc = "process" /\ Typed /\ LInv /\ Due = NoBatch /\ batch # NoBatch
      /\ last' = batch /\ batch' = NoBatch /\ pc' = "recv"
      /\ UNCHANGED <<conf, waiting, running, chunked, results, req, sent, answered>>
  BY Zenon DEF NoResultYet, AInv
<1>2. /\ Held = batch /\ Put = {} /\ Admitted = {}
      /\ Held' = batch /\ Put' = {} /\ Admitted' = {} /\ Late' = {} /\ ~Ahead'
  BY <1>1 DEF Held, Put, Admitted, Late, Ahead, Overlap
<1>3. /\ Placed(W, {}, R, chunked, {}, H, Late, sent, req, answered)
      /\ Once(waiting, Reqs) /\ Once(running, Reqs) /\ Once(batch.reqs, Reqs)
      /\ Fresh /\ Pending
  BY <1>1, <1>2, Zenon DEF LInv
<1>4. Overlap /\ last = NoBatch /\ results = Only(batch)
  BY <1>1, <1>3, DueIs, Zenon
<1> HIDE DEF W, R, H
<1>5. Typed'
  BY <1>1, Zenon DEF Typed
<1>6. Placed(W, {}, R, chunked, {}, H, {}, sent, req, answered)
  BY <1>3 DEF Placed
<1>7. Fresh' /\ Pending'
  <2>1. Fresh'
    BY <1>1, <1>2, <1>3, Zenon DEF Fresh
  <2>2. Overlap' = Overlap
    BY <1>1 DEF Overlap
  <2> QED
    BY <1>1, <1>4, <2>1, <2>2 DEF Pending, Only
<1>8. LInv'
  BY <1>1, <1>2, <1>3, <1>6, <1>7, Zenon DEF LInv, W, R, H
<1>c. Stays
  <2>1. ASSUME Steady, Whole PROVE Whole'
    <3>1. /\ Covered(W, R, chunked, {}, Joining(batch), sent, answered)
          /\ OneChunk("process", chunked, {}, adder.new_chunked, batch)
          /\ \A x \in Reqs : req[x].finished => answered[x] = 1
      BY <1>1, <1>2, <2>1, Zenon DEF Whole, W, R
    <3>2. \A m : OneChunk("recv", chunked, {}, m, batch)
      BY <3>1 DEF OneChunk
    <3> QED
      BY <1>1, <1>2, <3>1, <3>2, Zenon DEF Whole, W, R
  <2> QED
    BY <1>1, <2>1, StaysIs
<1>k. Kept
  BY <1>1, SameKept, Zenon
<1> QED
  BY <1>5, <1>8, <1>k, <1>c DEF AInv

\* The idle check.
LEMMA IdleStep ==
  ASSUME AInv, Idle
  PROVE  AInv' /\ Kept /\ Stays
<1> DEFINE W == Range(waiting)
           R == Range(running)
<1>a. CASE \E e : Die(e)
  BY <1>a, DieStep
<1>b. CASE ~\E e : Die(e)
  <2>1. /\ pc = "process" /\ Typed /\ LInv /\ Due = NoBatch /\ batch = NoBatch
        /\ last' = NoBatch /\ pc' = "recv"
        /\ UNCHANGED <<conf, waiting, running, chunked, batch, results, req, sent, answered>>
    BY <1>b, Zenon DEF Idle, AInv
  <2>2. /\ Held = NoBatch /\ Put = {} /\ Admitted = {}
        /\ Held' = NoBatch /\ Put' = {} /\ Admitted' = {} /\ Late' = {} /\ ~Ahead'
    BY <2>1 DEF Held, Put, Admitted, Late, Ahead, Overlap
  <2>3. /\ Placed(W, {}, R, chunked, {}, {}, Late, sent, req, answered)
        /\ Once(waiting, Reqs) /\ Once(running, Reqs) /\ Fresh /\ Pending
    BY <2>1, <2>2, Nothing, Zenon DEF LInv
  <2>4. Overlap => last = NoBatch /\ results = Only(batch)
    BY <2>1, <2>3, DueIs, Zenon
  <2> HIDE DEF W, R
  <2>5. Typed'
    BY <2>1, Zenon DEF Typed
  <2>6. Placed(W, {}, R, chunked, {}, {}, {}, sent, req, answered)
    BY <2>3 DEF Placed
  <2>7. Fresh' /\ Pending'
    <3>1. Fresh'
      BY <2>1, <2>2, Nothing, Zenon DEF Fresh
    <3>2. Overlap' = Overlap
      BY <2>1 DEF Overlap
    <3> QED
      BY <2>1, <2>4, <3>1, <3>2 DEF Pending, Only
  <2>8. LInv'
    BY <2>1, <2>2, <2>3, <2>6, <2>7, Nothing, Zenon DEF LInv, W, R
  <2>c. Stays
    <3>1. ASSUME Steady, Whole PROVE Whole'
      <4>1. /\ Covered(W, R, chunked, {}, Joining(NoBatch), sent, answered)
            /\ OneChunk("process", chunked, {}, adder.new_chunked, NoBatch)
            /\ \A x \in Reqs : req[x].finished => answered[x] = 1
        BY <2>1, <2>2, <3>1, Zenon DEF Whole, W, R
      <4>2. \A m : OneChunk("recv", chunked, {}, m, NoBatch)
        BY <4>1 DEF OneChunk
      <4> QED
        BY <2>1, <2>2, <4>1, <4>2, Zenon DEF Whole, W, R
    <3> QED
      BY <2>1, <3>1, StaysIs
  <2>k. Kept
    BY <2>1, SameKept
  <2> QED
    BY <2>5, <2>8, <2>k, <2>c DEF AInv
<1> QED
  BY <1>a, <1>b
-----------------------------------------------------------------------------
(* The theorems.                                                           *)

\* Every step of the event loop and every input keeps the invariants and the output.
LEMMA NextStep ==
  ASSUME AInv, Next
  PROVE  AInv' /\ Kept /\ Stays
<1>1. ASSUME NEW r \in Reqs, HandleGenerate(r) PROVE AInv' /\ Kept /\ Stays
  BY <1>1, HandleGenerateStep, Zenon
<1>2. ASSUME NEW S \in AbortSets, AbortRequest(S) PROVE AInv' /\ Kept /\ Stays
  BY <1>2, AbortRequestStep, Zenon
<1>3. CASE Input
  BY <1>1, <1>2, <1>3, FlushCacheStep, Zenon DEF Input
<1>4. CASE EventLoop
  BY <1>4, MergeLastBatchStep, NoPrefillStep, StartPrefillStep, AddOneReqStep,
     PreemptToScheduleStep, EndScanStep, NothingToPrefillStep, PrefillBatchStep,
     NothingToRunStep, DecodeBatchStep, RetractDecodeStep, ProcessBatchResultStep,
     NoResultYetStep, IdleStep, Zenon DEF EventLoop
<1> QED
  BY <1>3, <1>4 DEF Next

\* A stuttering step keeps the invariants.
LEMMA StutterStep ==
  ASSUME AInv, UNCHANGED vars
  PROVE  AInv' /\ Stays
<1>1. /\ UNCHANGED <<conf, waiting, running, chunked, batch, last, results, adder, scan, req>>
      /\ UNCHANGED <<sent, answered, pc>>
  BY DEF vars
<1>2. Held' = Held /\ Put' = Put /\ Admitted' = Admitted /\ Late' = Late /\ Ahead' = Ahead
  BY <1>1 DEF Held, Put, Admitted, Late, Ahead, Overlap
<1>3. Typed => Typed'
  BY <1>1, Zenon DEF Typed
<1>4. (Fresh => Fresh') /\ (Pending => Pending') /\ (Scanned => Scanned')
  BY <1>1, <1>2 DEF Fresh, Pending, Scanned, Overlap, PriorityScheduling, Priority
<1>5. LInv => LInv'
  BY <1>1, <1>2, <1>4, Zenon DEF LInv
<1>6. (Whole => Whole') /\ Steady' = Steady
  BY <1>1, <1>2, Zenon DEF Whole, Steady, PriorityScheduling, MaxNew
<1> QED
  BY <1>1, <1>3, <1>5, <1>6, Zenon DEF AInv, Stays, CInv

\* The lists of the event loop never disagree about a request: no list has it twice, a
\* queued or preempted request is in no batch and has no answer, and result_queue holds the
\* batches whose results are outstanding.
THEOREM AInvCorrect == Spec => []AInv
<1>1. Init => AInv
  BY InitAInv
<1>2. AInv /\ [Next]_vars => AInv'
  BY NextStep, StutterStep
<1> QED
  BY <1>1, <1>2, PTL DEF Spec

\* Whatever an abort, the queue limit, a retraction and the end of generation do to a
\* request, and in whatever order, the client gets one terminal answer at most.
THEOREM AnsweredOnceCorrect == Spec => []AnsweredOnce
<1>1. AInv => AnsweredOnce
  BY DEF AInv, Typed, AnsweredOnce
<1> QED
  BY <1>1, AInvCorrect, PTL

\* Retraction and preemption lose no output token, and a finished request gets none.
THEOREM OutputKeptCorrect == Spec => OutputKept
<1>1. Init => AInv
  BY InitAInv
<1>2. AInv /\ [Next]_vars => AInv'
  BY NextStep, StutterStep
<1>3. AInv /\ [Next]_vars => [Kept]_vars
  BY NextStep
<1> QED
  BY <1>1, <1>2, <1>3, PTL DEF Spec, OutputKept, Kept

\* A request that a list has once counts once, any other counts zero.
LEMMA CountIs ==
  ASSUME NEW s, Once(s, Reqs), NEW r
  PROVE  Cardinality({i \in DOMAIN s : s[i] = r}) = IF r \in Range(s) THEN 1 ELSE 0
<1> DEFINE I == {i \in DOMAIN s : s[i] = r}
<1>1. CASE r \in Range(s)
  <2>1. PICK i \in DOMAIN s : s[i] = r
    BY <1>1 DEF Range
  <2>2. I = {i}
    BY <2>1 DEF Once, IsInjective
  <2>3. Cardinality({i}) = 1
    BY FS_Singleton
  <2> QED
    BY <1>1, <2>2, <2>3, Zenon
<1>2. CASE r \notin Range(s)
  <2>1. I = {}
    BY <1>2 DEF Range
  <2>2. Cardinality({}) = 0
    BY FS_EmptySet
  <2> QED
    BY <1>2, <2>1, <2>2, Zenon
<1> QED
  BY <1>1, <1>2

\* At the top of an iteration a request is counted in the list that has it.
LEMMA OnePlaceIs ==
  ASSUME AInv, CInv, Steady
  PROVE  OnePlace
<1> SUFFICES ASSUME pc = "recv", NEW r \in Reqs
             PROVE  /\ r \in sent /\ answered[r] = 0 => Places(r) = 1
                    /\ answered[r] > 0 => r \notin Range(waiting)
  BY Zenon DEF OnePlace
<1> DEFINE W == Range(waiting)
           R == Range(running)
           J == Joining(last)
           a == Cardinality({i \in DOMAIN waiting : waiting[i] = r})
           b == Cardinality({i \in DOMAIN running : running[i] = r})
           c == IF IsExtend(last) THEN Cardinality({i \in DOMAIN last.reqs : last.reqs[i] = r}) ELSE 0
<1>1. Typed /\ LInv /\ Whole /\ Held = last /\ Admitted = {} /\ Put = {} /\ Late = {}
  BY DEF AInv, CInv, Held, Admitted, Put, Late, Ahead
<1>2. /\ Once(waiting, Reqs) /\ Once(running, Reqs) /\ Once(last.reqs, Reqs)
      /\ Placed(W, {}, R, chunked, {}, Range(last.reqs), {}, sent, req, answered)
      /\ Fresh /\ Covered(W, R, chunked, {}, J, sent, answered)
      /\ OneChunk("recv", chunked, {}, adder.new_chunked, last)
  BY <1>1, Zenon DEF LInv, Whole
<1>3. Places(r) = (a + b) + c
  BY Zenon DEF Places
<1>4. /\ a = IF r \in W THEN 1 ELSE 0
      /\ b = IF r \in R THEN 1 ELSE 0
  BY <1>2, CountIs, Zenon
<1>5. c = IF r \in J THEN 1 ELSE 0
  BY <1>2, CountIs, Zenon DEF Joining
<1> HIDE DEF a, b, c
<1>6. \A x \in J : x \in Range(last.reqs) /\ x \notin R
  BY <1>1, <1>2, Zenon DEF Joining, Fresh
<1>7. chunked \subseteq J
  BY <1>2 DEF OneChunk
<1> HIDE DEF W, R, J
<1>8. r \in sent /\ answered[r] = 0 => Places(r) = 1
  <2>1. /\ r \in W => r \notin R /\ r \notin J
        /\ r \in R => r \notin J
    BY <1>2, <1>6, Zenon DEF Placed
  <2>2. r \in sent /\ answered[r] = 0 => r \in W \/ r \in R \/ r \in J
    BY <1>2, <1>7, Zenon DEF Covered
  <2> QED
    BY <1>3, <1>4, <1>5, <2>1, <2>2
<1>9. answered[r] > 0 => r \notin W
  BY <1>2 DEF Placed
<1> QED
  BY <1>8, <1>9 DEF W

\* On a server that preempts nothing, and when every request asks for tokens, no request
\* is lost or held twice: at the top of an iteration each one that was received and not
\* answered is in exactly one of waiting_queue, running_batch and the prefill batch about
\* to be merged.
THEOREM OnePlaceCorrect == Spec => [](Steady => OnePlace)
<1>1. Init => AInv /\ CInv
  BY InitAInv, InitCInv
<1>2. AInv /\ CInv /\ [Next]_vars => AInv' /\ CInv'
  BY NextStep, StutterStep DEF Stays
<1>3. AInv /\ CInv => (Steady => OnePlace)
  BY OnePlaceIs
<1> QED
  BY <1>1, <1>2, <1>3, PTL DEF Spec

\* Only PrefillBatch launches a batch after the scan.
LEMMA CommitStep ==
  ASSUME Next, pc = "commit", pc' = "process"
  PROVE  PrefillBatch
<1>1. Input => pc = "recv"
  BY Zenon DEF Input, HandleGenerate, AbortRequest, FlushCache
<1>2. /\ MergeLastBatch => pc = "recv"
      /\ NoPrefill \/ StartPrefill => pc = "prefill"
  BY Zenon DEF MergeLastBatch, NoPrefill, StartPrefill
<1>3. /\ AddOneReq => pc = "scan" \/ pc = "add"
      /\ PreemptToSchedule \/ EndScan => pc = "scan"
  BY Zenon DEF AddOneReq, PreemptToSchedule, EndScan
<1>4. /\ NothingToPrefill => pc' = "decode"
      /\ NothingToRun \/ DecodeBatch \/ RetractDecode => pc = "decode"
  BY Zenon DEF NothingToPrefill, NothingToRun, DecodeBatch, RetractDecode
<1>5. ProcessBatchResult \/ NoResultYet \/ Idle => pc = "process"
  BY Zenon DEF ProcessBatchResult, NoResultYet, Idle
<1> QED
  BY <1>1, <1>2, <1>3, <1>4, <1>5, Zenon DEF Next, EventLoop

\* The prefill batch takes a prefix of the sorted queue.
InOrder ==
  pc = "commit" /\ pc' = "process" =>
    \A j \in DOMAIN waiting : waiting[j] \in Range(batch'.reqs) =>
      /\ \A i \in 1..j : waiting[i] \in Range(batch'.reqs)
      /\ PriorityScheduling => \A i \in j..Len(waiting) :
                                 Priority[waiting[i]] <= Priority[waiting[j]]

\* Every step launches what the head of the queue holds.
LEMMA InOrderStep ==
  ASSUME AInv, Next
  PROVE  InOrder
<1> SUFFICES ASSUME pc = "commit", pc' = "process" PROVE InOrder
  BY DEF InOrder
<1> DEFINE B == Range(batch'.reqs)
           C == Range(adder.can)
           R == Range(running)
<1>1. LInv /\ Scanned
  BY DEF AInv, LInv, Ahead
<1>2. C \subseteq B /\ B \subseteq C \cup R
  <2>1. Batched
    BY CommitStep, PrefillBatchStep, Zenon
  <2> QED
    BY <2>1 DEF Batched
<1> HIDE DEF B, C, R
<1>3. /\ Len(waiting) \in Nat /\ DOMAIN waiting = 1..Len(waiting)
      /\ \A i \in 1..Len(waiting) : waiting[i] \notin R
  <2>1. waiting \in Seq(Reqs) /\ \A r \in Range(waiting) : r \notin R
    BY <1>1 DEF LInv, Placed, Once, R
  <2> QED
    BY <2>1, SeqIs, Zenon
<1>4. PICK k \in 0..Len(waiting) : \A i \in 1..Len(waiting) : waiting[i] \in C <=> i <= k
  <2>1. \E k \in 0..Len(waiting) : \A i \in DOMAIN waiting : waiting[i] \in C <=> i <= k
    BY <1>1, Zenon DEF Scanned, C
  <2> QED
    BY <1>3, <2>1, Zenon
<1>5. \A i \in 1..Len(waiting) : waiting[i] \in B <=> i <= k
  BY <1>2, <1>3, <1>4
<1>6. PriorityScheduling => \A i, j \in 1..Len(waiting) :
        i <= j => Priority[waiting[j]] <= Priority[waiting[i]]
  BY <1>1, <1>3 DEF Scanned
<1>7. ASSUME NEW j \in 1..Len(waiting), waiting[j] \in B
      PROVE  /\ \A i \in 1..j : waiting[i] \in B
             /\ PriorityScheduling => \A i \in j..Len(waiting) :
                                        Priority[waiting[i]] <= Priority[waiting[j]]
  <2>1. \A i \in 1..j : waiting[i] \in B
    BY <1>3, <1>5, <1>7
  <2>2. \A i \in j..Len(waiting) : i \in 1..Len(waiting) /\ j <= i
    BY <1>3
  <2> QED
    BY <1>6, <2>1, <2>2
<1> QED
  BY <1>3, <1>7, Zenon DEF InOrder, B

\* A prefill batch takes the queue from its head: no request is admitted past one that
\* stays in waiting_queue, and with priorities none past a more important one.
THEOREM AdmitInOrderCorrect == Spec => AdmitInOrder
<1>1. Init => AInv
  BY InitAInv
<1>2. AInv /\ [Next]_vars => AInv'
  BY NextStep, StutterStep
<1>3. AInv /\ [Next]_vars => [InOrder]_vars
  BY InOrderStep
<1> QED
  BY <1>1, <1>2, <1>3, PTL DEF Spec, AdmitInOrder, InOrder
=============================================================================
