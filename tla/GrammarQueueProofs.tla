------------------------- MODULE GrammarQueueProofs -------------------------
(***************************************************************************)
(* The ranks of a group agree on the grammar queue, and no request leaves  *)
(* it unresolved: for every set of ranks, requests and grammars, whenever  *)
(* compilations end, with and without timeouts and aborts.                 *)
(***************************************************************************)
EXTENDS GrammarQueue, FiniteSetTheorems, NaturalsInduction, WellFoundedInduction, TLAPS

USE SMTT(30)

Seg(q, m, n) == {q[i] : i \in (m + 1)..n}
Invalid(S) == {r \in S : Outcome[Key[r]] = "invalid"}
After(c, S) == [g \in Keys |-> IF \E r \in S : Key[r] = g THEN Outcome[g] ELSE c[g]]
Most(count) == Max({count[j] : j \in Ranks})

Typed ==
  /\ conf \in Configs
  /\ queue \in [Ranks -> Seq(Reqs)] /\ moved \in [Ranks -> Seq(Reqs)]
  /\ grammar \in [Ranks -> [Reqs -> {"none", "future", "valid"}]]
  /\ finish \in [Ranks -> SUBSET Reqs]
  /\ cache \in [Ranks -> [Keys -> {"none", "valid", "invalid"}]]
  /\ ready \in [Ranks -> Nat] /\ late \in [Ranks -> {0, 1}]
  /\ sent \in SUBSET Reqs
  /\ pc \in [Ranks -> {"recv", "sync", "fill", "moved", "dead"}]

\* Once a rank is past the reduction all are, or have ended.
Phases ==
  (\E k \in Ranks : pc[k] \in {"fill", "moved"}) =>
    \A j \in Ranks : pc[j] \in {"fill", "moved", "dead"}

\* A rank at the top of the iteration,
AtRecv(k, q, mv, f, c) ==
  queue[k] = q /\ moved[k] = mv /\ finish[k] = f /\ cache[k] = c /\ ready[k] = 0

\* with its own ready requests resolved,
Polled(k, q, mv, f, c) ==
  /\ queue[k] = q /\ moved[k] = mv
  /\ finish[k] = f \cup Invalid(Seg(q, 0, ready[k]))
  /\ cache[k] = After(c, Seg(q, 0, ready[k]))

\* and with the agreed ones moved, m of them ready and t timed out.
Rejected(q, m, t) == IF t = 0 THEN {} ELSE {q[m + 1]}
CacheMoved(q, c, m, t) ==
  [g \in Keys |-> IF \E r \in Rejected(q, m, t) : Key[r] = g THEN "invalid"
                  ELSE After(c, Seg(q, 0, m))[g]]
HasMoved(k, q, mv, f, c, m, t) ==
  /\ m + t <= Len(q)
  /\ queue[k] = SubSeq(q, m + t + 1, Len(q)) /\ moved[k] = mv \o SubSeq(q, 1, m + t)
  /\ finish[k] = f \cup Invalid(Seg(q, 0, m)) \cup Rejected(q, m, t)
  /\ cache[k] = CacheMoved(q, c, m, t)

\* Where rank k is in the iteration that began with queue q, moved requests mv, aborted
\* ones f and cache c.
Along(k, q, mv, f, c) ==
  /\ ready[k] \in 0..Len(q)
  /\ \A r \in Seg(q, 0, ready[k]) : Outcome[Key[r]] # "none"
  /\ pc[k] = "recv" => AtRecv(k, q, mv, f, c)
  /\ pc[k] \in {"sync", "fill"} => Polled(k, q, mv, f, c)
  /\ pc[k] = "moved" => HasMoved(k, q, mv, f, c, Most(ready), Most(late))

\* All ranks are in the same iteration.
Together ==
  \E q, mv \in Seq(Reqs), f \in SUBSET Reqs, c \in [Keys -> {"none", "valid", "invalid"}] :
    \A k \in Ranks : Along(k, q, mv, f, c)

\* What a rank knows of its own requests.
Good(k, r) == grammar[k][r] = "valid" /\ Outcome[Key[r]] = "valid"
Settled ==
  \A k \in Ranks :
    /\ ToSet(queue[k]) \subseteq sent /\ ToSet(moved[k]) \subseteq sent
    /\ \A r \in ToSet(moved[k]) \ finish[k] : Good(k, r)
    /\ pc[k] \in {"sync", "fill"} =>
         \A r \in Seg(queue[k], 0, ready[k]) \ finish[k] : Good(k, r)
    /\ \A g \in Keys : cache[k][g] = "valid" => Outcome[g] = "valid"

IInv == Typed /\ Phases /\ Together /\ Settled
-----------------------------------------------------------------------------
(* Greatest elements and pieces of a queue.                                *)

\* A nonempty bounded set of naturals has a greatest element, and Max is it.
LEMMA MaxNat ==
  ASSUME NEW S \in SUBSET Nat, S # {}, NEW b \in Nat, \A x \in S : x <= b
  PROVE  Max(S) \in S /\ \A y \in S : y <= Max(S)
<1> DEFINE R == OpToRel(<, Nat)
           D == {b - x : x \in S}
<1>1. IsWellFoundedOn(R, Nat)
  BY NatLessThanWellFounded, Zenon
<1>2. \A x, y \in Nat : y < x => <<y, x>> \in R
  BY Zenon DEF OpToRel
<1>3. D \in SUBSET Nat /\ D # {}
  OBVIOUS
<1> HIDE DEF R, D
<1>4. PICK d \in D : \A y \in D : ~(<<y, d>> \in R)
  BY <1>1, <1>3, WFMin, Zenon
<1>5. \A y \in D : ~(y < d)
  BY <1>2, <1>3, <1>4, Zenon
<1>6. PICK x \in S : d = b - x
  BY <1>4 DEF D
<1>7. \A y \in S : b - y \in D
  BY DEF D
<1>8. \A y \in S : x >= y
  <2> TAKE y \in S
  <2>1. ~(b - y < d)
    BY <1>5, <1>7
  <2> QED
    BY <1>6, <2>1
<1>9. /\ Max(S) \in S /\ \A y \in S : Max(S) >= y
  BY <1>8, Zenon DEF Max
<1> QED
  BY <1>9

\* The members of an initial piece of a queue, and of two pieces that meet.
LEMMA Pieces ==
  ASSUME NEW q \in Seq(Reqs), NEW n \in 0..Len(q), NEW m \in n..Len(q)
  PROVE  /\ SubSeq(q, 1, m) \in Seq(Reqs) /\ ToSet(SubSeq(q, 1, m)) = Seg(q, 0, m)
         /\ SubSeq(q, m + 1, Len(q)) \in Seq(Reqs)
         /\ ToSet(SubSeq(q, m + 1, Len(q))) \subseteq ToSet(q)
         /\ Seg(q, 0, m) = Seg(q, 0, n) \cup Seg(q, n, m)
         /\ Seg(q, 0, m) \subseteq ToSet(q) /\ ToSet(q) \subseteq Reqs
<1>1. /\ SubSeq(q, 1, m) \in Seq(Reqs) /\ Len(SubSeq(q, 1, m)) = m
      /\ \A i \in 1..m : SubSeq(q, 1, m)[i] = q[i]
  OBVIOUS
<1>2. /\ SubSeq(q, m + 1, Len(q)) \in Seq(Reqs)
      /\ Len(SubSeq(q, m + 1, Len(q))) = Len(q) - m
      /\ \A i \in 1..(Len(q) - m) : SubSeq(q, m + 1, Len(q))[i] = q[m + i]
  OBVIOUS
<1>3. ToSet(SubSeq(q, 1, m)) = Seg(q, 0, m)
  <2> DEFINE s == SubSeq(q, 1, m)
  <2>1. DOMAIN s = 1..m
    BY <1>1
  <2>2. {s[i] : i \in DOMAIN s} = {q[i] : i \in 1..m}
    BY <1>1, <2>1, Zenon
  <2>3. Seg(q, 0, m) = {q[i] : i \in 1..m}
    BY DEF Seg
  <2> QED
    BY <2>2, <2>3, Zenon DEF ToSet
<1>4. ToSet(SubSeq(q, m + 1, Len(q))) \subseteq ToSet(q)
  BY <1>2 DEF ToSet
<1>5. Seg(q, 0, m) = Seg(q, 0, n) \cup Seg(q, n, m)
  BY DEF Seg
<1>6. Seg(q, 0, m) \subseteq ToSet(q) /\ ToSet(q) \subseteq Reqs
  BY DEF Seg, ToSet
<1> QED
  BY <1>1, <1>2, <1>3, <1>4, <1>5, <1>6

\* The members of a queue with another at its end.
LEMMA Joined ==
  ASSUME NEW q \in Seq(Reqs), NEW s \in Seq(Reqs)
  PROVE  /\ q \o s \in Seq(Reqs) /\ ToSet(q \o s) = ToSet(q) \cup ToSet(s)
         /\ \A r \in Reqs : Append(q, r) \in Seq(Reqs) /\ ToSet(Append(q, r)) = ToSet(q) \cup {r}
<1>1. q \o s \in Seq(Reqs) /\ Len(q \o s) = Len(q) + Len(s)
  OBVIOUS
<1>2. \A i \in 1..Len(q) : (q \o s)[i] = q[i]
  OBVIOUS
<1>3. \A i \in 1..Len(s) : (q \o s)[Len(q) + i] = s[i] /\ Len(q) + i \in 1..Len(q \o s)
  BY <1>1
<1>4. \A i \in 1..Len(q \o s) : i \in 1..Len(q) \/ (i - Len(q) \in 1..Len(s) /\ i = Len(q) + (i - Len(q)))
  BY <1>1
<1>5. ToSet(q \o s) = ToSet(q) \cup ToSet(s)
  <2>1. DOMAIN q = 1..Len(q) /\ DOMAIN s = 1..Len(s) /\ DOMAIN (q \o s) = 1..Len(q \o s)
    BY <1>1
  <2>2. ASSUME NEW x \in ToSet(q \o s) PROVE x \in ToSet(q) \cup ToSet(s)
    <3>1. PICK i \in 1..Len(q \o s) : x = (q \o s)[i]
      BY <2>1, <2>2, Zenon DEF ToSet
    <3>2. CASE i \in 1..Len(q)
      BY <1>2, <2>1, <3>1, <3>2, Zenon DEF ToSet
    <3>3. CASE i - Len(q) \in 1..Len(s) /\ i = Len(q) + (i - Len(q))
      <4>1. x = s[i - Len(q)]
        BY <1>3, <3>1, <3>3, Zenon
      <4> QED
        BY <2>1, <3>3, <4>1, Zenon DEF ToSet
    <3> QED
      BY <1>4, <3>2, <3>3, Zenon
  <2>3. ToSet(q) \subseteq ToSet(q \o s)
    BY <1>1, <1>2, <2>1 DEF ToSet
  <2>4. ToSet(s) \subseteq ToSet(q \o s)
    BY <1>1, <1>3, <2>1, Zenon DEF ToSet
  <2> QED
    BY <2>2, <2>3, <2>4, Zenon
<1>6. ASSUME NEW r \in Reqs
      PROVE  Append(q, r) \in Seq(Reqs) /\ ToSet(Append(q, r)) = ToSet(q) \cup {r}
  <2>1. /\ Append(q, r) \in Seq(Reqs) /\ Len(Append(q, r)) = Len(q) + 1
        /\ Append(q, r)[Len(q) + 1] = r
        /\ \A i \in 1..Len(q) : Append(q, r)[i] = q[i]
    OBVIOUS
  <2> QED
    BY <2>1 DEF ToSet
<1> QED
  BY <1>1, <1>5, <1>6
-----------------------------------------------------------------------------
(* One lemma per action.                                                   *)

state == <<conf, queue, grammar, finish, cache, ready, late, moved, sent, pc>>

\* The agreed counts are those of some rank, and at least those of every rank.
LEMMA MostOf ==
  ASSUME Typed, NEW q \in Seq(Reqs), \A k \in Ranks : ready[k] \in 0..Len(q)
  PROVE  /\ Most(ready) \in 0..Len(q) /\ Most(late) \in {0, 1}
         /\ \E j \in Ranks : Most(ready) = ready[j]
         /\ \A k \in Ranks : ready[k] <= Most(ready)
<1>1. Ranks # {}
  BY GrammarConstants DEF Typed, Ranks
<1> DEFINE S == {ready[j] : j \in Ranks}
           L == {late[j] : j \in Ranks}
<1>2. S \in SUBSET Nat /\ S # {} /\ \A x \in S : x <= Len(q)
  BY <1>1
<1>3. L \in SUBSET Nat /\ L # {} /\ \A x \in L : x <= 1
  <2>1. \A j \in Ranks : late[j] \in {0, 1}
    BY DEF Typed
  <2> QED BY <1>1, <2>1
<1>4. Len(q) \in Nat /\ 1 \in Nat
  OBVIOUS
<1>5. Max(S) \in S /\ \A y \in S : y <= Max(S)
  <2> HIDE DEF S
  <2> QED BY <1>2, <1>4, MaxNat, Zenon
<1>6. Max(L) \in L
  <2> HIDE DEF L
  <2> QED BY <1>3, <1>4, MaxNat
<1>7. Max(L) \in {0, 1}
  BY <1>6, Zenon DEF Typed
<1>8. Max(S) \in 0..Len(q) /\ \E j \in Ranks : Max(S) = ready[j]
  BY <1>5, Zenon
<1> QED
  BY <1>5, <1>7, <1>8, Zenon DEF Most

\* What is said of a rank does not change while its own variables do not, and the counts
\* do not once it has moved its requests.
LEMMA Frame ==
  ASSUME NEW k \in Ranks, NEW q, NEW mv, NEW f, NEW c, Along(k, q, mv, f, c),
         queue'[k] = queue[k], moved'[k] = moved[k], finish'[k] = finish[k],
         cache'[k] = cache[k], ready'[k] = ready[k], pc'[k] = pc[k],
         pc[k] = "moved" => Most(ready)' = Most(ready) /\ Most(late)' = Most(late)
  PROVE  Along(k, q, mv, f, c)'
<1>1. (ready[k] \in 0..Len(q))' /\ (\A r \in Seg(q, 0, ready[k]) : Outcome[Key[r]] # "none")'
  BY DEF Along
<1>2. (pc[k] = "recv" => AtRecv(k, q, mv, f, c))'
  BY DEF Along, AtRecv
<1>3. (pc[k] \in {"sync", "fill"} => Polled(k, q, mv, f, c))'
  BY DEF Along, Polled
<1>4. (pc[k] = "moved" => HasMoved(k, q, mv, f, c, Most(ready), Most(late)))'
  BY Zenon DEF Along, HasMoved
<1> QED
  BY <1>1, <1>2, <1>3, <1>4 DEF Along

\* The invariant depends on these variables only: a compilation may end at any time.
LEMMA Unchanged ==
  ASSUME IInv, UNCHANGED state
  PROVE  IInv'
<1>1. Typed'
  BY DEF IInv, Typed, state, Ranks
<1>2. Phases'
  BY DEF IInv, Phases, state, Ranks
<1>3. Settled'
  BY DEF IInv, Settled, Good, state, Ranks
<1>4. Together'
  <2>1. PICK q \in Seq(Reqs), mv \in Seq(Reqs), f \in SUBSET Reqs,
             c \in [Keys -> {"none", "valid", "invalid"}] : \A k \in Ranks : Along(k, q, mv, f, c)
    BY Zenon DEF IInv, Together
  <2>2. Ranks' = Ranks /\ Most(ready)' = Most(ready) /\ Most(late)' = Most(late)
    BY DEF state, Ranks, Most
  <2>3. ASSUME NEW k \in Ranks PROVE Along(k, q, mv, f, c)'
    BY <2>1, <2>2, Frame DEF state
  <2> QED
    BY <2>2, <2>3, Zenon DEF Together
<1> QED
  BY <1>1, <1>2, <1>3, <1>4 DEF IInv

\* All ranks begin with empty queues.
LEMMA InitHolds ==
  ASSUME Init
  PROVE  IInv
<1>1. Typed
  BY DEF Init, Typed, Ranks
<1>2. Phases
  BY DEF Init, Phases, Ranks
<1>3. Settled
  BY DEF Init, Settled, Good, ToSet, Ranks
<1>4. Together
  <2> DEFINE c == [g \in Keys |-> "none"]
  <2>1. /\ <<>> \in Seq(Reqs) /\ {} \in SUBSET Reqs
        /\ c \in [Keys -> {"none", "valid", "invalid"}]
    OBVIOUS
  <2>2. \A k \in Ranks : Along(k, <<>>, <<>>, {}, c)
    BY DEF Init, Along, AtRecv, Seg, Ranks
  <2> QED
    BY <2>1, <2>2, Zenon DEF Together
<1> QED
  BY <1>1, <1>2, <1>3, <1>4 DEF IInv

\* At the top of an iteration the ranks have the same queue, requests moved, aborts and cache.
LEMMA SameAtTop ==
  ASSUME IInv, AtTop
  PROVE  \E q, mv \in Seq(Reqs), f \in SUBSET Reqs, c \in [Keys -> {"none", "valid", "invalid"}] :
           \A k \in Ranks : AtRecv(k, q, mv, f, c)
BY Zenon DEF IInv, AtTop, Together, Along

\* A step to the top of an iteration after which the ranks agree.
LEMMA TogetherAtTop ==
  ASSUME NEW q \in Seq(Reqs), NEW mv \in Seq(Reqs), NEW f \in SUBSET Reqs,
         NEW c \in [Keys -> {"none", "valid", "invalid"}],
         AtTop', \A k \in Ranks' : AtRecv(k, q, mv, f, c)'
  PROVE  Together' /\ Phases'
<1>1. ASSUME NEW k \in Ranks' PROVE Along(k, q, mv, f, c)'
  BY DEF Along, AtRecv, AtTop, Seg
<1> QED
  BY <1>1, Zenon DEF Together, Phases, AtTop

\* handle_generate_request.
LEMMA HandleGenerateHolds ==
  ASSUME IInv, NEW r \in Reqs, HandleGenerate(r)
  PROVE  IInv'
<1>1. PICK q \in Seq(Reqs), mv \in Seq(Reqs), f \in SUBSET Reqs,
           c \in [Keys -> {"none", "valid", "invalid"}] : \A k \in Ranks : AtRecv(k, q, mv, f, c)
  BY SameAtTop, Zenon DEF HandleGenerate
<1> DEFINE x == c[Key[r]]
<1>2. /\ Ranks' = Ranks /\ pc' = pc /\ ready' = ready /\ late' = late /\ cache' = cache
      /\ conf' = conf /\ sent' = sent \cup {r} /\ r \notin sent
  BY DEF HandleGenerate, Ranks
<1>3. ASSUME NEW k \in Ranks
      PROVE  /\ queue'[k] = IF x = "none" THEN Append(q, r) ELSE q
             /\ moved'[k] = IF x = "none" THEN mv ELSE Append(mv, r)
             /\ finish'[k] = f \cup IF x = "invalid" THEN {r} ELSE {}
             /\ cache'[k] = c /\ ready'[k] = 0
  BY <1>1, <1>2 DEF AtRecv, HandleGenerate, Hit, Cached
<1>4. Key[r] \in Keys /\ x \in {"none", "valid", "invalid"}
  BY GrammarConstants
<1>5. ASSUME NEW k \in Ranks
      PROVE  /\ grammar'[k] \in [Reqs -> {"none", "future", "valid"}]
             /\ x = "valid" => grammar'[k][r] = "valid"
             /\ \A s \in Reqs \ {r} : grammar'[k][s] = grammar[k][s]
  <2>1. cache[k] = c /\ grammar[k] \in [Reqs -> {"none", "future", "valid"}]
    BY <1>1 DEF AtRecv, IInv, Typed
  <2>2. grammar'[k] = [grammar[k] EXCEPT ![r] = CASE x = "none" -> "future"
                     [] x = "valid" -> "valid"
                     [] x = "invalid" -> "none"]
    BY <2>1, Zenon DEF HandleGenerate, Cached
  <2> QED
    BY <1>4, <2>1, <2>2
<1> HIDE DEF x
<1>6. Together' /\ Phases'
  <2>1. AtTop'
    BY <1>2 DEF AtTop, HandleGenerate
  <2>2. CASE x = "none"
    <3>1. \A k \in Ranks' : AtRecv(k, Append(q, r), mv, f, c)'
      BY <1>2, <1>3, <2>2 DEF AtRecv
    <3> QED
      BY <2>1, <3>1, Joined, TogetherAtTop, Zenon
  <2>3. CASE x = "valid"
    <3>1. \A k \in Ranks' : AtRecv(k, q, Append(mv, r), f, c)'
      BY <1>2, <1>3, <2>3 DEF AtRecv
    <3> QED
      BY <2>1, <3>1, Joined, TogetherAtTop, Zenon
  <2>4. CASE x = "invalid"
    <3>1. \A k \in Ranks' : AtRecv(k, q, Append(mv, r), f \cup {r}, c)'
      BY <1>2, <1>3, <2>4 DEF AtRecv
    <3>2. f \cup {r} \in SUBSET Reqs
      OBVIOUS
    <3> QED
      BY <2>1, <3>1, <3>2, Joined, TogetherAtTop, Zenon
  <2> QED
    BY <1>4, <2>2, <2>3, <2>4
<1>7. Typed'
  <2>1. \A s \in Seq(Reqs) : Append(s, r) \in Seq(Reqs)
    OBVIOUS
  <2>2. ASSUME NEW k \in Ranks PROVE queue'[k] \in Seq(Reqs) /\ moved'[k] \in Seq(Reqs)
    BY <1>3, <2>1, Zenon
  <2>3. ASSUME NEW k \in Ranks PROVE finish'[k] \in SUBSET Reqs
    BY <1>3
  <2>4. queue' \in [Ranks -> Seq(Reqs)]
    <3>1. queue' = [k \in Ranks |-> IF Hit(k, r) THEN queue[k] ELSE Append(queue[k], r)]
      BY DEF HandleGenerate
    <3> QED BY <2>2, <3>1
  <2>5. moved' \in [Ranks -> Seq(Reqs)]
    <3>1. moved' = [k \in Ranks |-> IF Hit(k, r) THEN Append(moved[k], r) ELSE moved[k]]
      BY DEF HandleGenerate
    <3> QED BY <2>2, <3>1
  <2>6. finish' \in [Ranks -> SUBSET Reqs]
    BY <2>3 DEF HandleGenerate
  <2>7. grammar' \in [Ranks -> [Reqs -> {"none", "future", "valid"}]]
    BY <1>5, Zenon DEF HandleGenerate
  <2> QED
    BY <1>2, <2>4, <2>5, <2>6, <2>7 DEF IInv, Typed
<1>8. Settled'
  <2>1. ASSUME NEW k \in Ranks
        PROVE  /\ ToSet(queue'[k]) \subseteq sent' /\ ToSet(moved'[k]) \subseteq sent'
               /\ \A s \in ToSet(moved'[k]) \ finish'[k] : Good(k, s)'
               /\ pc'[k] \notin {"sync", "fill"}
               /\ \A g \in Keys : cache'[k][g] = "valid" => Outcome[g] = "valid"
    <3>1. /\ queue[k] = q /\ moved[k] = mv /\ finish[k] = f /\ cache[k] = c
          /\ ToSet(q) \subseteq sent /\ ToSet(mv) \subseteq sent
          /\ \A s \in ToSet(mv) \ f : Good(k, s)
          /\ \A g \in Keys : c[g] = "valid" => Outcome[g] = "valid"
      BY <1>1 DEF AtRecv, IInv, Settled
    <3>2. ToSet(queue'[k]) \subseteq ToSet(q) \cup {r}
      BY <1>3, Joined
    <3>3. ToSet(moved'[k]) = IF x = "none" THEN ToSet(mv) ELSE ToSet(mv) \cup {r}
      BY <1>3, Joined, Zenon
    <3>4. ASSUME NEW s \in ToSet(moved'[k]) \ finish'[k] PROVE Good(k, s)'
      <4>1. CASE s = r
        <5>1. x = "valid"
          BY <1>2, <1>3, <1>4, <3>1, <3>3, <3>4, <4>1
        <5> QED
          BY <1>4, <1>5, <3>1, <4>1, <5>1 DEF Good, x
      <4>2. CASE s # r
        <5>1. s \in ToSet(mv) \ f /\ s \in Reqs
          BY <1>3, <3>1, <3>3, <3>4, <4>2, Pieces DEF IInv, Typed
        <5> QED
          BY <1>5, <3>1, <4>2, <5>1 DEF Good
      <4> QED
        BY <4>1, <4>2
    <3>5. pc'[k] \notin {"sync", "fill"}
      BY <1>2 DEF HandleGenerate, AtTop
    <3> QED
      BY <1>2, <1>3, <3>1, <3>2, <3>3, <3>4, <3>5
  <2> QED
    BY <1>2, <2>1 DEF Settled
<1> QED
  BY <1>6, <1>7, <1>8 DEF IInv

\* abort_request: the ranks have the same queue, so the request is aborted on all of them.
LEMMA AbortRequestHolds ==
  ASSUME IInv, NEW r \in Reqs, AbortRequest(r)
  PROVE  IInv'
<1>1. PICK q \in Seq(Reqs), mv \in Seq(Reqs), f \in SUBSET Reqs,
           c \in [Keys -> {"none", "valid", "invalid"}] : \A k \in Ranks : AtRecv(k, q, mv, f, c)
  BY SameAtTop, Zenon DEF AbortRequest
<1>2. /\ Ranks' = Ranks /\ conf' = conf /\ queue' = queue /\ cache' = cache /\ ready' = ready
      /\ late' = late /\ moved' = moved /\ sent' = sent /\ pc' = pc
  BY DEF AbortRequest, Ranks
<1>3. \A k \in Ranks : r \in ToSet(queue[k]) /\ r \notin finish[k]
  BY <1>1 DEF AbortRequest, AtRecv
<1>4. ASSUME NEW k \in Ranks
      PROVE  /\ finish'[k] = f \cup {r}
             /\ grammar'[k] \in [Reqs -> {"none", "future", "valid"}]
             /\ \A s \in Reqs \ {r} : grammar'[k][s] = grammar[k][s]
  <2>1. finish'[k] = f \cup {r} /\ grammar'[k] = [grammar[k] EXCEPT ![r] = "none"]
    BY <1>1, <1>3 DEF AbortRequest, AtRecv
  <2>2. grammar[k] \in [Reqs -> {"none", "future", "valid"}]
    BY DEF IInv, Typed
  <2> QED
    BY <2>1, <2>2
<1>5. Together' /\ Phases'
  <2>1. AtTop'
    BY <1>2 DEF AbortRequest, AtTop
  <2>2. \A k \in Ranks' : AtRecv(k, q, mv, f \cup {r}, c)'
    BY <1>1, <1>2, <1>4 DEF AtRecv
  <2>3. f \cup {r} \in SUBSET Reqs
    OBVIOUS
  <2> QED
    BY <2>1, <2>2, <2>3, TogetherAtTop, Zenon
<1>6. Typed'
  <2>1. finish' \in [Ranks -> SUBSET Reqs]
    BY <1>4 DEF AbortRequest
  <2>2. grammar' \in [Ranks -> [Reqs -> {"none", "future", "valid"}]]
    BY <1>4 DEF AbortRequest
  <2> QED
    BY <1>2, <2>1, <2>2 DEF IInv, Typed
<1>7. Settled'
  <2>1. ASSUME NEW k \in Ranks, NEW s \in ToSet(moved'[k]) \ finish'[k] PROVE Good(k, s)'
    <3>1. s \in ToSet(moved[k]) \ finish[k] /\ s # r
      BY <1>1, <1>2, <1>4, <2>1 DEF AtRecv
    <3>2. Good(k, s)
      BY <3>1 DEF IInv, Settled
    <3>3. s \in Reqs
      BY <3>1 DEF IInv, Typed, Settled
    <3>4. grammar'[k][s] = grammar[k][s]
      BY <1>4, <3>1, <3>3
    <3> QED
      BY <3>2, <3>4 DEF Good
  <2>2. \A k \in Ranks : pc'[k] \notin {"sync", "fill"}
    BY <1>2 DEF AbortRequest, AtTop
  <2> QED
    BY <1>2, <2>1, <2>2 DEF IInv, Settled
<1> QED
  BY <1>5, <1>6, <1>7 DEF IInv

\* flush_cache.
LEMMA FlushCacheHolds ==
  ASSUME IInv, FlushCache
  PROVE  IInv'
<1>1. PICK q \in Seq(Reqs), mv \in Seq(Reqs), f \in SUBSET Reqs,
           c \in [Keys -> {"none", "valid", "invalid"}] : \A k \in Ranks : AtRecv(k, q, mv, f, c)
  BY SameAtTop, Zenon DEF FlushCache
<1> DEFINE e == [g \in Keys |-> "none"]
<1>2. /\ Ranks' = Ranks /\ conf' = conf /\ queue' = queue /\ grammar' = grammar
      /\ finish' = finish /\ ready' = ready /\ late' = late /\ moved' = moved /\ sent' = sent
      /\ pc' = pc /\ cache' = [k \in Ranks |-> e]
  BY DEF FlushCache, Ranks
<1>3. e \in [Keys -> {"none", "valid", "invalid"}] /\ \A g \in Keys : e[g] = "none"
  OBVIOUS
<1> HIDE DEF e
<1>4. Together' /\ Phases'
  <2>1. AtTop'
    BY <1>2 DEF FlushCache, AtTop
  <2>2. \A k \in Ranks' : AtRecv(k, q, mv, f, e)'
    BY <1>1, <1>2 DEF AtRecv
  <2> QED
    BY <1>3, <2>1, <2>2, TogetherAtTop, Zenon
<1>5. Typed'
  BY <1>2, <1>3 DEF IInv, Typed
<1>6. Settled'
  <2>1. \A k \in Ranks, g \in Keys : cache'[k][g] = "none"
    BY <1>2, <1>3
  <2>2. \A k \in Ranks : pc'[k] \notin {"sync", "fill"}
    BY <1>2 DEF FlushCache, AtTop
  <2> QED
    BY <1>2, <2>1, <2>2 DEF IInv, Settled, Good
<1> QED
  BY <1>4, <1>5, <1>6 DEF IInv

\* An exception on one rank.
LEMMA DieHolds ==
  ASSUME IInv, NEW k \in Ranks, NEW why, Die(k, why)
  PROVE  IInv'
<1>1. /\ Ranks' = Ranks /\ conf' = conf /\ queue' = queue /\ grammar' = grammar
      /\ finish' = finish /\ cache' = cache /\ ready' = ready /\ late' = late
      /\ moved' = moved /\ sent' = sent /\ pc' = [pc EXCEPT ![k] = "dead"]
  BY DEF Die, Ranks
<1>2. pc'[k] = "dead" /\ \A j \in Ranks \ {k} : pc'[j] = pc[j]
  BY <1>1 DEF IInv, Typed
<1>3. Typed'
  BY <1>1 DEF IInv, Typed
<1>4. Phases'
  BY <1>1, <1>2 DEF IInv, Phases
<1>5. Settled'
  BY <1>1, <1>2 DEF IInv, Settled, Good
<1>6. Together'
  <2>1. PICK q \in Seq(Reqs), mv \in Seq(Reqs), f \in SUBSET Reqs,
             c \in [Keys -> {"none", "valid", "invalid"}] : \A j \in Ranks : Along(j, q, mv, f, c)
    BY Zenon DEF IInv, Together
  <2>2. Most(ready)' = Most(ready) /\ Most(late)' = Most(late)
    BY <1>1 DEF Most
  <2>3. ASSUME NEW j \in Ranks, j # k PROVE Along(j, q, mv, f, c)'
    BY <1>1, <1>2, <2>1, <2>2, <2>3, Frame
  <2>4. Along(k, q, mv, f, c)'
    BY <1>1, <1>2, <2>1 DEF Along
  <2> QED
    BY <1>1, <2>3, <2>4, Zenon DEF Together
<1> QED
  BY <1>3, <1>4, <1>5, <1>6 DEF IInv

\* The ready prefix of a queue: results of supported grammars only.
LEMMA ReadyLenIs ==
  ASSUME Typed, NEW k \in Ranks
  PROVE  /\ ReadyLen(k) \in 0..Len(queue[k])
         /\ \A r \in Seg(queue[k], 0, ReadyLen(k)) : Outcome[Key[r]] # "none"
<1> DEFINE ok(r) == \/ Finished(k, r)
                    \/ grammar[k][r] = "future" /\ r \in done[k] /\ Outcome[Key[r]] # "none"
           S == {n \in 0..Len(queue[k]) : \A i \in 1..n : ok(queue[k][i])}
<1>1. Len(queue[k]) \in Nat
  BY DEF Typed
<1>2. S \in SUBSET Nat /\ 0 \in S /\ \A x \in S : x <= Len(queue[k])
  BY <1>1
<1>3. ReadyLen(k) = Max(S)
  BY DEF ReadyLen
<1>4. Max(S) \in S
  <2> HIDE DEF S
  <2> QED BY <1>1, <1>2, MaxNat, Zenon
<1>5. ReadyLen(k) \in 0..Len(queue[k]) /\ \A i \in 1..ReadyLen(k) : ok(queue[k][i])
  BY <1>3, <1>4, Zenon
<1> QED
  BY <1>5 DEF Seg, Finished

\* What taking the results of some requests does to a rank, and to no other.
LEMMA ResolvedIs ==
  ASSUME Typed, NEW k \in Ranks, NEW S \in SUBSET Reqs, Resolved(k, S)
  PROVE  /\ finish' \in [Ranks -> SUBSET Reqs]
         /\ cache' \in [Ranks -> [Keys -> {"none", "valid", "invalid"}]]
         /\ grammar' \in [Ranks -> [Reqs -> {"none", "future", "valid"}]]
         /\ finish'[k] = finish[k] \cup Invalid(S) /\ cache'[k] = After(cache[k], S)
         /\ \A r \in Reqs : grammar'[k][r] = IF r \notin S THEN grammar[k][r]
                                             ELSE IF Outcome[Key[r]] = "valid" THEN "valid" ELSE "none"
         /\ \A j \in Ranks \ {k} :
              finish'[j] = finish[j] /\ cache'[j] = cache[j] /\ grammar'[j] = grammar[j]
<1>1. /\ grammar[k] \in [Reqs -> {"none", "future", "valid"}] /\ finish[k] \in SUBSET Reqs
      /\ cache[k] \in [Keys -> {"none", "valid", "invalid"}]
  BY DEF Typed
<1> DEFINE G == [r \in Reqs |-> IF r \notin S THEN grammar[k][r]
                                ELSE IF Outcome[Key[r]] = "valid" THEN "valid" ELSE "none"]
<1>2. grammar' = [grammar EXCEPT ![k] = G]
  BY DEF Resolved, Finished
<1>3. finish' = [finish EXCEPT ![k] = finish[k] \cup Invalid(S)]
  BY DEF Resolved, Invalid
<1>4. cache' = [cache EXCEPT ![k] = After(cache[k], S)]
  BY DEF Resolved, After, Finished
<1>5. G \in [Reqs -> {"none", "future", "valid"}]
  BY <1>1
<1>6. After(cache[k], S) \in [Keys -> {"none", "valid", "invalid"}]
  BY <1>1, GrammarConstants DEF After
<1>7. finish[k] \cup Invalid(S) \in SUBSET Reqs
  BY <1>1 DEF Invalid
<1>8. \A r \in Reqs : G[r] = IF r \notin S THEN grammar[k][r]
                             ELSE IF Outcome[Key[r]] = "valid" THEN "valid" ELSE "none"
  OBVIOUS
<1> HIDE DEF G
<1>9. grammar' \in [Ranks -> [Reqs -> {"none", "future", "valid"}]] /\ grammar'[k] = G
      /\ \A j \in Ranks \ {k} : grammar'[j] = grammar[j]
  BY <1>2, <1>5 DEF Typed
<1>10. finish' \in [Ranks -> SUBSET Reqs] /\ finish'[k] = finish[k] \cup Invalid(S)
       /\ \A j \in Ranks \ {k} : finish'[j] = finish[j]
  BY <1>3, <1>7 DEF Typed
<1>11. cache' \in [Ranks -> [Keys -> {"none", "valid", "invalid"}]]
       /\ cache'[k] = After(cache[k], S) /\ \A j \in Ranks \ {k} : cache'[j] = cache[j]
  BY <1>4, <1>6 DEF Typed
<1> QED
  BY <1>8, <1>9, <1>10, <1>11

\* Requests that were settled stay so when results are taken, and those of supported
\* grammars become so.
LEMMA ResolvedGood ==
  ASSUME Typed, NEW k \in Ranks, NEW S \in SUBSET Reqs, Resolved(k, S)
  PROVE  /\ \A r \in Reqs : r \notin finish'[k] /\ Good(k, r) => Good(k, r)'
         /\ \A r \in S : Outcome[Key[r]] # "none" /\ r \notin finish'[k] => Good(k, r)'
         /\ (\A g \in Keys : cache[k][g] = "valid" => Outcome[g] = "valid")
              => \A g \in Keys : cache'[k][g] = "valid" => Outcome[g] = "valid"
<1>1. \A r \in Reqs : Outcome[Key[r]] \in {"none", "valid", "invalid"}
  BY GrammarConstants
<1>2. \A r \in S : r \notin finish'[k] => Outcome[Key[r]] # "invalid"
  BY ResolvedIs DEF Invalid
<1>3. \A r \in Reqs : grammar'[k][r] = IF r \notin S THEN grammar[k][r]
                                       ELSE IF Outcome[Key[r]] = "valid" THEN "valid" ELSE "none"
  BY ResolvedIs
<1>4. \A r \in Reqs : Good(k, r) => Good(k, r)'
  BY <1>3 DEF Good
<1>5. \A r \in S : Outcome[Key[r]] # "none" /\ r \notin finish'[k] => Good(k, r)'
  BY <1>1, <1>2, <1>3 DEF Good
<1>6. cache'[k] = After(cache[k], S)
  BY ResolvedIs
<1> QED
  BY <1>4, <1>5, <1>6 DEF After

\* A rank polls its queue: it resolves its ready requests, others notice nothing.
LEMMA PollHolds ==
  ASSUME IInv, NEW k \in Ranks, Poll(k)
  PROVE  IInv'
<1> DEFINE n == ReadyLen(k)
           S == Seg(queue[k], 0, n)
<1>1. CASE \E why : Die(k, why)
  BY <1>1, DieHolds
<1>2. CASE /\ Resolved(k, S) /\ ready' = [ready EXCEPT ![k] = n]
           /\ \E t \in {0, 1} : late' = [late EXCEPT ![k] = t]
           /\ pc' = [pc EXCEPT ![k] = "sync"] /\ pc[k] = "recv"
           /\ UNCHANGED <<conf, queue, done, moved, sent, err>>
  <2>1. n \in 0..Len(queue[k]) /\ \A r \in S : Outcome[Key[r]] # "none"
    BY ReadyLenIs DEF IInv
  <2>2. queue[k] \in Seq(Reqs) /\ n \in Nat
    BY <2>1 DEF IInv, Typed
  <2>3. S \in SUBSET Reqs
    BY <2>1, <2>2 DEF Seg
  <2> HIDE DEF n, S
  <2>4. /\ pc'[k] = "sync" /\ ready'[k] = n
        /\ \A j \in Ranks \ {k} : pc'[j] = pc[j] /\ ready'[j] = ready[j]
        /\ Ranks' = Ranks /\ queue' = queue /\ moved' = moved /\ sent' = sent
    BY <1>2 DEF IInv, Typed, Ranks
  <2>5. Typed'
    <3>1. /\ ready' \in [Ranks -> Nat] /\ late' \in [Ranks -> {0, 1}]
          /\ pc' \in [Ranks -> {"recv", "sync", "fill", "moved", "dead"}]
      BY <1>2, <2>2 DEF IInv, Typed
    <3>2. /\ finish' \in [Ranks -> SUBSET Reqs]
          /\ cache' \in [Ranks -> [Keys -> {"none", "valid", "invalid"}]]
          /\ grammar' \in [Ranks -> [Reqs -> {"none", "future", "valid"}]]
      BY <1>2, <2>3, ResolvedIs DEF IInv
    <3> QED
      BY <1>2, <2>4, <3>1, <3>2 DEF IInv, Typed
  <2>6. \A j \in Ranks : pc[j] \notin {"fill", "moved"}
    BY <1>2 DEF IInv, Phases
  <2>7. Phases'
    BY <2>4, <2>6 DEF Phases
  <2>8. \A j \in Ranks \ {k} :
          finish'[j] = finish[j] /\ cache'[j] = cache[j] /\ grammar'[j] = grammar[j]
    BY <1>2, <2>3, ResolvedIs DEF IInv
  <2>9. finish'[k] = finish[k] \cup Invalid(S) /\ cache'[k] = After(cache[k], S)
    BY <1>2, <2>3, ResolvedIs DEF IInv
  <2>10. Together'
    <3>1. PICK q \in Seq(Reqs), mv \in Seq(Reqs), f \in SUBSET Reqs,
               c \in [Keys -> {"none", "valid", "invalid"}] : \A j \in Ranks : Along(j, q, mv, f, c)
      BY Zenon DEF IInv, Together
    <3>2. ASSUME NEW j \in Ranks, j # k PROVE Along(j, q, mv, f, c)'
      BY <2>4, <2>6, <2>8, <3>1, <3>2, Frame
    <3>3. Along(k, q, mv, f, c)'
      <4>1. AtRecv(k, q, mv, f, c)
        BY <1>2, <3>1 DEF Along
      <4>2. Seg(q, 0, ready'[k]) = S
        BY <2>4, <4>1 DEF AtRecv, S
      <4>3. Polled(k, q, mv, f, c)'
        BY <2>4, <2>9, <4>1, <4>2 DEF AtRecv, Polled
      <4> QED
        BY <2>1, <2>4, <4>1, <4>2, <4>3 DEF Along, AtRecv
    <3> QED
      BY <2>4, <3>2, <3>3, Zenon DEF Together
  <2>11. Settled'
    <3>1. ASSUME NEW j \in Ranks, j # k
          PROVE  /\ ToSet(queue'[j]) \subseteq sent' /\ ToSet(moved'[j]) \subseteq sent'
                 /\ \A r \in ToSet(moved'[j]) \ finish'[j] : Good(j, r)'
                 /\ pc'[j] \in {"sync", "fill"} =>
                      \A r \in Seg(queue'[j], 0, ready'[j]) \ finish'[j] : Good(j, r)'
                 /\ \A g \in Keys : cache'[j][g] = "valid" => Outcome[g] = "valid"
      BY <2>4, <2>8, <3>1 DEF IInv, Settled, Good
    <3>2. ASSUME NEW r \in ToSet(moved'[k]) \ finish'[k] PROVE Good(k, r)'
      <4>1. r \in ToSet(moved[k]) \ finish[k] /\ r \in Reqs /\ Good(k, r)
        BY <2>4, <2>9 DEF IInv, Settled, Typed
      <4> QED
        BY <1>2, <2>3, <4>1, ResolvedGood DEF IInv
    <3>3. \A r \in Seg(queue'[k], 0, ready'[k]) \ finish'[k] : Good(k, r)'
      <4>1. Seg(queue'[k], 0, ready'[k]) = S
        BY <2>4 DEF S
      <4> QED
        BY <1>2, <2>1, <2>3, <4>1, ResolvedGood DEF IInv
    <3>4. \A g \in Keys : cache'[k][g] = "valid" => Outcome[g] = "valid"
      BY <1>2, <2>3, ResolvedGood DEF IInv, Settled
    <3>5. ToSet(queue'[k]) \subseteq sent' /\ ToSet(moved'[k]) \subseteq sent'
      BY <2>4 DEF IInv, Settled
    <3> QED
      BY <2>4, <3>1, <3>2, <3>3, <3>4, <3>5 DEF Settled
  <2> QED
    BY <2>5, <2>7, <2>10, <2>11 DEF IInv
<1> QED
  BY <1>1, <1>2, Zenon DEF Poll, Segment, Seg

\* The reduction: all ranks go on together.
LEMMA AllReduceHolds ==
  ASSUME IInv, AllReduce
  PROVE  IInv'
<1>1. /\ Ranks' = Ranks /\ conf' = conf /\ queue' = queue /\ grammar' = grammar
      /\ finish' = finish /\ cache' = cache /\ ready' = ready /\ late' = late
      /\ moved' = moved /\ sent' = sent /\ pc' = [k \in Ranks |-> "fill"]
      /\ \A k \in Ranks : pc[k] = "sync"
  BY DEF AllReduce, Ranks
<1>2. Typed'
  BY <1>1 DEF IInv, Typed
<1>3. Phases'
  BY <1>1 DEF Phases
<1>4. Settled'
  BY <1>1 DEF IInv, Settled, Good
<1>5. Together'
  <2>1. PICK q \in Seq(Reqs), mv \in Seq(Reqs), f \in SUBSET Reqs,
             c \in [Keys -> {"none", "valid", "invalid"}] : \A j \in Ranks : Along(j, q, mv, f, c)
    BY Zenon DEF IInv, Together
  <2>2. ASSUME NEW j \in Ranks PROVE Along(j, q, mv, f, c)'
    BY <1>1, <2>1 DEF Along, Polled
  <2> QED
    BY <1>1, <2>2, Zenon DEF Together
<1> QED
  BY <1>2, <1>3, <1>4, <1>5 DEF IInv

\* Results taken in two parts.
LEMMA AfterTwice ==
  ASSUME NEW c, NEW A, NEW B
  PROVE  After(After(c, A), B) = After(c, A \cup B)
BY DEF After

\* What MoveReady does to a rank that survives it, with m agreed ready and t late requests:
\* the results it lacked are taken, or the head behind its own is rejected.
MovesWith(k, m, t) ==
  /\ moved' = [moved EXCEPT ![k] = @ \o SubSeq(queue[k], 1, m + t)]
  /\ queue' = [queue EXCEPT ![k] = SubSeq(queue[k], m + t + 1, Len(queue[k]))]
  /\ pc' = [pc EXCEPT ![k] = "moved"] /\ pc[k] = "fill"
  /\ UNCHANGED <<conf, polls, done, ready, late, sent>>
TakesRest(k, m) == Resolved(k, Seg(queue[k], ready[k], m))
RejectsNext(k, m) ==
  LET r == queue[k][ready[k] + 1]
  IN  /\ ready[k] + 1 <= Len(queue[k]) /\ ready[k] >= m
      /\ grammar' = [grammar EXCEPT ![k][r] = "none"]
      /\ finish' = [finish EXCEPT ![k] = @ \cup {r}]
      /\ cache' = [cache EXCEPT ![k][Key[r]] = "invalid"]

\* MoveReady is one of these or ends the rank.
LEMMA MoveReadyCases ==
  ASSUME IInv, NEW k \in Ranks, MoveReady(k)
  PROVE  \/ \E why : Die(k, why)
         \/ MovesWith(k, Most(ready), Most(late)) /\ Most(late) = 0 /\ TakesRest(k, Most(ready))
         \/ MovesWith(k, Most(ready), Most(late)) /\ Most(late) = 1 /\ RejectsNext(k, Most(ready))
<1>1. PICK q \in Seq(Reqs) : queue[k] = q /\ \A j \in Ranks : ready[j] \in 0..Len(q)
  BY Zenon DEF IInv, Together, Along, Polled, MoveReady
<1>2. Most(ready) \in 0..Len(q) /\ Most(late) \in {0, 1}
  BY <1>1, MostOf DEF IInv
<1>3. Agreed(k, ready) = Most(ready) /\ Agreed(k, late) = Most(late)
  BY DEF Agreed, Most
<1>4. ready[k] \in Nat /\ Len(queue[k]) \in Nat
  BY <1>1
<1> DEFINE m == Most(ready)
           t == Most(late)
<1>5. CASE t > 0 /\ ready[k] + 1 > Len(queue[k])
  <2>1. Die(k, "no such request")
    BY <1>3, <1>5, Zenon DEF MoveReady
  <2> QED
    BY <2>1, Zenon
<1>6. CASE t > 0 /\ ready[k] + 1 <= Len(queue[k]) /\ ready[k] < m
  <2>1. /\ ~(Agreed(k, late) > 0 /\ ready[k] + 1 > Len(queue[k]))
        /\ Agreed(k, late) > 0 /\ ready[k] < Agreed(k, ready)
    BY <1>3, <1>4, <1>6
  <2>2. Die(k, "not a future")
    BY <2>1, Zenon DEF MoveReady
  <2> QED
    BY <2>2, Zenon
<1>7. CASE t = 0
  <2>1. ~(Agreed(k, late) > 0) /\ Agreed(k, late) = 0
    BY <1>3, <1>7
  <2>2. /\ Resolved(k, Segment(k, ready[k], Agreed(k, ready)))
        /\ moved' = [moved EXCEPT ![k] = @ \o SubSeq(queue[k], 1, Agreed(k, ready) + Agreed(k, late))]
        /\ queue' = [queue EXCEPT ![k] = Left(k, Agreed(k, ready) + Agreed(k, late))]
        /\ pc' = [pc EXCEPT ![k] = "moved"] /\ pc[k] = "fill"
        /\ UNCHANGED <<conf, polls, done, ready, late, sent, err>>
    BY <2>1, Zenon DEF MoveReady
  <2>3. MovesWith(k, m, t)
    BY <1>3, <2>2 DEF MovesWith, Left
  <2>4. TakesRest(k, m)
    BY <1>3, <2>2 DEF TakesRest, Segment, Seg
  <2> QED
    BY <1>7, <2>3, <2>4
<1>8. CASE t = 1 /\ ready[k] + 1 <= Len(queue[k]) /\ ready[k] >= m
  <2>1. ~(t > 0 /\ ready[k] + 1 > Len(queue[k])) /\ ~(t > 0 /\ ready[k] < m) /\ t # 0
    BY <1>2, <1>4, <1>8
  <2>2. MovesWith(k, m, t)
    BY <1>3, <2>1, Zenon DEF MoveReady, MovesWith, Left
  <2>3. RejectsNext(k, m)
    BY <1>3, <1>8, <2>1, Zenon DEF MoveReady, RejectsNext
  <2> QED
    BY <1>8, <2>2, <2>3
<1> QED
  BY <1>2, <1>4, <1>5, <1>6, <1>7, <1>8

\* What a rank's step does to its state when m requests and t late ones are agreed on.
MovesTo(k, q, f, c, m, t) ==
  /\ m + t <= Len(q)
  /\ finish' \in [Ranks -> SUBSET Reqs]
  /\ cache' \in [Ranks -> [Keys -> {"none", "valid", "invalid"}]]
  /\ grammar' \in [Ranks -> [Reqs -> {"none", "future", "valid"}]]
  /\ finish'[k] = f \cup Invalid(Seg(q, 0, m)) \cup Rejected(q, m, t)
  /\ cache'[k] = CacheMoved(q, c, m, t)
  /\ \A j \in Ranks \ {k} :
       finish'[j] = finish[j] /\ cache'[j] = cache[j] /\ grammar'[j] = grammar[j]
  /\ \A r \in (ToSet(moved[k]) \cup ToSet(SubSeq(q, 1, m + t))) \ finish'[k] : Good(k, r)'
  /\ \A g \in Keys : cache'[k][g] = "valid" => Outcome[g] = "valid"

\* The rank before it: its own ready requests are resolved, and m are agreed on.
Before(k, q, f, c, m) ==
  /\ queue[k] = q /\ ready[k] \in 0..m /\ pc[k] = "fill"
  /\ finish[k] = f \cup Invalid(Seg(q, 0, ready[k]))
  /\ cache[k] = After(c, Seg(q, 0, ready[k]))
  /\ \A r \in Seg(q, 0, m) : Outcome[Key[r]] # "none"

\* What the invariant says of the requests such a rank has resolved.
LEMMA GoodBefore ==
  ASSUME IInv, NEW k \in Ranks, NEW q \in Seq(Reqs), NEW f, NEW c, NEW m \in 0..Len(q),
         Before(k, q, f, c, m)
  PROVE  /\ \A r \in (ToSet(moved[k]) \cup Seg(q, 0, ready[k])) \ finish[k] : r \in Reqs /\ Good(k, r)
         /\ \A g \in Keys : cache[k][g] = "valid" => Outcome[g] = "valid"
<1>1. queue[k] = q /\ ready[k] \in 0..m /\ pc[k] = "fill"
  BY DEF Before
<1>2. /\ \A r \in ToSet(moved[k]) \ finish[k] : Good(k, r)
      /\ \A r \in Seg(q, 0, ready[k]) \ finish[k] : Good(k, r)
      /\ \A g \in Keys : cache[k][g] = "valid" => Outcome[g] = "valid"
  BY <1>1 DEF IInv, Settled
<1>3. Seg(q, 0, ready[k]) \subseteq Reqs
  <2>1. ready[k] \in 0..Len(q)
    BY <1>1
  <2> QED
    BY <2>1, Pieces
<1>4. ToSet(moved[k]) \subseteq Reqs
  BY DEF IInv, Typed, Settled
<1> QED
  BY <1>2, <1>3, <1>4

\* The results that others had and this rank lacked are taken.
LEMMA TakesRestAs ==
  ASSUME IInv, NEW k \in Ranks, NEW q \in Seq(Reqs), NEW f \in SUBSET Reqs,
         NEW c \in [Keys -> {"none", "valid", "invalid"}], NEW m \in 0..Len(q),
         Before(k, q, f, c, m), TakesRest(k, m)
  PROVE  MovesTo(k, q, f, c, m, 0)
<1> DEFINE S == Seg(q, ready[k], m)
<1>1. queue[k] = q /\ ready[k] \in 0..m
  BY DEF Before
<1>2. /\ Seg(q, 0, m) = Seg(q, 0, ready[k]) \cup S /\ Seg(q, 0, m) \subseteq Reqs
      /\ ToSet(SubSeq(q, 1, m)) = Seg(q, 0, m)
  <2>1. ready[k] \in 0..Len(q) /\ m \in ready[k]..Len(q)
    BY <1>1
  <2> QED
    BY <2>1, Pieces
<1>3. Resolved(k, S) /\ S \in SUBSET Reqs
  BY <1>1, <1>2 DEF TakesRest
<1> HIDE DEF S
<1>4. /\ finish' \in [Ranks -> SUBSET Reqs]
      /\ cache' \in [Ranks -> [Keys -> {"none", "valid", "invalid"}]]
      /\ grammar' \in [Ranks -> [Reqs -> {"none", "future", "valid"}]]
      /\ finish'[k] = finish[k] \cup Invalid(S) /\ cache'[k] = After(cache[k], S)
      /\ \A j \in Ranks \ {k} :
           finish'[j] = finish[j] /\ cache'[j] = cache[j] /\ grammar'[j] = grammar[j]
  BY <1>3, ResolvedIs DEF IInv
<1>5. Rejected(q, m, 0) = {} /\ m + 0 = m
  BY DEF Rejected
<1>6. finish'[k] = f \cup Invalid(Seg(q, 0, m)) \cup Rejected(q, m, 0)
  <2>1. Invalid(Seg(q, 0, m)) = Invalid(Seg(q, 0, ready[k])) \cup Invalid(S)
    BY <1>2 DEF Invalid
  <2>2. finish[k] = f \cup Invalid(Seg(q, 0, ready[k]))
    BY DEF Before
  <2> QED
    BY <1>4, <1>5, <2>1, <2>2
<1>7. cache'[k] = CacheMoved(q, c, m, 0)
  <2>1. cache[k] = After(c, Seg(q, 0, ready[k]))
    BY DEF Before
  <2>2. cache'[k] = After(c, Seg(q, 0, m))
    BY <1>2, <1>4, <2>1, AfterTwice
  <2>3. CacheMoved(q, c, m, 0) = [g \in Keys |-> After(c, Seg(q, 0, m))[g]]
    BY <1>5 DEF CacheMoved
  <2>4. After(c, Seg(q, 0, m)) = [g \in Keys |-> After(c, Seg(q, 0, m))[g]]
    BY DEF After
  <2> QED
    BY <2>2, <2>3, <2>4
<1>8. ASSUME NEW r \in (ToSet(moved[k]) \cup ToSet(SubSeq(q, 1, m + 0))) \ finish'[k]
      PROVE  Good(k, r)'
  <2>1. r \in ToSet(moved[k]) \cup Seg(q, 0, ready[k]) \cup S /\ r \notin finish[k]
    BY <1>2, <1>4, <1>5, <1>8
  <2>2. CASE r \in S
    <3>1. Outcome[Key[r]] # "none"
      BY <1>2, <2>2 DEF Before
    <3> QED
      BY <1>3, <1>8, <2>2, <3>1, ResolvedGood DEF IInv
  <2>3. CASE r \notin S
    <3>1. r \in Reqs /\ Good(k, r)
      BY <2>1, <2>3, GoodBefore
    <3> QED
      BY <1>3, <1>8, <3>1, ResolvedGood DEF IInv
  <2> QED
    BY <2>2, <2>3
<1>9. \A g \in Keys : cache'[k][g] = "valid" => Outcome[g] = "valid"
  <2>1. \A g \in Keys : cache[k][g] = "valid" => Outcome[g] = "valid"
    BY GoodBefore
  <2> QED
    BY <1>3, <2>1, ResolvedGood DEF IInv
<1> QED
  BY <1>4, <1>5, <1>6, <1>7, <1>8, <1>9 DEF MovesTo

\* The head behind the agreed requests is rejected.
LEMMA RejectsNextAs ==
  ASSUME IInv, NEW k \in Ranks, NEW q \in Seq(Reqs), NEW f \in SUBSET Reqs,
         NEW c \in [Keys -> {"none", "valid", "invalid"}], NEW m \in 0..Len(q),
         Before(k, q, f, c, m), RejectsNext(k, m)
  PROVE  MovesTo(k, q, f, c, m, 1)
<1> DEFINE x == q[m + 1]
<1>1. queue[k] = q /\ ready[k] = m /\ m + 1 \in 1..Len(q)
  BY DEF Before, RejectsNext
<1>2. x \in Reqs /\ Key[x] \in Keys
  BY <1>1, GrammarConstants
<1>3. Rejected(q, m, 1) = {x}
  BY DEF Rejected
<1>4. /\ grammar' = [grammar EXCEPT ![k] = [grammar[k] EXCEPT ![x] = "none"]]
      /\ finish' = [finish EXCEPT ![k] = finish[k] \cup {x}]
      /\ cache' = [cache EXCEPT ![k] = [cache[k] EXCEPT ![Key[x]] = "invalid"]]
  BY <1>1 DEF RejectsNext
<1>5. ToSet(SubSeq(q, 1, m + 1)) = Seg(q, 0, m) \cup {x}
  <2>1. m \in 0..Len(q) /\ m + 1 \in m..Len(q)
    BY <1>1
  <2>2. /\ ToSet(SubSeq(q, 1, m + 1)) = Seg(q, 0, m + 1)
        /\ Seg(q, 0, m + 1) = Seg(q, 0, m) \cup Seg(q, m, m + 1)
    BY <2>1, Pieces
  <2>3. Seg(q, m, m + 1) = {x}
    BY DEF Seg
  <2> QED
    BY <2>2, <2>3
<1> HIDE DEF x
<1>6. /\ grammar[k] \in [Reqs -> {"none", "future", "valid"}]
      /\ cache[k] \in [Keys -> {"none", "valid", "invalid"}] /\ finish[k] \in SUBSET Reqs
  BY DEF IInv, Typed
<1>7. /\ finish' \in [Ranks -> SUBSET Reqs] /\ finish'[k] = finish[k] \cup {x}
      /\ \A j \in Ranks \ {k} : finish'[j] = finish[j]
  BY <1>2, <1>4, <1>6 DEF IInv, Typed
<1> DEFINE C == [cache[k] EXCEPT ![Key[x]] = "invalid"]
           G == [grammar[k] EXCEPT ![x] = "none"]
<1>8. /\ C \in [Keys -> {"none", "valid", "invalid"}]
      /\ C = [g \in Keys |-> IF Key[x] = g THEN "invalid" ELSE cache[k][g]]
  BY <1>2, <1>6
<1>9. /\ G \in [Reqs -> {"none", "future", "valid"}]
      /\ \A r \in Reqs \ {x} : G[r] = grammar[k][r]
  BY <1>2, <1>6
<1>10. cache' = [cache EXCEPT ![k] = C] /\ grammar' = [grammar EXCEPT ![k] = G]
  BY <1>4
<1> HIDE DEF C, G
<1>11. /\ cache' \in [Ranks -> [Keys -> {"none", "valid", "invalid"}]] /\ cache'[k] = C
       /\ \A j \in Ranks \ {k} : cache'[j] = cache[j]
  BY <1>8, <1>10 DEF IInv, Typed
<1>12. /\ grammar' \in [Ranks -> [Reqs -> {"none", "future", "valid"}]] /\ grammar'[k] = G
       /\ \A j \in Ranks \ {k} : grammar'[j] = grammar[j]
  BY <1>9, <1>10 DEF IInv, Typed
<1>13. finish'[k] = f \cup Invalid(Seg(q, 0, m)) \cup Rejected(q, m, 1)
  <2>1. finish[k] = f \cup Invalid(Seg(q, 0, m))
    BY <1>1 DEF Before
  <2> QED
    BY <1>3, <1>7, <2>1
<1>14. cache'[k] = CacheMoved(q, c, m, 1)
  <2>1. cache[k] = After(c, Seg(q, 0, m))
    BY <1>1 DEF Before
  <2>2. CacheMoved(q, c, m, 1) = [g \in Keys |-> IF Key[x] = g THEN "invalid" ELSE cache[k][g]]
    BY <1>3, <2>1 DEF CacheMoved
  <2> QED
    BY <1>8, <1>11, <2>2
<1>15. ASSUME NEW r \in (ToSet(moved[k]) \cup ToSet(SubSeq(q, 1, m + 1))) \ finish'[k]
       PROVE  Good(k, r)'
  <2>1. /\ r \in ToSet(moved[k]) \cup Seg(q, 0, ready[k])
        /\ r \notin finish[k] /\ r # x
    BY <1>1, <1>5, <1>7, <1>15
  <2>2. r \in Reqs /\ Good(k, r)
    BY <2>1, GoodBefore
  <2> QED
    BY <1>9, <1>12, <2>1, <2>2 DEF Good
<1>16. \A g \in Keys : cache'[k][g] = "valid" => Outcome[g] = "valid"
  <2>1. \A g \in Keys : cache[k][g] = "valid" => Outcome[g] = "valid"
    BY GoodBefore
  <2> QED
    BY <1>8, <1>11, <2>1
<1>17. m + 1 <= Len(q)
  BY <1>1
<1> QED
  BY <1>7, <1>11, <1>12, <1>13, <1>14, <1>15, <1>16, <1>17 DEF MovesTo

\* A rank moves the agreed requests: every rank that does comes to the same state.
LEMMA MoveReadyHolds ==
  ASSUME IInv, NEW k \in Ranks, MoveReady(k)
  PROVE  IInv'
<1>1. CASE \E why : Die(k, why)
  BY <1>1, DieHolds
<1>2. CASE /\ MovesWith(k, Most(ready), Most(late))
           /\ \/ (Most(late) = 0 /\ TakesRest(k, Most(ready)))
              \/ (Most(late) = 1 /\ RejectsNext(k, Most(ready)))
  <2>1. PICK q \in Seq(Reqs), mv \in Seq(Reqs), f \in SUBSET Reqs,
             c \in [Keys -> {"none", "valid", "invalid"}] : \A j \in Ranks : Along(j, q, mv, f, c)
    BY Zenon DEF IInv, Together
  <2>2. pc[k] = "fill" /\ Polled(k, q, mv, f, c)
    BY <1>2, <2>1 DEF MovesWith, Along
  <2>3. \A j \in Ranks : ready[j] \in 0..Len(q)
    BY <2>1 DEF Along
  <2>4. /\ Most(ready) \in 0..Len(q) /\ Most(late) \in {0, 1} /\ ready[k] <= Most(ready)
        /\ \E j \in Ranks : Most(ready) = ready[j]
    BY <2>3, MostOf DEF IInv
  <2>5. PICK m \in 0..Len(q), t \in {0, 1} :
               /\ m = Most(ready) /\ t = Most(late) /\ ready[k] <= m
               /\ \E j \in Ranks : m = ready[j]
    BY <2>4
  <2>6. \A r \in Seg(q, 0, m) : Outcome[Key[r]] # "none"
    BY <2>1, <2>5, Zenon DEF Along
  <2>7. /\ Ranks' = Ranks /\ conf' = conf /\ ready' = ready /\ late' = late /\ sent' = sent
        /\ Most(ready)' = Most(ready) /\ Most(late)' = Most(late)
    BY <1>2 DEF MovesWith, Ranks, Most
  <2>8. MovesTo(k, q, f, c, m, t)
    <3>1. Before(k, q, f, c, m)
      BY <2>2, <2>3, <2>5, <2>6 DEF Before, Polled
    <3>2. CASE t = 0 /\ TakesRest(k, m)
      BY <3>1, <3>2, TakesRestAs
    <3>3. CASE t = 1 /\ RejectsNext(k, m)
      BY <3>1, <3>3, RejectsNextAs
    <3> QED
      BY <1>2, <2>5, <3>2, <3>3
  <2>9. /\ SubSeq(q, 1, m + t) \in Seq(Reqs) /\ SubSeq(q, m + t + 1, Len(q)) \in Seq(Reqs)
        /\ ToSet(SubSeq(q, m + t + 1, Len(q))) \subseteq ToSet(q)
        /\ ToSet(SubSeq(q, 1, m + t)) \subseteq ToSet(q)
    <3>1. m + t \in 0..Len(q)
      BY <2>5, <2>8 DEF MovesTo
    <3> QED
      BY <3>1, Pieces
  <2>10. /\ moved' \in [Ranks -> Seq(Reqs)] /\ moved'[k] = mv \o SubSeq(q, 1, m + t)
        /\ queue' \in [Ranks -> Seq(Reqs)] /\ queue'[k] = SubSeq(q, m + t + 1, Len(q))
        /\ pc' \in [Ranks -> {"recv", "sync", "fill", "moved", "dead"}] /\ pc'[k] = "moved"
        /\ \A j \in Ranks \ {k} : moved'[j] = moved[j] /\ queue'[j] = queue[j] /\ pc'[j] = pc[j]
    <3>1. /\ moved' = [moved EXCEPT ![k] = mv \o SubSeq(q, 1, m + t)]
          /\ queue' = [queue EXCEPT ![k] = SubSeq(q, m + t + 1, Len(q))]
          /\ pc' = [pc EXCEPT ![k] = "moved"]
      BY <1>2, <2>2, <2>5 DEF MovesWith, Polled
    <3>2. mv \o SubSeq(q, 1, m + t) \in Seq(Reqs)
      BY <2>9, Joined
    <3> QED
      BY <2>9, <3>1, <3>2 DEF IInv, Typed
  <2>11. Typed'
    BY <2>7, <2>8, <2>10 DEF IInv, Typed, MovesTo
  <2>12. Phases'
    BY <2>2, <2>7, <2>10, Zenon DEF IInv, Phases
  <2>13. Together'
    <3>1. ASSUME NEW j \in Ranks, j # k PROVE Along(j, q, mv, f, c)'
      <4>1. /\ queue'[j] = queue[j] /\ moved'[j] = moved[j] /\ finish'[j] = finish[j]
            /\ cache'[j] = cache[j] /\ ready'[j] = ready[j] /\ pc'[j] = pc[j]
        BY <2>7, <2>8, <2>10, <3>1 DEF MovesTo
      <4> QED
        BY <2>1, <2>7, <4>1, Frame
    <3>2. HasMoved(k, q, mv, f, c, m, t)'
      BY <2>8, <2>10 DEF HasMoved, MovesTo
    <3>3. HasMoved(k, q, mv, f, c, Most(ready), Most(late))'
      BY <2>5, <2>7, <3>2
    <3>4. Along(k, q, mv, f, c)'
      <4>1. (ready[k] \in 0..Len(q))' /\ (\A r \in Seg(q, 0, ready[k]) : Outcome[Key[r]] # "none")'
        BY <2>1, <2>7 DEF Along
      <4> QED
        BY <2>10, <3>3, <4>1, Zenon DEF Along
    <3> QED
      BY <2>7, <3>1, <3>4 DEF Together
  <2>14. Settled'
    <3>1. ASSUME NEW j \in Ranks, j # k
          PROVE  /\ ToSet(queue'[j]) \subseteq sent' /\ ToSet(moved'[j]) \subseteq sent'
                 /\ \A r \in ToSet(moved'[j]) \ finish'[j] : Good(j, r)'
                 /\ pc'[j] \in {"sync", "fill"} =>
                      \A r \in Seg(queue'[j], 0, ready'[j]) \ finish'[j] : Good(j, r)'
                 /\ \A g \in Keys : cache'[j][g] = "valid" => Outcome[g] = "valid"
      <4>1. /\ ready'[j] = ready[j] /\ sent' = sent /\ finish'[j] = finish[j]
            /\ cache'[j] = cache[j] /\ grammar'[j] = grammar[j] /\ moved'[j] = moved[j]
            /\ queue'[j] = queue[j] /\ pc'[j] = pc[j]
        BY <2>7, <2>8, <2>10, <3>1, Zenon DEF MovesTo
      <4>2. ASSUME NEW r PROVE Good(j, r)' = Good(j, r)
        BY <4>1, Zenon DEF Good
      <4>3. /\ ToSet(queue[j]) \subseteq sent /\ ToSet(moved[j]) \subseteq sent
            /\ \A r \in ToSet(moved[j]) \ finish[j] : Good(j, r)
            /\ pc[j] \in {"sync", "fill"} =>
                 \A r \in Seg(queue[j], 0, ready[j]) \ finish[j] : Good(j, r)
            /\ \A g \in Keys : cache[j][g] = "valid" => Outcome[g] = "valid"
        BY Zenon DEF IInv, Settled
      <4> QED
        BY <4>1, <4>2, <4>3, Zenon
    <3>2. ToSet(q) \subseteq sent /\ ToSet(mv) \subseteq sent /\ moved[k] = mv
      BY <2>2 DEF IInv, Settled, Polled
    <3>3. ToSet(moved'[k]) = ToSet(mv) \cup ToSet(SubSeq(q, 1, m + t))
      BY <2>9, <2>10, Joined, Zenon
    <3>4. ToSet(queue'[k]) \subseteq sent' /\ ToSet(moved'[k]) \subseteq sent'
      BY <2>7, <2>9, <2>10, <3>2, <3>3
    <3>5. \A r \in ToSet(moved'[k]) \ finish'[k] : Good(k, r)'
      BY <2>8, <3>2, <3>3 DEF MovesTo
    <3>6. \A g \in Keys : cache'[k][g] = "valid" => Outcome[g] = "valid"
      BY <2>8 DEF MovesTo
    <3> QED
      BY <2>7, <2>10, <3>1, <3>4, <3>5, <3>6, Zenon DEF Settled
  <2> QED
    BY <2>11, <2>12, <2>13, <2>14 DEF IInv
<1> QED
  BY <1>1, <1>2, MoveReadyCases

\* The next iteration begins with what the ranks agreed on.
LEMMA NextIterationHolds ==
  ASSUME IInv, NextIteration
  PROVE  IInv'
<1>1. /\ Ranks' = Ranks /\ conf' = conf /\ queue' = queue /\ grammar' = grammar
      /\ finish' = finish /\ cache' = cache /\ moved' = moved /\ sent' = sent
      /\ pc' = [k \in Ranks |-> "recv"] /\ ready' = [k \in Ranks |-> 0]
      /\ late' = [k \in Ranks |-> 0] /\ \A k \in Ranks : pc[k] = "moved"
  BY DEF NextIteration, Ranks
<1>2. Typed'
  BY <1>1 DEF IInv, Typed
<1>3. Settled'
  BY <1>1 DEF IInv, Settled, Good
<1>4. Together' /\ Phases'
  <2>1. PICK q \in Seq(Reqs), mv \in Seq(Reqs), f \in SUBSET Reqs,
             c \in [Keys -> {"none", "valid", "invalid"}] : \A k \in Ranks : Along(k, q, mv, f, c)
    BY Zenon DEF IInv, Together
  <2> DEFINE m == Most(ready)
             t == Most(late)
  <2>2. \A k \in Ranks : HasMoved(k, q, mv, f, c, m, t)
    BY <1>1, <2>1 DEF Along
  <2>3. PICK k \in Ranks : TRUE
    BY GrammarConstants DEF IInv, Typed, Ranks
  <2>4. ASSUME NEW j \in Ranks
        PROVE  queue[j] = queue[k] /\ moved[j] = moved[k] /\ finish[j] = finish[k] /\ cache[j] = cache[k]
    BY <2>2, Zenon DEF HasMoved
  <2>5. /\ queue[k] \in Seq(Reqs) /\ moved[k] \in Seq(Reqs) /\ finish[k] \in SUBSET Reqs
        /\ cache[k] \in [Keys -> {"none", "valid", "invalid"}]
    BY DEF IInv, Typed
  <2>6. PICK q1 \in Seq(Reqs), mv1 \in Seq(Reqs), f1 \in SUBSET Reqs,
             c1 \in [Keys -> {"none", "valid", "invalid"}] :
               q1 = queue[k] /\ mv1 = moved[k] /\ f1 = finish[k] /\ c1 = cache[k]
    BY <2>5
  <2>7. \A j \in Ranks' : AtRecv(j, q1, mv1, f1, c1)'
    BY <1>1, <2>4, <2>6 DEF AtRecv
  <2>8. AtTop'
    BY <1>1 DEF AtTop
  <2> QED
    BY <2>7, <2>8, TogetherAtTop, Zenon
<1> QED
  BY <1>2, <1>3, <1>4 DEF IInv
-----------------------------------------------------------------------------
\* The inductive invariant: all ranks are in one iteration that began with the same queue,
\* and each is where its own and the agreed counts put it.
THEOREM Inductive == Spec => []IInv
<1>1. Init => IInv
  BY InitHolds
<1>2. IInv /\ [Next]_vars => IInv'
  <2> SUFFICES ASSUME IInv, [Next]_vars PROVE IInv'
    OBVIOUS
  <2>1. CASE \E r \in Reqs : HandleGenerate(r) \/ AbortRequest(r)
    BY <2>1, HandleGenerateHolds, AbortRequestHolds
  <2>2. CASE FlushCache
    BY <2>2, FlushCacheHolds
  <2>3. CASE \E k \in Ranks : Rank(k)
    BY <2>3, PollHolds, MoveReadyHolds DEF Rank
  <2>4. CASE \E k \in Ranks, r \in Reqs : Compile(k, r)
    BY <2>4, Unchanged DEF Compile, state
  <2>5. CASE Group
    BY <2>5, AllReduceHolds, NextIterationHolds DEF Group
  <2>6. CASE UNCHANGED vars
    BY <2>6, Unchanged DEF vars, state
  <2> QED
    BY <2>1, <2>2, <2>3, <2>4, <2>5, <2>6 DEF Next, Input
<1> QED
  BY <1>1, <1>2, PTL DEF Spec

\* Whatever the order in which compilations end on the ranks, and with timeouts and aborts,
\* the ranks have moved the same requests in the same order, rejected the same ones and
\* cached the same results whenever they meet in move_ready_grammar_requests again.
THEOREM RanksAgreeCorrect == Spec => []RanksAgree
<1>1. IInv => RanksAgree
  <2> SUFFICES ASSUME IInv, AtTop
               PROVE  \A j, k \in Ranks : /\ queue[j] = queue[k] /\ moved[j] = moved[k]
                                          /\ finish[j] = finish[k] /\ cache[j] = cache[k]
    BY DEF RanksAgree
  <2> QED
    BY SameAtTop DEF AtRecv
<1> QED
  BY <1>1, Inductive, PTL

\* No request enters the waiting queue with a future or with an invalid grammar: it has a
\* compiled, valid one or is aborted.
THEOREM GrammarResolvedCorrect == Spec => []GrammarResolved
<1>1. IInv => GrammarResolved
  BY DEF IInv, Settled, Good, GrammarResolved
<1> QED
  BY <1>1, Inductive, PTL
-----------------------------------------------------------------------------
(* One place and a bounded wait for every request.                         *)

\* The requests S are in q or in mv, each once.
Split(q, mv, S) ==
  /\ q \in Seq(Reqs) /\ mv \in Seq(Reqs) /\ IsInjective(q) /\ IsInjective(mv)
  /\ ToSet(q) \cap ToSet(mv) = {} /\ S = ToSet(q) \cup ToSet(mv)

\* A request polled too often is the one the rank found late in this iteration.
Overdue(k, r) ==
  \/ pc[k] = "dead"
  \/ /\ pc[k] \in {"sync", "fill"} /\ late[k] = 1
     /\ ready[k] < Len(queue[k]) /\ r = queue[k][ready[k] + 1]
Waits(k) ==
  /\ polls[k] \in [Reqs -> 0..(MaxPolls + 1)] /\ done[k] \in SUBSET sent
  /\ \A r \in Reqs \ sent : polls[k][r] = 0
  /\ \A r \in ToSet(queue[k]) : polls[k][r] = MaxPolls + 1 => Overdue(k, r)

QInv ==
  /\ polls \in [Ranks -> [Reqs -> 0..(MaxPolls + 1)]] /\ done \in [Ranks -> SUBSET Reqs]
  /\ \A k \in Ranks : Split(queue[k], moved[k], sent) /\ Waits(k)

\* A request goes to the end of one of two lists.
LEMMA Arrives ==
  ASSUME NEW q, NEW mv, NEW S, Split(q, mv, S), NEW r \in Reqs, r \notin S
  PROVE  Split(Append(q, r), mv, S \cup {r}) /\ Split(q, Append(mv, r), S \cup {r})
<1>1. /\ q \in Seq(Reqs) /\ mv \in Seq(Reqs) /\ IsInjective(q) /\ IsInjective(mv)
      /\ ToSet(q) \cap ToSet(mv) = {} /\ S = ToSet(q) \cup ToSet(mv)
  BY DEF Split
<1>2. ASSUME NEW s \in Seq(Reqs), IsInjective(s), r \notin ToSet(s)
      PROVE  IsInjective(Append(s, r))
  <2>1. /\ Append(s, r) \in Seq(Reqs) /\ Len(Append(s, r)) = Len(s) + 1
        /\ Append(s, r)[Len(s) + 1] = r
        /\ \A i \in 1..Len(s) : Append(s, r)[i] = s[i] /\ s[i] \in ToSet(s)
    BY DEF ToSet
  <2>2. \A i, j \in 1..Len(s) : s[i] = s[j] => i = j
    BY <1>2 DEF IsInjective
  <2>3. \A i \in 1..(Len(s) + 1) : i \in 1..Len(s) \/ i = Len(s) + 1
    OBVIOUS
  <2>4. \A i, j \in 1..(Len(s) + 1) : Append(s, r)[i] = Append(s, r)[j] => i = j
    BY <1>2, <2>1, <2>2, <2>3, Zenon
  <2>5. DOMAIN Append(s, r) = 1..(Len(s) + 1)
    BY <2>1
  <2> QED
    BY <2>4, <2>5 DEF IsInjective
<1>3. /\ Append(q, r) \in Seq(Reqs) /\ ToSet(Append(q, r)) = ToSet(q) \cup {r}
      /\ Append(mv, r) \in Seq(Reqs) /\ ToSet(Append(mv, r)) = ToSet(mv) \cup {r}
  BY <1>1, Joined
<1>4. IsInjective(Append(q, r)) /\ IsInjective(Append(mv, r))
  BY <1>1, <1>2
<1> QED
  BY <1>1, <1>3, <1>4 DEF Split

\* The first n requests of one list go to the end of the other.
LEMMA HandsOver ==
  ASSUME NEW q, NEW mv, NEW S, Split(q, mv, S), NEW n \in 0..Len(q)
  PROVE  /\ Split(SubSeq(q, n + 1, Len(q)), mv \o SubSeq(q, 1, n), S)
         /\ \A i \in 1..n : q[i] \notin ToSet(SubSeq(q, n + 1, Len(q)))
         /\ ToSet(SubSeq(q, n + 1, Len(q))) \subseteq ToSet(q)
<1> DEFINE a == SubSeq(q, 1, n)
           b == SubSeq(q, n + 1, Len(q))
           c == mv \o a
<1>1. /\ q \in Seq(Reqs) /\ mv \in Seq(Reqs) /\ IsInjective(q) /\ IsInjective(mv)
      /\ ToSet(q) \cap ToSet(mv) = {} /\ S = ToSet(q) \cup ToSet(mv)
  BY DEF Split
<1>2. /\ a \in Seq(Reqs) /\ Len(a) = n /\ DOMAIN a = 1..n /\ \A i \in 1..n : a[i] = q[i]
  BY <1>1
<1>3. /\ b \in Seq(Reqs) /\ DOMAIN b = 1..(Len(q) - n)
      /\ \A i \in 1..(Len(q) - n) : b[i] = q[n + i]
  BY <1>1
<1>4. Len(q) \in Nat /\ \A i, j \in 1..Len(q) : q[i] = q[j] => i = j
  BY <1>1 DEF IsInjective
<1>5. /\ c \in Seq(Reqs) /\ ToSet(c) = ToSet(mv) \cup ToSet(a)
      /\ Len(mv) \in Nat /\ DOMAIN c = 1..(Len(mv) + n)
      /\ \A i \in 1..Len(mv) : c[i] = mv[i]
      /\ \A i \in 1..n : c[Len(mv) + i] = a[i]
  <2>1. c \in Seq(Reqs) /\ ToSet(c) = ToSet(mv) \cup ToSet(a)
    <3> HIDE DEF a
    <3> QED
      BY <1>1, <1>2, Joined
  <2> QED
    BY <1>1, <1>2, <2>1
<1> HIDE DEF a, b, c
<1>6. IsInjective(b)
  <2> SUFFICES ASSUME NEW i \in 1..(Len(q) - n), NEW j \in 1..(Len(q) - n), b[i] = b[j]
               PROVE  i = j
    BY <1>3 DEF IsInjective
  <2>1. q[n + i] = q[n + j] /\ n + i \in 1..Len(q) /\ n + j \in 1..Len(q)
    BY <1>3, <1>4
  <2>2. n + i = n + j
    BY <1>4, <2>1, Zenon
  <2> QED
    BY <2>2
<1>7. \A i \in 1..n : q[i] \notin ToSet(b)
  <2> SUFFICES ASSUME NEW i \in 1..n, NEW j \in 1..(Len(q) - n), q[i] = b[j]
               PROVE  FALSE
    BY <1>3 DEF ToSet
  <2>1. q[i] = q[n + j] /\ i \in 1..Len(q) /\ n + j \in 1..Len(q)
    BY <1>3, <1>4
  <2>2. i = n + j
    BY <1>4, <2>1, Zenon
  <2> QED
    BY <2>2
<1>8. \A x \in ToSet(a) : \E i \in 1..n : x = q[i]
  BY <1>2 DEF ToSet
<1>9. ToSet(a) \subseteq ToSet(q) /\ ToSet(b) \subseteq ToSet(q)
  <2>1. \A i \in 1..n : i \in DOMAIN q
    BY <1>1
  <2>2. \A i \in 1..(Len(q) - n) : n + i \in DOMAIN q
    BY <1>1
  <2>3. ToSet(a) \subseteq ToSet(q)
    BY <1>8, <2>1 DEF ToSet
  <2>4. ToSet(b) \subseteq ToSet(q)
    BY <1>3, <2>2 DEF ToSet
  <2> QED
    BY <2>3, <2>4
<1>10. ToSet(q) \subseteq ToSet(a) \cup ToSet(b)
  <2> SUFFICES ASSUME NEW i \in 1..Len(q) PROVE q[i] \in ToSet(a) \cup ToSet(b)
    BY <1>1 DEF ToSet
  <2>1. CASE i <= n
    <3>1. i \in DOMAIN a /\ a[i] = q[i]
      BY <1>2, <2>1
    <3> QED
      BY <3>1 DEF ToSet
  <2>2. CASE ~(i <= n)
    <3>1. i - n \in DOMAIN b /\ b[i - n] = q[n + (i - n)] /\ n + (i - n) = i
      BY <1>3, <2>2
    <3>2. b[i - n] = q[i]
      BY <3>1
    <3> QED
      BY <3>1, <3>2 DEF ToSet
  <2> QED
    BY <2>1, <2>2
<1>11. IsInjective(c)
  <2> SUFFICES ASSUME NEW i \in 1..(Len(mv) + n), NEW j \in 1..(Len(mv) + n), c[i] = c[j]
               PROVE  i = j
    BY <1>5 DEF IsInjective
  <2> DEFINE L == Len(mv)
  <2>1. \A x \in 1..(L + n) : \/ x \in 1..L /\ c[x] = mv[x] /\ mv[x] \in ToSet(mv)
                              \/ x - L \in 1..n /\ c[x] = q[x - L] /\ q[x - L] \in ToSet(q)
    <3> TAKE x \in 1..(L + n)
    <3>1. CASE x <= L
      <4>1. x \in 1..L /\ x \in DOMAIN mv
        BY <1>1, <1>5, <3>1
      <4> QED
        BY <1>5, <4>1 DEF ToSet
    <3>2. CASE ~(x <= L)
      <4>1. x - L \in 1..n /\ L + (x - L) = x /\ x - L \in DOMAIN q
        BY <1>1, <1>5, <3>2
      <4>2. c[L + (x - L)] = a[x - L]
        BY <1>5, <4>1, Zenon
      <4>3. c[x] = q[x - L]
        BY <1>2, <4>1, <4>2
      <4> QED
        BY <4>1, <4>3 DEF ToSet
    <3> QED
      BY <3>1, <3>2
  <2>2. \A x, y \in 1..L : mv[x] = mv[y] => x = y
    BY <1>1 DEF IsInjective
  <2>3. \A x, y \in 1..n : q[x] = q[y] => x = y
    BY <1>4
  <2>4. CASE i \in 1..L /\ j \in 1..L
    BY <1>5, <2>2, <2>4
  <2>5. CASE i - L \in 1..n /\ j - L \in 1..n /\ c[i] = q[i - L] /\ c[j] = q[j - L]
    <3>1. i - L = j - L
      BY <2>3, <2>5, Zenon
    <3> QED
      BY <1>5, <3>1
  <2>6. CASE c[i] \in ToSet(mv) /\ c[j] \in ToSet(q)
    BY <1>1, <2>6
  <2>7. CASE c[i] \in ToSet(q) /\ c[j] \in ToSet(mv)
    BY <1>1, <2>7
  <2> QED
    BY <2>1, <2>4, <2>5, <2>6, <2>7
<1>12. ToSet(b) \cap ToSet(c) = {}
  BY <1>1, <1>5, <1>7, <1>8, <1>9
<1>13. S = ToSet(b) \cup ToSet(c)
  BY <1>1, <1>5, <1>9, <1>10
<1>14. Split(b, c, S)
  BY <1>3, <1>5, <1>6, <1>11, <1>12, <1>13 DEF Split
<1> QED
  BY <1>7, <1>9, <1>14 DEF a, b, c

\* What the wait of a rank's requests depends on.
LEMMA WaitsFrame ==
  ASSUME NEW k \in Ranks, Waits(k), polls'[k] = polls[k], done'[k] = done[k], sent' = sent,
         queue'[k] = queue[k], pc'[k] = pc[k], late'[k] = late[k], ready'[k] = ready[k]
  PROVE  Waits(k)'
BY DEF Waits, Overdue

\* A step that leaves the queues, the moved requests and the polls alone keeps QInv.
LEMMA QUnchanged ==
  ASSUME QInv, UNCHANGED <<conf, queue, moved, sent, polls, done, pc, late, ready>>
  PROVE  QInv'
<1>1. Ranks' = Ranks
  BY DEF Ranks
<1>2. ASSUME NEW k \in Ranks PROVE Waits(k)'
  BY WaitsFrame DEF QInv
<1>3. ASSUME NEW k \in Ranks PROVE Split(queue'[k], moved'[k], sent')
  BY DEF QInv
<1> QED
  BY <1>1, <1>2, <1>3 DEF QInv

\* handle_generate_request: a request not yet polled.
LEMMA HandleGenerateOnce ==
  ASSUME IInv, QInv, NEW r \in Reqs, HandleGenerate(r)
  PROVE  QInv'
<1>1. /\ Ranks' = Ranks /\ polls' = polls /\ done' = done /\ pc' = pc /\ AtTop
      /\ r \notin sent /\ sent' = sent \cup {r}
      /\ queue' = [k \in Ranks |-> IF Hit(k, r) THEN queue[k] ELSE Append(queue[k], r)]
      /\ moved' = [k \in Ranks |-> IF Hit(k, r) THEN Append(moved[k], r) ELSE moved[k]]
  BY DEF HandleGenerate, Ranks
<1>2. ASSUME NEW k \in Ranks
      PROVE  Split(queue'[k], moved'[k], sent') /\ ToSet(queue'[k]) \subseteq ToSet(queue[k]) \cup {r}
  <2>1. Split(queue[k], moved[k], sent)
    BY DEF QInv
  <2>2. Split(Append(queue[k], r), moved[k], sent') /\ Split(queue[k], Append(moved[k], r), sent')
    BY <1>1, <2>1, Arrives
  <2>3. ToSet(Append(queue[k], r)) = ToSet(queue[k]) \cup {r}
    BY Joined DEF IInv, Typed
  <2>4. \/ queue'[k] = queue[k] /\ moved'[k] = Append(moved[k], r)
        \/ queue'[k] = Append(queue[k], r) /\ moved'[k] = moved[k]
    BY <1>1
  <2> QED
    BY <2>2, <2>3, <2>4, Zenon
<1>3. ASSUME NEW k \in Ranks PROVE Waits(k)'
  <2>1. Waits(k) /\ pc[k] = "recv"
    BY <1>1 DEF QInv, AtTop
  <2>2. \A x \in ToSet(queue[k]) : polls[k][x] # MaxPolls + 1
    BY <2>1 DEF Waits, Overdue
  <2>3. polls[k][r] = 0 /\ 0 # MaxPolls + 1
    BY <1>1, <2>1, GrammarConstants DEF Waits
  <2>4. \A x \in ToSet(queue'[k]) : polls[k][x] # MaxPolls + 1
    BY <1>2, <2>2, <2>3
  <2> QED
    BY <1>1, <2>1, <2>4 DEF Waits
<1> QED
  BY <1>1, <1>2, <1>3, Zenon DEF QInv

\* A compilation that ends is one of a request in the queue.
LEMMA CompileOnce ==
  ASSUME IInv, QInv, NEW k \in Ranks, NEW r \in Reqs, Compile(k, r)
  PROVE  QInv'
<1>1. /\ Ranks' = Ranks /\ polls' = polls /\ pc' = pc /\ sent' = sent /\ queue' = queue
      /\ moved' = moved /\ late' = late /\ ready' = ready
      /\ r \in ToSet(queue[k]) /\ done' = [done EXCEPT ![k] = @ \cup {r}]
  BY DEF Compile, Ranks
<1>2. done' \in [Ranks -> SUBSET Reqs] /\ done'[k] = done[k] \cup {r}
      /\ \A j \in Ranks : j # k => done'[j] = done[j]
  BY <1>1 DEF QInv
<1>3. r \in sent
  BY <1>1 DEF QInv, Split
<1>4. ASSUME NEW j \in Ranks, j # k PROVE Waits(j)'
  BY <1>1, <1>2, <1>4, WaitsFrame DEF QInv
<1>5. Waits(k)'
  BY <1>1, <1>2, <1>3 DEF QInv, Waits, Overdue
<1> QED
  BY <1>1, <1>2, <1>4, <1>5 DEF QInv

\* A rank that ends with an exception keeps its queue.
LEMMA DieOnce ==
  ASSUME IInv, QInv, NEW k \in Ranks, NEW why, Die(k, why)
  PROVE  QInv'
<1>1. /\ Ranks' = Ranks /\ polls' = polls /\ sent' = sent /\ queue' = queue /\ done' = done
      /\ moved' = moved /\ late' = late /\ ready' = ready /\ pc' = [pc EXCEPT ![k] = "dead"]
  BY DEF Die, Ranks
<1>2. pc'[k] = "dead" /\ \A j \in Ranks : j # k => pc'[j] = pc[j]
  BY <1>1 DEF IInv, Typed
<1>3. ASSUME NEW j \in Ranks, j # k PROVE Waits(j)'
  BY <1>1, <1>2, <1>3, WaitsFrame, Zenon DEF QInv
<1>4. Waits(k)'
  BY <1>1, <1>2 DEF QInv, Waits, Overdue
<1> QED
  BY <1>1, <1>3, <1>4, Zenon DEF QInv

\* A poll counts for the first request that is not ready, and reports it when it is late.
LEMMA PollOnce ==
  ASSUME IInv, QInv, NEW k \in Ranks, Poll(k)
  PROVE  QInv'
<1> DEFINE q == queue[k]
           n == ReadyLen(k)
           next == q[n + 1]
           waits == n < Len(q)
           P == [r \in Reqs |-> IF waits /\ r = next /\ Timeouts /\ polls[k][r] < PollCap
                                THEN polls[k][r] + 1 ELSE polls[k][r]]
<1>1. CASE \E why : Die(k, why)
  BY <1>1, DieOnce
<1>2. CASE /\ ready' = [ready EXCEPT ![k] = n] /\ pc[k] = "recv"
           /\ late' = [late EXCEPT ![k] = IF waits /\ TimedOut(k, next) THEN 1 ELSE 0]
           /\ polls' = [polls EXCEPT ![k] = P]
           /\ pc' = [pc EXCEPT ![k] = "sync"]
           /\ UNCHANGED <<conf, queue, done, moved, sent, err>>
  <2>1. /\ Ranks' = Ranks /\ queue' = queue /\ moved' = moved /\ sent' = sent /\ done' = done
        /\ ready'[k] = n /\ pc'[k] = "sync" /\ polls'[k] = P
        /\ late'[k] = (IF waits /\ TimedOut(k, next) THEN 1 ELSE 0)
        /\ \A j \in Ranks : j # k => /\ ready'[j] = ready[j] /\ pc'[j] = pc[j]
                                     /\ polls'[j] = polls[j] /\ late'[j] = late[j]
    BY <1>2, Zenon DEF IInv, Typed, QInv, Ranks
  <2>2. /\ Waits(k) /\ polls[k] \in [Reqs -> 0..(MaxPolls + 1)] /\ q \in Seq(Reqs)
        /\ ToSet(q) \subseteq sent /\ n \in 0..Len(q) /\ MaxPolls \in Nat
    BY ReadyLenIs, GrammarConstants, Zenon DEF QInv, IInv, Typed, Settled
  <2>3. \A r \in ToSet(q) : polls[k][r] # MaxPolls + 1
    BY <1>2, <2>2, Zenon DEF Waits, Overdue
  <2>4. waits => next \in ToSet(q) /\ next \in Reqs
    BY <2>2 DEF ToSet
  <2>5. ASSUME NEW r \in Reqs
        PROVE  /\ P[r] \in 0..(MaxPolls + 1)
               /\ r \notin sent => P[r] = 0
               /\ r \in ToSet(q) /\ P[r] = MaxPolls + 1 =>
                    waits /\ TimedOut(k, next) /\ r = next
    <3>1. polls[k][r] \in 0..(MaxPolls + 1) /\ (r \notin sent => polls[k][r] = 0)
      BY <2>2 DEF Waits
    <3>2. CASE waits /\ r = next /\ Timeouts /\ polls[k][r] < PollCap
      <4>1. r \in ToSet(q) /\ r \in sent /\ polls[k][r] # MaxPolls + 1
        BY <2>2, <2>3, <2>4, <3>2
      <4>2. P[r] = polls[k][r] + 1
        BY <3>2
      <4>3. P[r] = MaxPolls + 1 => polls[k][r] + 1 > MaxPolls
        BY <2>2, <3>1, <4>2
      <4>4. P[r] \in 0..(MaxPolls + 1)
        BY <2>2, <3>1, <4>1, <4>2
      <4> QED
        BY <3>2, <4>1, <4>3, <4>4, Zenon DEF TimedOut
    <3>3. CASE ~(waits /\ r = next /\ Timeouts /\ polls[k][r] < PollCap)
      <4>1. P[r] = polls[k][r]
        BY <3>3
      <4> QED
        BY <2>3, <3>1, <4>1
    <3> QED
      BY <3>2, <3>3, Zenon
  <2>6. P \in [Reqs -> 0..(MaxPolls + 1)]
    <3>1. P = [r \in Reqs |-> P[r]]
      OBVIOUS
    <3> HIDE DEF P
    <3> QED
      BY <2>5, <3>1
  <2> HIDE DEF P
  <2>7. polls' \in [Ranks -> [Reqs -> 0..(MaxPolls + 1)]]
    BY <1>2, <2>6 DEF QInv
  <2>8. ASSUME NEW j \in Ranks, j # k PROVE Waits(j)'
    BY <2>1, <2>8, WaitsFrame DEF QInv
  <2>9. Waits(k)'
    <3>1. done'[k] \in SUBSET sent' /\ \A r \in Reqs \ sent' : polls'[k][r] = 0
      BY <2>1, <2>2, <2>5 DEF Waits
    <3>2. ASSUME NEW r \in ToSet(q), P[r] = MaxPolls + 1 PROVE Overdue(k, r)'
      <4>1. r \in Reqs
        BY <2>2 DEF ToSet
      <4>2. waits /\ TimedOut(k, next) /\ r = next
        BY <2>5, <3>2, <4>1
      <4>3. late'[k] = 1
        BY <2>1, <4>2, Zenon
      <4> QED
        BY <2>1, <4>2, <4>3 DEF Overdue
    <3> QED
      BY <2>1, <2>6, <3>1, <3>2, Zenon DEF Waits
  <2> QED
    BY <2>1, <2>7, <2>8, <2>9 DEF QInv
<1> QED
  BY <1>1, <1>2, Zenon DEF Poll

\* The reduction of the counts moves no request.
LEMMA AllReduceOnce ==
  ASSUME IInv, QInv, AllReduce
  PROVE  QInv'
<1>1. /\ Ranks' = Ranks /\ polls' = polls /\ sent' = sent /\ queue' = queue /\ done' = done
      /\ moved' = moved /\ late' = late /\ ready' = ready /\ pc' = [k \in Ranks |-> "fill"]
      /\ \A k \in Ranks : pc[k] = "sync"
  BY DEF AllReduce, Ranks
<1>2. ASSUME NEW k \in Ranks PROVE Waits(k)'
  <2>1. pc'[k] = "fill" /\ pc[k] = "sync" /\ Waits(k)
    BY <1>1 DEF QInv
  <2> QED
    BY <1>1, <2>1 DEF Waits, Overdue
<1> QED
  BY <1>1, <1>2 DEF QInv

\* The next broadcast moves no request.
LEMMA NextIterationOnce ==
  ASSUME IInv, QInv, NextIteration
  PROVE  QInv'
<1>1. /\ Ranks' = Ranks /\ polls' = polls /\ sent' = sent /\ queue' = queue /\ done' = done
      /\ moved' = moved /\ \A k \in Ranks : pc[k] = "moved"
  BY DEF NextIteration, Ranks
<1>2. ASSUME NEW k \in Ranks PROVE Waits(k)'
  <2>1. pc[k] = "moved" /\ Waits(k)
    BY <1>1 DEF QInv
  <2>2. \A r \in ToSet(queue[k]) : polls[k][r] # MaxPolls + 1
    BY <2>1 DEF Waits, Overdue
  <2> QED
    BY <1>1, <2>1, <2>2 DEF Waits
<1> QED
  BY <1>1, <1>2 DEF QInv

\* A late request of any rank is agreed on.
LEMMA LateAgreed ==
  ASSUME Typed, NEW k \in Ranks
  PROVE  late[k] <= Most(late)
<1> DEFINE L == {late[j] : j \in Ranks}
<1>1. \A j \in Ranks : late[j] \in {0, 1}
  BY DEF Typed
<1>2. L \in SUBSET Nat /\ L # {} /\ \A x \in L : x <= 1
  BY <1>1
<1>3. \A y \in L : y <= Max(L)
  <2>1. 1 \in Nat
    OBVIOUS
  <2> HIDE DEF L
  <2> QED BY <1>2, <2>1, MaxNat
<1> QED
  BY <1>3 DEF Most

\* A rank moves what is agreed on; a request that is overdue is among it.
LEMMA MoveReadyOnce ==
  ASSUME IInv, QInv, NEW k \in Ranks, MoveReady(k)
  PROVE  QInv'
<1> DEFINE m == Most(ready)
           t == Most(late)
           q == queue[k]
<1>1. CASE \E why : Die(k, why)
  BY <1>1, DieOnce
<1>2. CASE /\ MovesWith(k, m, t)
           /\ \/ (t = 0 /\ TakesRest(k, m))
              \/ (t = 1 /\ RejectsNext(k, m))
  <2>1. /\ Ranks' = Ranks /\ polls' = polls /\ sent' = sent /\ done' = done
        /\ late' = late /\ ready' = ready /\ pc[k] = "fill"
        /\ moved' = [moved EXCEPT ![k] = @ \o SubSeq(q, 1, m + t)]
        /\ queue' = [queue EXCEPT ![k] = SubSeq(q, m + t + 1, Len(q))]
        /\ pc' = [pc EXCEPT ![k] = "moved"]
    BY <1>2 DEF MovesWith, Ranks
  <2>2. /\ moved'[k] = moved[k] \o SubSeq(q, 1, m + t)
        /\ queue'[k] = SubSeq(q, m + t + 1, Len(q)) /\ pc'[k] = "moved"
        /\ \A j \in Ranks : j # k => moved'[j] = moved[j] /\ queue'[j] = queue[j] /\ pc'[j] = pc[j]
    BY <2>1, Zenon DEF IInv, Typed
  <2>3. /\ q \in Seq(Reqs) /\ \A j \in Ranks : ready[j] \in 0..Len(q)
    BY <2>1, Zenon DEF IInv, Together, Along, Polled
  <2>4. m \in 0..Len(q) /\ t \in {0, 1} /\ ready[k] <= m
    BY <2>3, MostOf DEF IInv
  <2>5. late[k] <= t /\ late[k] \in {0, 1}
    BY LateAgreed DEF IInv, Typed
  <2>6. t = 1 => ready[k] = m /\ m + 1 <= Len(q)
    <3>1. t = 1 => ready[k] >= m /\ ready[k] + 1 <= Len(q)
      BY <1>2 DEF RejectsNext
    <3>2. ready[k] \in Nat /\ m \in Nat /\ Len(q) \in Nat
      BY <2>3, <2>4
    <3> HIDE DEF m, t, q
    <3> QED
      BY <2>4, <3>1, <3>2
  <2>7. m + t \in 0..Len(q)
    <3>1. Len(q) \in Nat
      BY <2>3
    <3> HIDE DEF m, t, q
    <3> QED
      BY <2>4, <2>6, <3>1
  <2>8. Split(q, moved[k], sent) /\ Waits(k)
    BY DEF QInv
  <2>9. /\ Split(queue'[k], moved'[k], sent')
        /\ \A i \in 1..(m + t) : q[i] \notin ToSet(queue'[k])
        /\ ToSet(queue'[k]) \subseteq ToSet(q)
    <3> DEFINE n == m + t
    <3>1. /\ Split(SubSeq(q, n + 1, Len(q)), moved[k] \o SubSeq(q, 1, n), sent)
          /\ \A i \in 1..n : q[i] \notin ToSet(SubSeq(q, n + 1, Len(q)))
          /\ ToSet(SubSeq(q, n + 1, Len(q))) \subseteq ToSet(q)
      <4> HIDE DEF n, q
      <4>1. n \in 0..Len(q)
        BY <2>7 DEF n
      <4> QED
        BY <2>8, <4>1, HandsOver
    <3> QED
      BY <2>1, <2>2, <3>1, Zenon
  <2>10. \A r \in ToSet(queue'[k]) : polls[k][r] # MaxPolls + 1
    <3> SUFFICES ASSUME NEW r \in ToSet(queue'[k]), polls[k][r] = MaxPolls + 1
                 PROVE  FALSE
      OBVIOUS
    <3>1. r \in ToSet(q)
      BY <2>9
    <3>2. late[k] = 1 /\ r = q[ready[k] + 1]
      BY <2>1, <2>8, <3>1 DEF Waits, Overdue
    <3>3. t = 1 /\ r = q[m + 1]
      BY <2>4, <2>5, <2>6, <3>2
    <3>4. m + 1 \in 1..(m + t)
      BY <2>4, <3>3
    <3> QED
      BY <2>9, <3>3, <3>4
  <2>11. Waits(k)'
    BY <2>1, <2>8, <2>10 DEF Waits
  <2>12. ASSUME NEW j \in Ranks, j # k PROVE Waits(j)' /\ Split(queue'[j], moved'[j], sent')
    BY <2>1, <2>2, <2>12, WaitsFrame DEF QInv
  <2> QED
    BY <2>1, <2>9, <2>11, <2>12 DEF QInv
<1> QED
  BY <1>1, <1>2, MoveReadyCases

\* Every request received is in one queue of each rank, and only the request a rank found
\* late in this iteration has been polled too often.
THEOREM QueueInductive == Spec => []QInv
<1>1. Init => QInv
  <2> SUFFICES ASSUME Init PROVE QInv
    OBVIOUS
  <2>1. MaxPolls \in Nat
    BY GrammarConstants
  <2>2. \A k \in Ranks : /\ queue[k] = <<>> /\ moved[k] = <<>> /\ done[k] = {} /\ sent = {}
                         /\ polls[k] = [r \in Reqs |-> 0]
    BY DEF Init, Ranks
  <2>3. Split(<<>>, <<>>, {})
    BY DEF Split, IsInjective, ToSet
  <2>4. ASSUME NEW k \in Ranks PROVE Split(queue[k], moved[k], sent) /\ Waits(k)
    <3>1. ToSet(queue[k]) = {} /\ polls[k] \in [Reqs -> 0..(MaxPolls + 1)]
      BY <2>1, <2>2 DEF ToSet
    <3> QED
      BY <2>2, <2>3, <3>1, Zenon DEF Waits
  <2>5. polls \in [Ranks -> [Reqs -> 0..(MaxPolls + 1)]] /\ done \in [Ranks -> SUBSET Reqs]
    BY <2>1 DEF Init, Ranks
  <2> QED
    BY <2>4, <2>5 DEF QInv
<1>2. IInv /\ QInv /\ [Next]_vars => QInv'
  <2> SUFFICES ASSUME IInv, QInv, [Next]_vars PROVE QInv'
    OBVIOUS
  <2>1. CASE \E r \in Reqs : HandleGenerate(r)
    BY <2>1, HandleGenerateOnce
  <2>2. CASE FlushCache \/ \E r \in Reqs : AbortRequest(r)
    BY <2>2, QUnchanged DEF FlushCache, AbortRequest
  <2>3. CASE \E k \in Ranks : Rank(k)
    BY <2>3, PollOnce, MoveReadyOnce DEF Rank
  <2>4. CASE \E k \in Ranks, r \in Reqs : Compile(k, r)
    BY <2>4, CompileOnce
  <2>5. CASE Group
    BY <2>5, AllReduceOnce, NextIterationOnce DEF Group
  <2>6. CASE UNCHANGED vars
    BY <2>6, QUnchanged DEF vars
  <2> QED
    BY <2>1, <2>2, <2>3, <2>4, <2>5, <2>6 DEF Next, Input
<1> QED
  BY <1>1, <1>2, Inductive, PTL DEF Spec

\* A list without repetitions has an element once or not at all.
LEMMA Occurs ==
  ASSUME NEW s \in Seq(Reqs), IsInjective(s), NEW r
  PROVE  Cardinality({i \in DOMAIN s : s[i] = r}) = IF r \in ToSet(s) THEN 1 ELSE 0
<1>1. CASE r \in ToSet(s)
  <2>1. PICK j \in DOMAIN s : s[j] = r
    BY <1>1 DEF ToSet
  <2>2. {i \in DOMAIN s : s[i] = r} = {j}
    BY <2>1 DEF IsInjective
  <2> QED
    BY <1>1, <2>2, FS_Singleton, Zenon
<1>2. CASE r \notin ToSet(s)
  <2>1. {i \in DOMAIN s : s[i] = r} = {}
    BY <1>2 DEF ToSet
  <2> QED
    BY <1>2, <2>1, FS_EmptySet, Zenon
<1> QED
  BY <1>1, <1>2

\* Whatever the counts the ranks agree on, move_ready_grammar_requests cuts the queue where
\* it copies it: every request received is in one of the two queues of a rank, once.
THEOREM OneQueueCorrect == Spec => []OneQueue
<1>1. QInv => OneQueue
  <2> SUFFICES ASSUME QInv, NEW k \in Ranks, NEW r \in sent
               PROVE  Cardinality({i \in DOMAIN queue[k] : queue[k][i] = r})
                        + Cardinality({i \in DOMAIN moved[k] : moved[k][i] = r}) = 1
    BY DEF OneQueue
  <2>1. /\ queue[k] \in Seq(Reqs) /\ moved[k] \in Seq(Reqs)
        /\ IsInjective(queue[k]) /\ IsInjective(moved[k])
        /\ r \in ToSet(queue[k]) <=> r \notin ToSet(moved[k])
    BY Zenon DEF QInv, Split
  <2>2. Cardinality({i \in DOMAIN queue[k] : queue[k][i] = r})
          = IF r \in ToSet(queue[k]) THEN 1 ELSE 0
    BY <2>1, Occurs
  <2>3. Cardinality({i \in DOMAIN moved[k] : moved[k][i] = r})
          = IF r \in ToSet(moved[k]) THEN 1 ELSE 0
    BY <2>1, Occurs
  <2> QED
    BY <2>1, <2>2, <2>3
<1> QED
  BY <1>1, QueueInductive, PTL

\* No request is polled more often than GRAMMAR_TIMEOUT allows: the rank that finds it late
\* rejects it in the same iteration or ends, whatever the other ranks report.
THEOREM GrammarTypes == Spec => []TypeOK
<1>1. IInv /\ QInv => TypeOK
  <2> SUFFICES ASSUME IInv, QInv, NEW k \in Ranks
               PROVE  /\ ToSet(queue[k]) \cup ToSet(moved[k]) \subseteq sent /\ done[k] \subseteq sent
                      /\ grammar[k] \in [Reqs -> {"none", "future", "valid"}]
                      /\ cache[k] \in [Keys -> {"none", "valid", "invalid"}]
                      /\ polls[k] \in [Reqs -> 0..(MaxPolls + 1)]
                      /\ ready[k] \in 0..Len(queue[k]) \/ pc[k] \in {"moved", "dead"}
    BY DEF TypeOK
  <2>1. /\ ToSet(queue[k]) \cup ToSet(moved[k]) \subseteq sent /\ done[k] \subseteq sent
        /\ polls[k] \in [Reqs -> 0..(MaxPolls + 1)]
    BY DEF QInv, Split, Waits
  <2>2. /\ grammar[k] \in [Reqs -> {"none", "future", "valid"}]
        /\ cache[k] \in [Keys -> {"none", "valid", "invalid"}]
        /\ pc[k] \in {"recv", "sync", "fill", "moved", "dead"}
    BY DEF IInv, Typed
  <2>3. PICK q \in Seq(Reqs), mv \in Seq(Reqs), f \in SUBSET Reqs,
             c \in [Keys -> {"none", "valid", "invalid"}] : Along(k, q, mv, f, c)
    BY Zenon DEF IInv, Together
  <2>4. pc[k] \in {"recv", "sync", "fill"} => queue[k] = q
    BY <2>3 DEF Along, AtRecv, Polled
  <2>5. ready[k] \in 0..Len(q)
    BY <2>3 DEF Along
  <2> QED
    BY <2>1, <2>2, <2>4, <2>5
<1> QED
  BY <1>1, Inductive, QueueInductive, PTL
=============================================================================
