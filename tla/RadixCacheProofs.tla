-------------------------- MODULE RadixCacheProofs --------------------------
(***************************************************************************)
(* The locks and the sizes of the radix cache.  lock_ref is exact, and the *)
(* pages of a locked prefix never change: the inductive invariant IInv     *)
(* pairs the tree with the map from every lock holder to the node it holds.*)
(* evictable_size_ and protected_size_, which the code keeps by adding and *)
(* subtracting in five places, are exact: what the allocator can get by    *)
(* evicting, and the locked rest.                                          *)
(***************************************************************************)
EXTENDS RadixCache, RadixTreeProofs

USE SMTT(30)
-----------------------------------------------------------------------------
(* The inductive invariant.                                                *)

Holding(q) == q.phase \in {"ready", "chunk", "run"}

\* The node each lock holder holds.
At(R) == [r \in {s \in Reqs : Holding(R[s])} |-> R[r].node]

\* The inductive invariant: a radix tree whose locks are counted by the requests that
\* hold a node, typed free lists, typed requests, and the law of their lengths.
IInv ==
  /\ LockedTree(tree, At(req))
  /\ free \in [Pages -> Nat]
  /\ req \in [Reqs -> Request]
  /\ \A r \in Reqs : FillLaw(req[r])

\* A step of HeldPrefixStable.
HeldStep ==
  \A r \in Holders :
    req'[r].phase # "none" /\ req'[r].phase # "waiting" =>
      \A q \in Paths(tree) : IsPrefix(q, req[r].node) =>
        q \in DOMAIN tree'.val /\ tree'.val[q] = tree.val[q]

\* One request changes: the others keep their laws, and the holders change accordingly.
LEMMA Update ==
  ASSUME NEW R \in [Reqs -> Request], \A s \in Reqs : FillLaw(R[s]), NEW r \in Reqs,
         NEW q \in Request, FillLaw(q), NEW R2, R2 = [R EXCEPT ![r] = q]
  PROVE  /\ R2 \in [Reqs -> Request] /\ \A s \in Reqs : FillLaw(R2[s])
         /\ Holding(q) /\ ~Holding(R[r]) => Joins(At(R), At(R2), r, q.node)
         /\ ~Holding(q) /\ Holding(R[r]) => Joins(At(R2), At(R), r, R[r].node)
<1>1. /\ R2 \in [Reqs -> Request] /\ R2[r] = q
      /\ \A s \in Reqs : s # r => R2[s] = R[s]
  OBVIOUS
<1>2. \A s \in Reqs : FillLaw(R2[s])
  BY <1>1
<1> DEFINE H == {s \in Reqs : Holding(R[s])}
           H2 == {s \in Reqs : Holding(R2[s])}
<1>3. IsFiniteSet(H) /\ IsFiniteSet(H2)
  BY FS_Subset, ConstantsOK, H \subseteq Reqs, H2 \subseteq Reqs
<1>4. /\ DOMAIN At(R) = H /\ DOMAIN At(R2) = H2
      /\ \A s \in H : At(R)[s] = R[s].node
      /\ \A s \in H2 : At(R2)[s] = R2[s].node
  BY DEF At
<1>5. \A s \in Reqs : s # r => (s \in H2 <=> s \in H)
  BY <1>1
<1>6. (r \in H2 <=> Holding(q)) /\ (r \in H <=> Holding(R[r]))
  BY <1>1
<1>7. H \subseteq Reqs /\ H2 \subseteq Reqs
  OBVIOUS
<1> HIDE DEF H, H2
<1>8. Holding(q) /\ ~Holding(R[r]) => Joins(At(R), At(R2), r, q.node)
  BY <1>1, <1>3, <1>4, <1>5, <1>6, <1>7, Zenon DEF Joins
<1>9. ~Holding(q) /\ Holding(R[r]) => Joins(At(R2), At(R), r, R[r].node)
  BY <1>1, <1>3, <1>4, <1>5, <1>6, <1>7, Zenon DEF Joins
<1> QED
  BY <1>1, <1>2, <1>8, <1>9

\* A holder moves its lock to another node.
LEMMA UpdateMove ==
  ASSUME NEW R \in [Reqs -> Request], NEW r \in Reqs, NEW q \in Request,
         NEW R2, R2 = [R EXCEPT ![r] = q], Holding(q), Holding(R[r])
  PROVE  Moved(At(R), At(R2), r, q.node)
<1>1. R2[r] = q /\ \A s \in Reqs : s # r => R2[s] = R[s]
  OBVIOUS
<1> DEFINE H == {s \in Reqs : Holding(R[s])}
           H2 == {s \in Reqs : Holding(R2[s])}
<1>2. H = H2 /\ r \in H
  BY <1>1
<1>3. At(R) = [s \in H |-> R[s].node] /\ At(R2) = [s \in H2 |-> R2[s].node]
  BY DEF At
<1>4. \A s \in H2 : s \in Reqs
  OBVIOUS
<1> HIDE DEF H, H2
<1> QED
  BY <1>1, <1>2, <1>3, <1>4, Zenon DEF Moved

\* The holders and their nodes are the same after a step that moves no lock.
LEMMA UpdateSame ==
  ASSUME NEW R \in [Reqs -> Request], NEW r \in Reqs, NEW q \in Request,
         NEW R2, R2 = [R EXCEPT ![r] = q],
         \/ ~Holding(q) /\ ~Holding(R[r])
         \/ Holding(q) /\ Holding(R[r]) /\ q.node = R[r].node
  PROVE  At(R2) = At(R)
<1>1. R2[r] = q /\ \A s \in Reqs : s # r => R2[s] = R[s]
  OBVIOUS
<1> DEFINE H == {s \in Reqs : Holding(R[s])}
           H2 == {s \in Reqs : Holding(R2[s])}
<1>2. H = H2
  BY <1>1
<1>3. At(R) = [s \in H |-> R[s].node] /\ At(R2) = [s \in H2 |-> R2[s].node]
  BY DEF At
<1>4. \A s \in H2 : s \in Reqs /\ Holding(R2[s])
  OBVIOUS
<1> HIDE DEF H, H2
<1>5. \A s \in H2 : R2[s].node = R[s].node
  BY <1>1, <1>4
<1> QED
  BY <1>2, <1>3, <1>5

\* If the pages of all holders are kept, or of all that go on holding, the step is held.
LEMMA HeldKept ==
  ASSUME req \in [Reqs -> Request], req' \in [Reqs -> Request],
         \/ Keeps(tree, tree', At(req))
         \/ /\ Keeps(tree, tree', At(req'))
            /\ \A r \in Reqs : Holding(req[r]) /\ Holding(req'[r]) => req'[r].node = req[r].node
  PROVE  HeldStep
<1> SUFFICES ASSUME NEW r \in Holders, req'[r].phase # "none", req'[r].phase # "waiting",
                    NEW q \in Paths(tree), IsPrefix(q, req[r].node)
             PROVE  q \in DOMAIN tree'.val /\ tree'.val[q] = tree.val[q]
  BY DEF HeldStep
<1>1. r \in Reqs /\ Holding(req[r])
  BY DEF Holders, Holding
<1>2. Holding(req'[r])
  BY <1>1 DEF Holding, Request
<1>3. /\ r \in DOMAIN At(req) /\ At(req)[r] = req[r].node
      /\ r \in DOMAIN At(req') /\ At(req')[r] = req'[r].node
  BY <1>1, <1>2 DEF At
<1> QED
  BY <1>1, <1>2, <1>3 DEF Keeps, Paths
-----------------------------------------------------------------------------
(* The request records the actions make.                                   *)

Admitted(q, n, node, pre, m) ==
  [q EXCEPT !.phase = "ready", !.fill = n, !.node = node, !.prefix = pre, !.matched = m]
Extended(q, w, ph, pe) == [q EXCEPT !.row = w, !.phase = ph, !.pend = pe]
Decoded(q, w, pe) == [q EXCEPT !.row = w, !.pend = pe]
Rechunked(q, n, w) == [q EXCEPT !.phase = "ready", !.fill = n, !.row = w]

\* FillLaw by the fields it speaks of.
Lawful(ph, ids, fill, row, pend) ==
  /\ ph # "none" => Len(ids) > 0
  /\ ph \in {"ready", "chunk", "run"} => fill <= Len(ids)
  /\ ph \in {"chunk", "run"} => fill <= Len(row)
  /\ ph = "run" => Len(pend) <= 2 /\ Len(row) = Len(ids) + Len(pend) - 1

\* FillLaw by the fields it reads.
LEMMA FillLawful ==
  ASSUME NEW q
  PROVE  FillLaw(q) <=> Lawful(q.phase, q.ids, q.fill, q.row, q.pend)
BY DEF FillLaw, Lawful

\* A free slot, and a request that waits, hold nothing.
LEMMA NoReqType ==
  NoReq \in Request /\ FillLaw(NoReq) /\ ~Holding(NoReq)
<1>1. 0 \in 0..(MaxNew - 1)
  BY ConstantsOK
<1>2. NoReq \in Request
  BY <1>1 DEF NoReq, Request, ExtraKeys, Root
<1> QED
  BY <1>2 DEF FillLaw, Holding, NoReq

\* A queued request is typed and holds no node.
LEMMA QueuedType ==
  ASSUME NEW ids \in Seq(Nat), Len(ids) > 0, NEW out \in 0..(MaxNew - 1), NEW ek \in ExtraKeys
  PROVE  LET q == Queued(ids, out, ek)
         IN  q \in Request /\ FillLaw(q) /\ ~Holding(q)
<1> DEFINE q == Queued(ids, out, ek)
<1>1. NoReq \in Request
  BY NoReqType
<1>2. q \in Request /\ q.phase = "waiting" /\ q.ids = ids
  BY <1>1, Zenon DEF Queued, Request
<1> HIDE DEF q
<1>3. FillLaw(q) /\ ~Holding(q)
  BY <1>2 DEF FillLaw, Holding
<1> QED
  BY <1>2, <1>3 DEF q

\* So is one that add_one_req admitted, and it holds its match.
LEMMA AdmittedType ==
  ASSUME NEW q \in Request, NEW n \in Nat, NEW node \in Seq(PageKey), NEW pre \in Seq(Pages),
         NEW m \in Nat, Len(q.ids) > 0, n <= Len(q.ids)
  PROVE  LET c == Admitted(q, n, node, pre, m)
         IN  c \in Request /\ FillLaw(c) /\ Holding(c) /\ c.node = node
<1> DEFINE c == Admitted(q, n, node, pre, m)
<1>1. c \in Request /\ c.node = node /\ c.phase = "ready" /\ c.fill = n /\ c.ids = q.ids
  BY Zenon DEF Admitted, Request
<1> HIDE DEF c
<1>2. FillLaw(c) /\ Holding(c)
  BY <1>1 DEF FillLaw, Holding
<1> QED
  BY <1>1, <1>2 DEF c

\* alloc_for_extend leaves a typed request with a row as long as its fill.
LEMMA ExtendedType ==
  ASSUME NEW q \in Request, NEW w \in Seq(Pages), FillLaw(q), Len(w) = q.fill,
         Holding(q)
  PROVE  LET c == Extended(q, w, IF q.fill < Len(q.ids) THEN "chunk" ELSE "run",
                                 IF q.fill < Len(q.ids) THEN <<>> ELSE <<"prefill">>)
         IN  c \in Request /\ FillLaw(c) /\ Holding(c) /\ c.node = q.node
<1> DEFINE ph == IF q.fill < Len(q.ids) THEN "chunk" ELSE "run"
           pe == IF q.fill < Len(q.ids) THEN <<>> ELSE <<"prefill">>
           c == Extended(q, w, ph, pe)
<1>1. /\ ph \in {"chunk", "run"} /\ pe \in Seq({"prefill", "decode"})
      /\ ph = "run" => Len(pe) = 1 /\ ~(q.fill < Len(q.ids))
  <2>1. CASE q.fill < Len(q.ids)
    BY <2>1
  <2>2. CASE ~(q.fill < Len(q.ids))
    <3>1. ph = "run" /\ pe = <<"prefill">>
      BY <2>2
    <3> HIDE DEF ph, pe
    <3> QED
      BY <2>2, <3>1
  <2> QED
    BY <2>1, <2>2
<1> HIDE DEF ph, pe
<1>2. /\ c \in Request /\ c.node = q.node /\ c.phase = ph /\ c.fill = q.fill
      /\ c.ids = q.ids /\ c.row = w /\ c.pend = pe
  BY <1>1, Zenon DEF Extended, Request
<1> HIDE DEF c
<1>3. q.fill \in Nat /\ q.ids \in Seq(Nat) /\ q.fill <= Len(q.ids) /\ Len(q.ids) > 0
  BY DEF Request, FillLaw, Holding
<1>4. Lawful(ph, q.ids, q.fill, w, pe)
  <2>1. ASSUME ph = "run" PROVE Len(pe) <= 2 /\ Len(w) = Len(q.ids) + Len(pe) - 1
    <3>1. Len(pe) = 1 /\ q.fill = Len(q.ids)
      BY <1>1, <1>3, <2>1
    <3> QED
      BY <1>1, <1>3, <3>1
  <2> QED
    BY <1>3, <2>1 DEF Lawful
<1>5. FillLaw(c) /\ Holding(c)
  BY <1>1, <1>2, <1>4, FillLawful DEF Holding
<1> QED
  BY <1>2, <1>5 DEF c, ph, pe

\* alloc_for_decode leaves a typed request whose row has grown with its pending results.
LEMMA DecodedType ==
  ASSUME NEW q \in Request, NEW w \in Seq(Pages), FillLaw(q), q.phase = "run",
         Len(w) = Len(q.row) + 1, Len(q.pend) <= 1
  PROVE  LET c == Decoded(q, w, Append(q.pend, "decode"))
         IN  c \in Request /\ FillLaw(c) /\ Holding(c) /\ c.node = q.node
<1> DEFINE pe == Append(q.pend, "decode")
           c == Decoded(q, w, pe)
           li == Len(q.ids)
           lp == Len(q.pend)
           lr == Len(q.row)
           f  == q.fill
<1>1. /\ q.pend \in Seq({"prefill", "decode"}) /\ q.fill \in Nat /\ q.ids \in Seq(Nat)
      /\ q.row \in Seq(Pages)
  BY DEF Request
<1>2. pe \in Seq({"prefill", "decode"}) /\ Len(pe) = lp + 1
  BY <1>1
<1>3. li \in Nat /\ lp \in Nat /\ lr \in Nat /\ f \in Nat
  BY <1>1
<1>4. li > 0 /\ f <= li /\ f <= lr /\ lr = li + lp - 1 /\ lp <= 1 /\ Len(w) = lr + 1
  BY Zenon DEF FillLaw
<1> HIDE DEF pe, li, lp, lr, f
<1>5. /\ c \in Request /\ c.node = q.node /\ c.phase = "run" /\ c.fill = f
      /\ c.ids = q.ids /\ c.row = w /\ c.pend = pe
  BY <1>2, Zenon DEF Decoded, Request, f
<1> HIDE DEF c
<1>6. lp + 1 <= 2 /\ lr + 1 = li + (lp + 1) - 1 /\ f <= lr + 1
  BY <1>3, <1>4
<1>7. Lawful("run", q.ids, f, w, pe)
  BY <1>2, <1>4, <1>6 DEF Lawful, li
<1>8. FillLaw(c) /\ Holding(c)
  BY <1>5, <1>7, FillLawful DEF Holding
<1> QED
  BY <1>5, <1>8 DEF c, pe

\* A request whose chunk is cached waits, typed, for its next chunk.
LEMMA RechunkedType ==
  ASSUME NEW q \in Request, NEW n \in Nat, n <= Len(q.ids), Len(q.ids) > 0,
         NEW w \in Seq(Pages)
  PROVE  LET c == Rechunked(q, n, w)
         IN  c \in Request /\ FillLaw(c) /\ Holding(c) /\ c.node = q.node
<1> DEFINE c == Rechunked(q, n, w)
<1>1. c \in Request /\ c.node = q.node /\ c.phase = "ready" /\ c.fill = n /\ c.ids = q.ids
  BY Zenon DEF Rechunked, Request
<1> HIDE DEF c
<1>2. FillLaw(c) /\ Holding(c)
  BY <1>1 DEF FillLaw, Holding
<1> QED
  BY <1>1, <1>2 DEF c

\* A token is sampled for the oldest forward pass in flight.
LEMMA SampledType ==
  ASSUME NEW q \in Request, NEW t \in Tok, FillLaw(q), q.phase = "run", q.pend # <<>>
  PROVE  LET s == Sampled(q, t)
         IN  /\ s.ids \in Seq(Nat) /\ s.extra_key \in ExtraKeys /\ s.row \in Seq(Pages)
             /\ s.node = q.node /\ s.phase = "run" /\ s.fill <= Len(s.ids)
             /\ s.fill <= Len(s.row) /\ Len(s.row) <= Len(s.ids)
             /\ s.out < MaxNew => s \in Request /\ FillLaw(s)
<1> DEFINE s == Sampled(q, t)
           ids == Append(q.ids, t)
           pe == Tail(q.pend)
           li == Len(q.ids)
           lp == Len(q.pend)
           lr == Len(q.row)
           f  == q.fill
<1>1. /\ q.pend \in Seq({"prefill", "decode"}) /\ q.fill \in Nat /\ q.ids \in Seq(Nat)
      /\ q.row \in Seq(Pages) /\ q.out \in 0..(MaxNew - 1) /\ q.extra_key \in ExtraKeys
      /\ MaxNew \in Nat
  BY ConstantsOK DEF Request
<1>2. pe \in Seq({"prefill", "decode"}) /\ Len(pe) = lp - 1
  BY <1>1
<1>3. ids \in Seq(Nat) /\ Len(ids) = li + 1
  BY <1>1, ClientConstants
<1>4. li \in Nat /\ lp \in Nat /\ lr \in Nat /\ f \in Nat
  BY <1>1
<1>5. li > 0 /\ f <= li /\ f <= lr /\ lr = li + lp - 1 /\ lp <= 2
  BY Zenon DEF FillLaw
<1> HIDE DEF pe, ids, li, lp, lr, f
<1>6. /\ s.ids = ids /\ s.extra_key = q.extra_key /\ s.row = q.row /\ s.node = q.node
      /\ s.phase = "run" /\ s.fill = f /\ s.out = q.out + 1 /\ s.pend = pe
  BY DEF Sampled, Request, pe, ids, f
<1>7. s.out < MaxNew => s \in Request
  <2> SUFFICES ASSUME q.out + 1 < MaxNew PROVE s \in Request
    BY <1>6
  <2>1. q.out + 1 \in 0..(MaxNew - 1)
    BY <1>1
  <2>2. s = [q EXCEPT !.ids = ids, !.out = q.out + 1, !.pend = pe]
    BY DEF Sampled, pe, ids
  <2> QED
    BY <1>2, <1>3, <2>1, <2>2, Zenon DEF Request
<1> HIDE DEF s
<1>8. /\ lp - 1 <= 2 /\ lr = (li + 1) + (lp - 1) - 1 /\ f <= li + 1 /\ li + 1 > 0
      /\ lr <= li + 1
  BY <1>4, <1>5
<1>9. Lawful("run", ids, f, q.row, pe)
  BY <1>2, <1>3, <1>5, <1>8 DEF Lawful, lr
<1>10. FillLaw(s)
  BY <1>6, <1>9, FillLawful
<1>11. f <= Len(ids) /\ f <= Len(q.row) /\ Len(q.row) <= Len(ids)
  BY <1>3, <1>5, <1>8 DEF lr
<1>12. /\ s.fill <= Len(s.ids) /\ s.fill <= Len(s.row) /\ Len(s.row) <= Len(s.ids)
  BY <1>6, <1>11, Zenon
<1> QED
  BY <1>1, <1>3, <1>6, <1>7, <1>10, <1>12 DEF s
-----------------------------------------------------------------------------
(* Every action preserves IInv and holds the locked prefixes.              *)

\* The match ends at a stored path or at the root.
LEMMA MatchStep ==
  ASSUME NEW T, NEW at, LockedTree(T, at), NEW q \in Request, Len(q.ids) > 0
  PROVE  /\ LockedTree(Match(T, AdmitKey(q)), at) /\ Keeps(T, Match(T, AdmitKey(q)), at)
         /\ MatchNode(T, AdmitKey(q)) \in Nodes(Match(T, AdmitKey(q)))
<1> DEFINE key == AdmitKey(q)
           m == MatchLen(T, key)
           n == MatchNode(T, key)
<1>1. q.ids \in Seq(Nat) /\ q.extra_key \in ExtraKeys
  BY DEF Request
<1>2. Len(q.ids) - 1 \in 0..Len(q.ids)
  BY <1>1
<1>3. key \in Seq(PageKey)
  BY <1>1, <1>2, KeyOfType DEF AdmitKey
<1> HIDE DEF key
<1>4. m \in 0..Len(key) /\ (m = 0 \/ SubSeq(key, 1, m) \in Paths(T))
  BY <1>3, MatchLenDef
<1>5. n = SubSeq(key, 1, m)
  BY DEF MatchNode
<1> HIDE DEF m, n
<1>6. SubSeq(key, 1, 0) = Root
  BY <1>3 DEF Root
<1>7. n \in Paths(T) \cup {Root}
  BY <1>4, <1>5, <1>6
<1>8. Match(T, key) = Split(T, n)
  BY DEF Match, n
<1>9. LockedTree(Split(T, n), at) /\ Keeps(T, Split(T, n), at) /\ n \in Nodes(Split(T, n))
  BY <1>7, SplitStep
<1> QED
  BY <1>8, <1>9 DEF key, n

\* No chunk passes the end of the tokens.
LEMMA FillsType ==
  ASSUME NEW q, q.ids \in Seq(Nat), NEW have \in Nat, NEW al, NEW n \in Fills(q, have, al)
  PROVE  n \in Nat /\ n <= Len(q.ids)
<1>1. CASE n = Len(q.ids)
  BY <1>1
<1>2. CASE n # Len(q.ids)
  <2>1. PICK c \in ChunkSizes : n = have + c /\ n < Len(q.ids)
    BY <1>2 DEF Fills
  <2> QED
    BY <2>1, ClientConstants
<1> QED
  BY <1>1, <1>2

\* A step that touches no tree and no holder.
LEMMA QuietStep ==
  ASSUME IInv, NEW r \in Reqs, NEW q \in Request, FillLaw(q), ~Holding(q), ~Holding(req[r]),
         req' = [req EXCEPT ![r] = q], UNCHANGED <<tree, free>>
  PROVE  IInv' /\ HeldStep
<1>0. req \in [Reqs -> Request] /\ \A s \in Reqs : FillLaw(req[s])
  BY DEF IInv
<1>1. req' \in [Reqs -> Request] /\ \A s \in Reqs : FillLaw(req'[s])
  BY <1>0, Update
<1>2. At(req') = At(req)
  BY <1>0, UpdateSame, Zenon
<1>3. Keeps(tree, tree', At(req))
  BY DEF Keeps
<1>4. HeldStep
  BY <1>1, <1>3, HeldKept DEF IInv
<1> QED
  BY <1>1, <1>2, <1>4 DEF IInv

\* A new request holds nothing.
LEMMA ArriveStep ==
  ASSUME IInv, NEW r \in Reqs, Arrive(r)
  PROVE  IInv' /\ HeldStep
<1>1. PICK i \in Inputs : req' = [req EXCEPT ![r] = Queued(i.ids, 0, i.extra_key)]
  BY Zenon DEF Arrive
<1>2. i.ids \in Seq(Nat) /\ Len(i.ids) > 0 /\ 0 \in 0..(MaxNew - 1)
  BY ConstantsOK
<1>3. i.extra_key \in ExtraKeys
  BY DEF ExtraKeys
<1> DEFINE q == Queued(i.ids, 0, i.extra_key)
<1>4. q \in Request /\ FillLaw(q) /\ ~Holding(q)
  BY <1>2, <1>3, QueuedType
<1>5. ~Holding(req[r])
  BY DEF Arrive, Holding
<1> HIDE DEF q
<1>6. req' = [req EXCEPT ![r] = q] /\ UNCHANGED <<tree, free>>
  BY <1>1, Zenon DEF Arrive, q
<1> QED
  BY <1>4, <1>5, <1>6, QuietStep, Zenon

\* A queued request that is aborted held nothing.
LEMMA AbortStep ==
  ASSUME IInv, NEW r \in Reqs, Abort(r)
  PROVE  IInv' /\ HeldStep
<1>1. ~Holding(req[r])
  BY DEF Abort, Holding
<1> QED
  BY <1>1, NoReqType, QuietStep, Zenon DEF Abort

\* A match that admits nobody at most splits a node.
LEMMA RejectStep ==
  ASSUME IInv, NEW r \in Reqs, Reject(r)
  PROVE  IInv' /\ HeldStep
<1>1. req[r] \in Request /\ Len(req[r].ids) > 0
  BY Zenon DEF Reject, IInv, FillLaw
<1>2. LockedTree(tree', At(req)) /\ Keeps(tree, tree', At(req))
  BY <1>1, MatchStep DEF IInv, Reject
<1>3. req' = req /\ free' = free
  BY DEF Reject
<1>4. HeldStep
  BY <1>2, <1>3, HeldKept DEF IInv
<1> QED
  BY <1>2, <1>3, <1>4 DEF IInv

\* Admission locks the node of the match.
LEMMA AdmitStep ==
  ASSUME IInv, NEW r \in Reqs, Admit(r)
  PROVE  IInv' /\ HeldStep
<1> DEFINE q == req[r]
           key == AdmitKey(q)
           node == MatchNode(tree, key)
           S == Match(tree, key)
           m == Len(node) * PageSize
           pre == Indices(S, node)
<1>1. q \in Request /\ Len(q.ids) > 0 /\ ~Holding(q) /\ q.ids \in Seq(Nat)
  BY Zenon DEF Admit, IInv, FillLaw, Holding, Request
<1>2. LockedTree(S, At(req)) /\ Keeps(tree, S, At(req)) /\ node \in Nodes(S)
  BY <1>1, MatchStep DEF IInv
<1>3. PICK n \in Fills(q, m, TRUE) : req' = [req EXCEPT ![r] = Admitted(q, n, node, pre, m)]
  BY Zenon DEF Admit, Admitted
<1>4. tree' = IncLockRef(S, node) /\ free' = free
  BY DEF Admit
<1> HIDE DEF q, key, node, S
<1>5. node \in Seq(PageKey)
  BY <1>2 DEF LockedTree, TreeOK
<1>6. m \in Nat
  BY <1>5, PageSizeAssumption
<1>7. pre \in Seq(Pages)
  BY <1>2, IndicesType DEF LockedTree
<1> HIDE DEF pre, m
<1>8. n \in Nat /\ n <= Len(q.ids)
  BY <1>1, <1>6, FillsType, Zenon
<1> DEFINE c == Admitted(q, n, node, pre, m)
<1>9. c \in Request /\ FillLaw(c) /\ Holding(c) /\ c.node = node
  BY <1>1, <1>5, <1>6, <1>7, <1>8, AdmittedType
<1> HIDE DEF c
<1>10. req' = [req EXCEPT ![r] = c]
  BY <1>3 DEF c
<1>11. ~Holding(req[r])
  BY <1>1 DEF q
<1>12. /\ req' \in [Reqs -> Request] /\ \A s \in Reqs : FillLaw(req'[s])
       /\ Joins(At(req), At(req'), r, node)
  BY <1>9, <1>10, <1>11, Update, Zenon DEF IInv
<1>13. LockedTree(tree', At(req')) /\ Keeps(S, tree', At(req))
  BY <1>2, <1>4, <1>12, IncStep
<1>14. Keeps(tree, tree', At(req))
  BY <1>2, <1>13, KeepsTrans
<1>15. HeldStep
  BY <1>12, <1>14, HeldKept DEF IInv
<1> QED
  BY <1>4, <1>12, <1>13, <1>15 DEF IInv

\* Eviction and allocation on the free lists.
LEMMA AllocType ==
  ASSUME NEW T, NEW f \in [Pages -> Nat], NEW E, NEW a \in Int, NEW b \in Int,
         NEW new \in Allocations(AfterEvict(T, f, E), NewPages(a, b))
  PROVE  /\ Without(AfterEvict(T, f, E), new) \in [Pages -> Nat]
         /\ new \in [1..NewPages(a, b) -> Pages]
<1> DEFINE g == AfterEvict(T, f, E)
           k == NewPages(a, b)
<1>1. g \in [Pages -> Nat]
  BY FreeType DEF AfterEvict
<1>2. k \in Int
  BY PageSizeAssumption DEF NewPages
<1> HIDE DEF g, k
<1>3. \A n \in Allocations(g, k) : Without(g, n) \in [Pages -> Nat] /\ n \in [1..k -> Pages]
  BY <1>1, <1>2, FreeType
<1> QED
  BY <1>3 DEF g, k

\* A holder's record changes but not its node, and nodes may be evicted.
LEMMA EvictingStep ==
  ASSUME IInv, NEW r \in Reqs, NEW q \in Request, FillLaw(q), Holding(q), Holding(req[r]),
         q.node = req[r].node, req' = [req EXCEPT ![r] = q], free' \in [Pages -> Nat],
         NEW num, NEW E \in Evictions(tree, free, num), tree' = Delete(tree, E)
  PROVE  IInv' /\ HeldStep
<1>0. req \in [Reqs -> Request] /\ \A s \in Reqs : FillLaw(req[s])
  BY DEF IInv
<1>1. req' \in [Reqs -> Request] /\ \A s \in Reqs : FillLaw(req'[s])
  BY <1>0, Update
<1>2. At(req') = At(req)
  BY <1>0, UpdateSame, Zenon
<1>3. LockedTree(tree', At(req)) /\ Keeps(tree, tree', At(req))
  BY EvictStep DEF IInv
<1>4. HeldStep
  BY <1>0, <1>1, <1>3, HeldKept
<1> QED
  BY <1>1, <1>2, <1>3, <1>4 DEF IInv

\* Prefill allocation evicts around the locks and grows one row.
LEMMA ExtendStep ==
  ASSUME IInv, NEW r \in Reqs, Extend(r)
  PROVE  IInv' /\ HeldStep
<1> DEFINE q == req[r]
           ph == IF q.fill < Len(q.ids) THEN "chunk" ELSE "run"
           pe == IF q.fill < Len(q.ids) THEN <<>> ELSE <<"prefill">>
<1>1. q \in Request /\ FillLaw(q) /\ Holding(q)
  BY DEF Extend, IInv, Holding
<1>2. q.prefix \in Seq(Pages) /\ q.fill \in Nat /\ Len(q.prefix) \in Int
  BY <1>1 DEF Request
<1>3. PICK slack \in 0..BatchSlack :
      \E E \in Evictions(tree, free, Overestimate(q.fill - Len(q.prefix)) + slack) :
      \E new \in Allocations(AfterEvict(tree, free, E), NewPages(Len(q.prefix), q.fill)) :
           /\ tree' = Delete(tree, E)
           /\ free' = Without(AfterEvict(tree, free, E), new)
           /\ req' = [req EXCEPT ![r] = Extended(q, Grown(q.prefix, q.fill, new), ph, pe)]
  BY Zenon DEF Extend, Extended
<1> DEFINE num == Overestimate(q.fill - Len(q.prefix)) + slack
<1>4. PICK E \in Evictions(tree, free, num) :
      \E new \in Allocations(AfterEvict(tree, free, E), NewPages(Len(q.prefix), q.fill)) :
           /\ tree' = Delete(tree, E)
           /\ free' = Without(AfterEvict(tree, free, E), new)
           /\ req' = [req EXCEPT ![r] = Extended(q, Grown(q.prefix, q.fill, new), ph, pe)]
  BY <1>3, Zenon
<1>5. PICK new \in Allocations(AfterEvict(tree, free, E), NewPages(Len(q.prefix), q.fill)) :
           /\ tree' = Delete(tree, E)
           /\ free' = Without(AfterEvict(tree, free, E), new)
           /\ req' = [req EXCEPT ![r] = Extended(q, Grown(q.prefix, q.fill, new), ph, pe)]
  BY <1>4, Zenon
<1> HIDE DEF num
<1> DEFINE w == Grown(q.prefix, q.fill, new)
           c == Extended(q, w, ph, pe)
<1>6. free \in [Pages -> Nat]
  BY DEF IInv
<1>7. free' \in [Pages -> Nat] /\ new \in [1..NewPages(Len(q.prefix), q.fill) -> Pages]
  <2>1. free' = Without(AfterEvict(tree, free, E), new)
    BY <1>5
  <2>2. /\ Without(AfterEvict(tree, free, E), new) \in [Pages -> Nat]
        /\ new \in [1..NewPages(Len(q.prefix), q.fill) -> Pages]
    <3>1. Len(q.prefix) \in Int /\ q.fill \in Int
      BY <1>2
    <3> QED
      BY <1>6, <3>1, AllocType, Zenon
  <2> QED
    BY <2>1, <2>2
<1>8. w \in Seq(Pages) /\ Len(w) = q.fill
  BY <1>2, <1>7, GrownType, Zenon
<1> HIDE DEF w
<1>9. c \in Request /\ FillLaw(c) /\ Holding(c) /\ c.node = q.node
  BY <1>1, <1>8, ExtendedType
<1>10. req' = [req EXCEPT ![r] = c] /\ tree' = Delete(tree, E)
  BY <1>5 DEF w
<1> HIDE DEF c
<1>11. Holding(req[r]) /\ c.node = req[r].node
  BY <1>1, <1>9
<1> QED
  BY <1>7, <1>9, <1>10, <1>11, EvictingStep, Zenon

\* Decode allocation evicts around the locks and grows one row by a token.
LEMMA DecodeStep ==
  ASSUME IInv, NEW r \in Reqs, Decode(r)
  PROVE  IInv' /\ HeldStep
<1> DEFINE q == req[r]
           b == Len(q.row) + 1
           pe == Append(q.pend, "decode")
<1>1. q \in Request /\ FillLaw(q) /\ q.phase = "run" /\ Holding(q)
  BY DEF Decode, Launchable, IInv, Holding
<1>2. q.row \in Seq(Pages) /\ Len(q.row) \in Int /\ b \in Nat /\ q.pend \in Seq({"prefill", "decode"})
  BY <1>1 DEF Request
<1>3. Len(q.pend) <= 1
  BY <1>2 DEF Decode, Launchable
<1>4. PICK slack \in 0..BatchSlack : \E E \in Evictions(tree, free, PageSize + slack) :
      \E new \in Allocations(AfterEvict(tree, free, E), NewPages(Len(q.row), b)) :
           /\ tree' = Delete(tree, E)
           /\ free' = Without(AfterEvict(tree, free, E), new)
           /\ req' = [req EXCEPT ![r] = Decoded(q, Grown(q.row, b, new), pe)]
  BY Zenon DEF Decode, Decoded
<1> DEFINE num == PageSize + slack
<1>5. PICK E \in Evictions(tree, free, num) :
      \E new \in Allocations(AfterEvict(tree, free, E), NewPages(Len(q.row), b)) :
           /\ tree' = Delete(tree, E)
           /\ free' = Without(AfterEvict(tree, free, E), new)
           /\ req' = [req EXCEPT ![r] = Decoded(q, Grown(q.row, b, new), pe)]
  BY <1>4, Zenon
<1>6. PICK new \in Allocations(AfterEvict(tree, free, E), NewPages(Len(q.row), b)) :
           /\ tree' = Delete(tree, E)
           /\ free' = Without(AfterEvict(tree, free, E), new)
           /\ req' = [req EXCEPT ![r] = Decoded(q, Grown(q.row, b, new), pe)]
  BY <1>5, Zenon
<1> HIDE DEF num
<1> DEFINE w == Grown(q.row, b, new)
           c == Decoded(q, w, pe)
<1>7. free \in [Pages -> Nat]
  BY DEF IInv
<1>8. free' \in [Pages -> Nat] /\ new \in [1..NewPages(Len(q.row), b) -> Pages]
  <2>1. free' = Without(AfterEvict(tree, free, E), new)
    BY <1>6
  <2>2. /\ Without(AfterEvict(tree, free, E), new) \in [Pages -> Nat]
        /\ new \in [1..NewPages(Len(q.row), b) -> Pages]
    <3>1. Len(q.row) \in Int /\ b \in Int
      BY <1>2
    <3> QED
      BY <1>7, <3>1, AllocType, Zenon
  <2> QED
    BY <2>1, <2>2
<1>9. w \in Seq(Pages) /\ Len(w) = Len(q.row) + 1
  BY <1>2, <1>8, GrownType
<1>10. req' = [req EXCEPT ![r] = c] /\ tree' = Delete(tree, E)
  BY <1>6
<1> HIDE DEF w
<1>11. c \in Request /\ FillLaw(c) /\ Holding(c) /\ c.node = q.node
  BY <1>1, <1>3, <1>9, DecodedType, Zenon
<1> HIDE DEF c
<1>12. Holding(req[r]) /\ c.node = req[r].node
  BY <1>1, <1>11
<1> QED
  BY <1>8, <1>10, <1>11, <1>12, EvictingStep, Zenon

\* The memory check only evicts.
LEMMA CheckDecodeMemStep ==
  ASSUME IInv, NEW r \in Reqs, CheckDecodeMem(r)
  PROVE  IInv' /\ HeldStep
<1>1. PICK n \in 1..BatchSlack : \E E \in Evictions(tree, free, n) :
         tree' = Delete(tree, E) /\ free' = AfterEvict(tree, free, E)
  BY DEF CheckDecodeMem
<1>2. PICK E \in Evictions(tree, free, n) :
         tree' = Delete(tree, E) /\ free' = AfterEvict(tree, free, E)
  BY <1>1
<1>3. LockedTree(tree', At(req)) /\ Keeps(tree, tree', At(req))
  BY <1>2, EvictStep DEF IInv
<1>4. free' \in [Pages -> Nat]
  BY <1>2, FreeType DEF IInv, AfterEvict
<1>5. req' = req
  BY DEF CheckDecodeMem
<1>6. HeldStep
  BY <1>3, <1>5, HeldKept DEF IInv
<1> QED
  BY <1>3, <1>4, <1>5, <1>6 DEF IInv

\* The record a request has after cache_unfinished_req.
LEMMA CachedReq ==
  ASSUME IInv, NEW r \in Reqs, NEW q \in Request, Holding(req[r]), q.node = req[r].node,
         q.fill <= Len(q.ids), q.fill <= Len(q.row),
         NEW c, c = CacheUnfinished(tree, free, q)
  PROVE  /\ c.req \in Request /\ Len(c.req.row) = Len(q.row) /\ c.req.phase = q.phase
         /\ c.req.ids = q.ids /\ c.req.fill = q.fill /\ c.req.pend = q.pend
<1>0. LockedTree(tree, At(req)) /\ free \in [Pages -> Nat]
  BY DEF IInv
<1>1. r \in DOMAIN At(req) /\ At(req)[r] = q.node
  BY DEF At
<1>2. c.req \in Request
  BY <1>0, <1>1, CacheUnfinishedStep, Zenon
<1>3. SameBut(c.req, q)
  BY <1>0, <1>1, CacheUnfinishedStep, Zenon
<1> QED
  BY <1>2, <1>3 DEF SameBut

\* A request moves its lock through cache_unfinished_req and its record becomes q2.
LEMMA MovingStep ==
  ASSUME IInv, NEW r \in Reqs, NEW q \in Request, Holding(req[r]), q.node = req[r].node,
         q.fill <= Len(q.ids), q.fill <= Len(q.row),
         NEW c, c = CacheUnfinished(tree, free, q), tree' = c.tree, free' = c.free,
         NEW q2 \in Request, FillLaw(q2), Holding(q2), q2.node = c.req.node,
         req' = [req EXCEPT ![r] = q2]
  PROVE  IInv' /\ HeldStep
<1>0. /\ req \in [Reqs -> Request] /\ \A s \in Reqs : FillLaw(req[s])
      /\ LockedTree(tree, At(req)) /\ free \in [Pages -> Nat]
  BY DEF IInv
<1>1. r \in DOMAIN At(req) /\ At(req)[r] = q.node
  BY DEF At
<1>2. req' \in [Reqs -> Request] /\ \A s \in Reqs : FillLaw(req'[s])
  BY <1>0, Update
<1>3. Moved(At(req), At(req'), r, q2.node)
  BY <1>0, UpdateMove, Zenon
<1>4. /\ \A at3 : Moved(At(req), at3, r, c.req.node) => LockedTree(c.tree, at3)
      /\ Keeps(tree, c.tree, At(req)) /\ c.free \in [Pages -> Nat]
  BY <1>0, <1>1, CacheUnfinishedStep, Zenon
<1>5. HeldStep
  BY <1>0, <1>2, <1>4, HeldKept, Zenon
<1>6. LockedTree(tree', At(req'))
  BY <1>3, <1>4
<1> QED
  BY <1>2, <1>4, <1>5, <1>6, Zenon DEF IInv

\* Caching a chunk moves the lock and picks the next chunk.
LEMMA CacheChunkStep ==
  ASSUME IInv, NEW r \in Reqs, CacheChunk(r)
  PROVE  IInv' /\ HeldStep
<1> DEFINE q == req[r]
           c == CacheUnfinished(tree, free, q)
<1>1. /\ q \in Request /\ q.fill <= Len(q.ids) /\ q.fill <= Len(q.row) /\ Holding(q)
      /\ Len(q.ids) > 0 /\ q.ids \in Seq(Nat)
  BY Zenon DEF CacheChunk, IInv, FillLaw, Holding, Request
<1>2. PICK n \in Fills(q, Len(c.req.prefix), Aligned) :
         req' = [req EXCEPT ![r] = Rechunked(c.req, n, <<>>)]
  BY Zenon DEF CacheChunk, Rechunked
<1>3. tree' = c.tree /\ free' = c.free
  BY DEF CacheChunk
<1>4. Holding(req[r]) /\ q.node = req[r].node
  BY <1>1
<1> HIDE DEF q
<1>5. c = CacheUnfinished(tree, free, q)
  OBVIOUS
<1> HIDE DEF c
<1>6. c.req \in Request /\ c.req.ids = q.ids
  BY <1>1, <1>4, <1>5, CachedReq, Zenon
<1>7. c.req.prefix \in Seq(Pages) /\ Len(c.req.prefix) \in Nat
  BY <1>6 DEF Request
<1>8. n \in Nat /\ n <= Len(q.ids)
  BY <1>1, <1>7, FillsType
<1> DEFINE q2 == Rechunked(c.req, n, <<>>)
<1>9. <<>> \in Seq(Pages)
  OBVIOUS
<1>10. q2 \in Request /\ FillLaw(q2) /\ Holding(q2) /\ q2.node = c.req.node
  BY <1>1, <1>6, <1>8, <1>9, RechunkedType, Zenon
<1> HIDE DEF q2
<1>11. req' = [req EXCEPT ![r] = q2]
  BY <1>2 DEF q2
<1> QED
  BY <1>1, <1>3, <1>4, <1>5, <1>10, <1>11, MovingStep, Zenon

\* A request leaves through cache_finished_req, and nodes may be evicted after it.
LEMMA LeavingStep ==
  ASSUME IInv, NEW r \in Reqs, Holding(req[r]), NEW q, q.node = req[r].node,
         q.ids \in Seq(Nat), q.extra_key \in ExtraKeys, q.row \in Seq(Pages),
         NEW ins \in BOOLEAN, ins => Len(q.row) <= Len(q.ids),
         NEW c, c = CacheFinished(tree, free, q, ins),
         NEW q2 \in Request, FillLaw(q2), ~Holding(q2), req' = [req EXCEPT ![r] = q2],
         \/ tree' = c.tree /\ free' = c.free
         \/ \E num \in Nat : \E E \in Evictions(c.tree, c.free, num) :
              tree' = Delete(c.tree, E) /\ free' = AfterEvict(c.tree, c.free, E)
  PROVE  IInv' /\ HeldStep
<1>0. /\ req \in [Reqs -> Request] /\ \A s \in Reqs : FillLaw(req[s])
      /\ LockedTree(tree, At(req)) /\ free \in [Pages -> Nat]
  BY DEF IInv
<1>1. req' \in [Reqs -> Request] /\ \A s \in Reqs : FillLaw(req'[s])
  BY <1>0, Update, Zenon
<1>2. Joins(At(req'), At(req), r, q.node)
  BY <1>0, Update, Zenon
<1>3. LockedTree(c.tree, At(req')) /\ Keeps(tree, c.tree, At(req')) /\ c.free \in [Pages -> Nat]
  BY <1>0, <1>2, CacheFinishedStep, Zenon
<1>4. LockedTree(tree', At(req')) /\ Keeps(tree, tree', At(req')) /\ free' \in [Pages -> Nat]
  <2>1. CASE tree' = c.tree /\ free' = c.free
    BY <1>3, <2>1, Zenon
  <2>2. ASSUME NEW num \in Nat, NEW E \in Evictions(c.tree, c.free, num),
               tree' = Delete(c.tree, E), free' = AfterEvict(c.tree, c.free, E)
        PROVE  LockedTree(tree', At(req')) /\ Keeps(tree, tree', At(req')) /\ free' \in [Pages -> Nat]
    <3>1. LockedTree(tree', At(req')) /\ Keeps(c.tree, tree', At(req'))
      BY <1>3, <2>2, EvictStep, Zenon
    <3>2. free' \in [Pages -> Nat]
      BY <1>3, <2>2, FreeType, Zenon DEF AfterEvict
    <3> QED
      BY <1>3, <3>1, <3>2, KeepsTrans, Zenon
  <2> QED
    BY <2>1, <2>2, Zenon
<1>5. \A s \in Reqs : Holding(req[s]) /\ Holding(req'[s]) => req'[s].node = req[s].node
  BY <1>0
<1>6. HeldStep
  BY <1>0, <1>1, <1>4, <1>5, HeldKept, Zenon
<1> QED
  BY <1>1, <1>4, <1>6, Zenon DEF IInv

\* Finish of a request whose record is s after sampling.
LEMMA FinishStep ==
  ASSUME IInv, NEW r \in Reqs, Holding(req[r]), NEW s, s.node = req[r].node,
         s.ids \in Seq(Nat), s.extra_key \in ExtraKeys, s.row \in Seq(Pages),
         Len(s.row) <= Len(s.ids), Finish(r, s)
  PROVE  IInv' /\ HeldStep
<1> DEFINE c == CacheFinished(tree, free, s, TRUE)
<1>1. tree' = c.tree /\ free' = c.free /\ req' = [req EXCEPT ![r] = NoReq]
  BY DEF Finish
<1>2. c = CacheFinished(tree, free, s, TRUE) /\ TRUE \in BOOLEAN
  OBVIOUS
<1> HIDE DEF c
<1> QED
  BY <1>1, <1>2, NoReqType, LeavingStep, Zenon

\* A prefill result releases the request or moves its lock.
LEMMA PrefillResultStep ==
  ASSUME IInv, NEW r \in Reqs, PrefillResult(r)
  PROVE  IInv' /\ HeldStep
<1>1. PICK t \in Tok :
        \/ Finish(r, Sampled(req[r], t))
        \/ /\ Sampled(req[r], t).out < MaxNew
           /\ tree' = CacheUnfinished(tree, free, Sampled(req[r], t)).tree
           /\ free' = CacheUnfinished(tree, free, Sampled(req[r], t)).free
           /\ req' = [req EXCEPT ![r] = CacheUnfinished(tree, free, Sampled(req[r], t)).req]
  BY DEF PrefillResult
<1>2. req[r] \in Request /\ FillLaw(req[r]) /\ req[r].phase = "run" /\ req[r].pend # <<>>
  BY DEF PrefillResult, IInv
<1>3. Holding(req[r])
  BY <1>2 DEF Holding
<1> DEFINE s == Sampled(req[r], t)
<1>4. /\ s.ids \in Seq(Nat) /\ s.extra_key \in ExtraKeys /\ s.row \in Seq(Pages)
      /\ s.node = req[r].node /\ s.phase = "run" /\ s.fill <= Len(s.ids)
      /\ s.fill <= Len(s.row) /\ Len(s.row) <= Len(s.ids)
      /\ s.out < MaxNew => s \in Request /\ FillLaw(s)
  BY <1>2, SampledType
<1> HIDE DEF s
<1>5. CASE Finish(r, s)
  BY <1>3, <1>4, <1>5, FinishStep, Zenon
<1>6. CASE ~Finish(r, s)
  <2> DEFINE c == CacheUnfinished(tree, free, s)
  <2>1. /\ s.out < MaxNew /\ tree' = c.tree /\ free' = c.free
        /\ req' = [req EXCEPT ![r] = c.req]
    BY <1>1, <1>6 DEF s
  <2>2. s \in Request /\ FillLaw(s)
    BY <1>4, <2>1
  <2>3. c = CacheUnfinished(tree, free, s)
    OBVIOUS
  <2> HIDE DEF c
  <2>6. /\ c.req \in Request /\ Len(c.req.row) = Len(s.row) /\ c.req.phase = s.phase
        /\ c.req.ids = s.ids /\ c.req.fill = s.fill /\ c.req.pend = s.pend
    BY <1>3, <1>4, <2>2, <2>3, CachedReq, Zenon
  <2>7. FillLaw(c.req) /\ Holding(c.req)
    BY <1>4, <2>2, <2>6, Zenon DEF FillLaw, Holding
  <2> QED
    BY <1>3, <1>4, <2>1, <2>2, <2>3, <2>6, <2>7, MovingStep, Zenon
<1> QED
  BY <1>5, <1>6, Zenon

\* A decode result releases the request or adds a token.
LEMMA DecodeResultStep ==
  ASSUME IInv, NEW r \in Reqs, DecodeResult(r)
  PROVE  IInv' /\ HeldStep
<1>1. PICK t \in Tok :
        \/ Finish(r, Sampled(req[r], t))
        \/ /\ Sampled(req[r], t).out < MaxNew
           /\ req' = [req EXCEPT ![r] = Sampled(req[r], t)]
           /\ UNCHANGED <<tree, free>>
  BY DEF DecodeResult
<1>2. req[r] \in Request /\ FillLaw(req[r]) /\ req[r].phase = "run" /\ req[r].pend # <<>>
  BY DEF DecodeResult, IInv
<1>3. Holding(req[r])
  BY <1>2 DEF Holding
<1> DEFINE s == Sampled(req[r], t)
<1>4. /\ s.ids \in Seq(Nat) /\ s.extra_key \in ExtraKeys /\ s.row \in Seq(Pages)
      /\ s.node = req[r].node /\ s.phase = "run" /\ Len(s.row) <= Len(s.ids)
      /\ s.out < MaxNew => s \in Request /\ FillLaw(s)
  BY <1>2, SampledType
<1> HIDE DEF s
<1>5. CASE Finish(r, s)
  BY <1>3, <1>4, <1>5, FinishStep, Zenon
<1>6. CASE ~Finish(r, s)
  <2>1. s.out < MaxNew /\ req' = [req EXCEPT ![r] = s] /\ tree' = tree /\ free' = free
    BY <1>1, <1>6 DEF s
  <2>2. s \in Request /\ FillLaw(s) /\ Holding(s)
    BY <1>4, <2>1 DEF Holding
  <2>3. req \in [Reqs -> Request] /\ \A x \in Reqs : FillLaw(req[x])
    BY DEF IInv
  <2>4. req' \in [Reqs -> Request] /\ \A x \in Reqs : FillLaw(req'[x])
    BY <2>1, <2>2, <2>3, Update, Zenon
  <2>5. At(req') = At(req)
    BY <1>3, <1>4, <2>1, <2>2, <2>3, UpdateSame, Zenon
  <2>6. Keeps(tree, tree', At(req))
    BY <2>1 DEF Keeps
  <2>7. HeldStep
    BY <2>3, <2>4, <2>6, HeldKept, Zenon
  <2> QED
    BY <2>1, <2>4, <2>5, <2>7, Zenon DEF IInv
<1> QED
  BY <1>5, <1>6

\* Retraction releases the request without inserting, and evicts.
LEMMA RetractStep ==
  ASSUME IInv, NEW r \in Reqs, Retract(r)
  PROVE  IInv' /\ HeldStep
<1> DEFINE q == req[r]
           c == CacheFinished(tree, free, q, FALSE)
           q2 == Queued(q.ids, q.out, q.extra_key)
<1>1. /\ q \in Request /\ q.phase = "run" /\ FillLaw(q)
  BY DEF Retract, Launchable, IInv
<1>2. /\ q.ids \in Seq(Nat) /\ q.extra_key \in ExtraKeys /\ q.row \in Seq(Pages)
      /\ q.out \in 0..(MaxNew - 1) /\ Len(q.ids) > 0
  BY <1>1 DEF Request, FillLaw
<1>3. q2 \in Request /\ FillLaw(q2) /\ ~Holding(q2)
  BY <1>2, QueuedType
<1>4. req' = [req EXCEPT ![r] = q2]
  BY DEF Retract
<1>5. \E n \in 0..BatchSlack : \E E \in Evictions(c.tree, c.free, n) :
         tree' = Delete(c.tree, E) /\ free' = AfterEvict(c.tree, c.free, E)
  BY Zenon DEF Retract
<1>6. c = CacheFinished(tree, free, q, FALSE) /\ FALSE \in BOOLEAN
  OBVIOUS
<1> HIDE DEF c, q2
<1>7. \E n \in Nat : \E E \in Evictions(c.tree, c.free, n) :
         tree' = Delete(c.tree, E) /\ free' = AfterEvict(c.tree, c.free, E)
  BY <1>5
<1>8. Holding(req[r])
  BY <1>1 DEF Holding
<1> QED
  BY <1>2, <1>3, <1>4, <1>6, <1>7, <1>8, LeavingStep, Zenon

\* flush_cache runs with no holder.
LEMMA FlushCacheStep ==
  ASSUME IInv, FlushCache
  PROVE  IInv' /\ HeldStep
<1>1. /\ tree' = EmptyTree /\ free' = [p \in Pages |-> 1] /\ req' = req
      /\ \A r \in Reqs : req[r].phase = "none"
  BY DEF FlushCache
<1>2. req \in [Reqs -> Request] /\ \A r \in Reqs : FillLaw(req[r])
  BY DEF IInv
<1>3. HeldStep
  BY <1>1 DEF HeldStep, Holders
<1>4. DOMAIN At(req) = {}
  BY <1>1 DEF At, Holding
<1>5. LockedTree(EmptyTree, At(req))
  <2>1. TreeOK(PageKey, Pages, EmptyTree)
    BY EmptyTreeOK
  <2>2. IsFiniteSet(DOMAIN At(req))
    BY <1>4, FS_EmptySet
  <2>3. LocksCount(EmptyTree, At(req))
    BY DEF LocksCount, EmptyTree, Nodes
  <2> QED
    BY <1>4, <2>1, <2>2, <2>3 DEF LockedTree
<1>6. free' \in [Pages -> Nat]
  BY <1>1
<1> QED
  BY <1>1, <1>2, <1>3, <1>5, <1>6, Zenon DEF IInv

\* The invariant holds at the start.
LEMMA InitIInv == Init => IInv
<1> SUFFICES ASSUME Init PROVE IInv
  OBVIOUS
<1>1. tree = EmptyTree /\ free = [p \in Pages |-> 1] /\ req = [r \in Reqs |-> NoReq]
  BY DEF Init
<1>2. NoReq \in Request /\ FillLaw(NoReq) /\ ~Holding(NoReq)
  BY NoReqType
<1>3. req \in [Reqs -> Request] /\ \A r \in Reqs : FillLaw(req[r])
  BY <1>1, <1>2
<1>4. DOMAIN At(req) = {}
  BY <1>1, <1>2 DEF At
<1>5. LockedTree(EmptyTree, At(req))
  <2>1. TreeOK(PageKey, Pages, EmptyTree)
    BY EmptyTreeOK
  <2>2. IsFiniteSet(DOMAIN At(req))
    BY <1>4, FS_EmptySet
  <2>3. LocksCount(EmptyTree, At(req))
    BY DEF LocksCount, EmptyTree, Nodes
  <2> QED
    BY <1>4, <2>1, <2>2, <2>3 DEF LockedTree
<1>6. free \in [Pages -> Nat]
  BY <1>1
<1> QED
  BY <1>1, <1>3, <1>5, <1>6 DEF IInv

\* Every step, or stutter, keeps the invariant and the pages of the held prefixes.
LEMMA NextIInv ==
  ASSUME IInv, [Next]_vars
  PROVE  IInv' /\ HeldStep
<1>1. CASE FlushCache
  BY <1>1, FlushCacheStep
<1>2. CASE \E r \in Reqs :
       \/ Arrive(r) \/ Abort(r) \/ Reject(r) \/ Admit(r) \/ Extend(r) \/ CacheChunk(r)
       \/ Decode(r) \/ PrefillResult(r) \/ DecodeResult(r) \/ Retract(r)
       \/ CheckDecodeMem(r)
  BY <1>2, ArriveStep, AbortStep, RejectStep, AdmitStep, ExtendStep, CacheChunkStep,
     DecodeStep, PrefillResultStep, DecodeResultStep, RetractStep, CheckDecodeMemStep
<1>3. CASE UNCHANGED vars
  <2>1. tree' = tree /\ free' = free /\ req' = req
    BY <1>3 DEF vars
  <2>2. HeldStep
    BY <2>1 DEF HeldStep, Paths
  <2> QED
    BY <2>1, <2>2 DEF IInv
<1> QED
  BY <1>1, <1>2, <1>3 DEF Next

\* The inductive invariant holds in every reachable state of the cache.
THEOREM Inductive == Spec => [](IInv)
<1>1. IInv /\ [Next]_vars => IInv'
  BY NextIInv
<1> QED
  BY InitIInv, <1>1, PTL DEF Spec

\* The holders of the proofs are those of the specification.
LEMMA AtHolders == At(req) = [r \in Holders |-> req[r].node]
  BY DEF At, Holders, Holding

\* The invariant gives the types: a counted lock is a natural number.
LEMMA IInvTypeOK == IInv => TypeOK
<1> SUFFICES ASSUME IInv PROVE TypeOK
  OBVIOUS
<1>1. /\ LockedTree(tree, At(req)) /\ free \in [Pages -> Nat] /\ req \in [Reqs -> Request]
      /\ TreeOK(PageKey, Pages, tree) /\ LocksCount(tree, At(req)) /\ IsFiniteSet(DOMAIN At(req))
  BY DEF IInv, LockedTree
<1>2. /\ tree \in [val : {tree.val}, lock : {tree.lock}, evictable : Int, protected : Int]
      /\ tree.val \in [Paths(tree) -> Pages] /\ Paths(tree) \subseteq Seq(PageKey)
      /\ tree.lock \in [Nodes(tree) -> Int] /\ Nodes(tree) \subseteq Seq(PageKey)
      /\ tree.lock[Root] = 1
  BY <1>1 DEF TreeOK
<1>3. \A n \in Nodes(tree) : tree.lock[n] \in Nat
  <2> TAKE n \in Nodes(tree)
  <2>1. CASE n = Root
    BY <1>2, <2>1
  <2>2. CASE n # Root
    <3> DEFINE C == {r \in DOMAIN At(req) : IsPrefix(n, At(req)[r])}
    <3>1. tree.lock[n] = Cardinality(C)
      BY <1>1, <2>2 DEF LocksCount
    <3>2. IsFiniteSet(C)
      BY <1>1, C \subseteq DOMAIN At(req), FS_Subset
    <3> QED
      BY <3>1, <3>2, FS_CardinalityType
  <2> QED
    BY <2>1, <2>2
<1>4. tree.lock \in [Nodes(tree) -> Nat]
  BY <1>2, <1>3
<1> QED
  BY <1>1, <1>2, <1>4, Zenon DEF TypeOK

\* The types of the cache's state hold in every state of every run.
THEOREM TypeCorrect == Spec => []TypeOK
  BY Inductive, IInvTypeOK, PTL

\* The invariant gives the structure.
LEMMA IInvStructureOK == IInv => StructureOK
<1> SUFFICES ASSUME IInv PROVE StructureOK
  OBVIOUS
<1>1. /\ TreeOK(PageKey, Pages, tree) /\ \A r \in DOMAIN At(req) : At(req)[r] \in Nodes(tree)
      /\ \A r \in Reqs : FillLaw(req[r])
  BY DEF IInv, LockedTree
<1>2. TreeShape(tree) /\ tree.lock[Root] = 1
  BY <1>1 DEF TreeOK
<1>3. \A r \in Holders : req[r].node \in Nodes(tree)
  BY <1>1, AtHolders, Zenon
<1> QED
  BY <1>1, <1>2, <1>3 DEF StructureOK

\* The radix tree is well formed, every last_node is a node of it and every row has the
\* length its request's tokens and pending results ask for, whatever the interleaving of
\* match, split, insert, evict, finish and retraction.
THEOREM StructureCorrect == Spec => []StructureOK
  BY Inductive, IInvStructureOK, PTL

\* The invariant counts the locks.
LEMMA IInvLockRefExact == IInv => LockRefExact
  BY AtHolders DEF IInv, LockedTree, LockRefExact

\* lock_ref of every node is exactly the number of live requests at or below it: no lock
\* is leaked or released twice by inc_lock_ref, dec_lock_ref and _split_node.
THEOREM LocksCorrect == Spec => []LockRefExact
  BY Inductive, IInvLockRefExact, PTL

\* No step replaces or evicts a page that caches the locked prefix of a live request.
THEOREM HeldPrefixStableCorrect == Spec => HeldPrefixStable
<1>1. IInv /\ [Next]_vars => [HeldStep]_vars
  BY NextIInv
<1> QED
  BY Inductive, <1>1, PTL DEF Spec, HeldPrefixStable, HeldStep
-----------------------------------------------------------------------------
(* The sizes by paths.                                                     *)

\* The stored paths that some holder's node lies at or below.
HeldPaths(T, at) == {p \in Paths(T) : \E r \in DOMAIN at : IsPrefix(p, at[r])}

\* The sizes, as counts of paths that are held and that are not.
Sized(T, at) ==
  /\ T.evictable = PageSize * Cardinality(Paths(T) \ HeldPaths(T, at))
  /\ T.protected = PageSize * Cardinality(HeldPaths(T, at))

\* A node is locked when a holder is at or below it.
LEMMA LockedNode ==
  ASSUME NEW T, NEW at, LockedTree(T, at), NEW n \in Nodes(T) \ {Root}
  PROVE  /\ T.lock[n] \in Nat
         /\ T.lock[n] # 0 <=> \E r \in DOMAIN at : IsPrefix(n, at[r])
<1> DEFINE H == {r \in DOMAIN at : IsPrefix(n, at[r])}
<1>1. IsFiniteSet(H)
  BY FS_Subset, H \subseteq DOMAIN at DEF LockedTree
<1>2. T.lock[n] = Cardinality(H)
  BY DEF LockedTree, LocksCount
<1>3. (\E r \in DOMAIN at : IsPrefix(n, at[r])) <=> H # {}
  OBVIOUS
<1> HIDE DEF H
<1>4. Cardinality(H) \in Nat /\ (Cardinality(H) = 0 <=> H = {})
  BY <1>1, FS_CardinalityType, FS_EmptySet, Zenon
<1> QED
  BY <1>2, <1>3, <1>4

\* A path is held when the node it lies on is locked, and reclaimable otherwise.
LEMMA LockedPath ==
  ASSUME NEW T, NEW at, LockedTree(T, at), NEW p \in Paths(T)
  PROVE  /\ NodeAt(T, p) \in Nodes(T) \ {Root}
         /\ T.lock[NodeAt(T, p)] \in Nat
         /\ p \in HeldPaths(T, at) <=> T.lock[NodeAt(T, p)] > 0
         /\ p \in HeldPaths(T, at) <=> NodeAt(T, p) \notin Reclaimable(T)
<1> DEFINE e == NodeAt(T, p)
<1>0. TreeOK(PageKey, Pages, T) /\ \A r \in DOMAIN at : at[r] \in Nodes(T)
  BY DEF LockedTree
<1>1. e \in Nodes(T) /\ IsPrefix(p, e) /\ \A m \in Nodes(T) : IsPrefix(p, m) => IsPrefix(e, m)
  BY <1>0, NodeAtDef
<1>2. p \in Seq(PageKey) /\ Nodes(T) \in SUBSET Seq(PageKey) /\ p # Root
  BY <1>0 DEF TreeOK, TreeShape
<1>3. e # Root
  BY <1>1, <1>2 DEF Root, IsPrefix
<1> HIDE DEF e
<1>4. T.lock[e] \in Nat /\ (T.lock[e] # 0 <=> \E r \in DOMAIN at : IsPrefix(e, at[r]))
  BY <1>1, <1>3, LockedNode
<1>5. ASSUME NEW m \in Nodes(T) PROVE IsPrefix(p, m) <=> IsPrefix(e, m)
  <2>1. IsPrefix(e, m) => IsPrefix(p, m)
    BY <1>1, <1>2, PrefixTrans
  <2> QED
    BY <1>1, <2>1
<1>6. p \in HeldPaths(T, at) <=> \E r \in DOMAIN at : IsPrefix(e, at[r])
  BY <1>0, <1>5 DEF HeldPaths
<1>7. p \in HeldPaths(T, at) => e \notin Reclaimable(T)
  <2>1. IsPrefix(e, e)
    BY <1>1, <1>2, PrefixRefl
  <2> QED
    BY <1>1, <1>4, <1>6, <2>1, Zenon DEF Reclaimable, Below
<1>8. e \notin Reclaimable(T) => p \in HeldPaths(T, at)
  <2> SUFFICES ASSUME e \notin Reclaimable(T) PROVE p \in HeldPaths(T, at)
    OBVIOUS
  <2>1. PICK m \in Nodes(T) : IsPrefix(e, m) /\ T.lock[m] # 0
    BY <1>1 DEF Reclaimable, Below
  <2>2. m # Root
    BY <1>1, <1>2, <1>3, <2>1 DEF Root, IsPrefix
  <2>3. PICK r \in DOMAIN at : IsPrefix(m, at[r])
    BY <2>1, <2>2, LockedNode, Zenon
  <2>4. IsPrefix(e, at[r])
    BY <1>0, <1>1, <1>2, <2>1, <2>3, PrefixTrans, Zenon
  <2> QED
    BY <1>6, <2>4
<1> QED
  BY <1>1, <1>3, <1>4, <1>6, <1>7, <1>8 DEF e

\* The sizes by paths are the sizes by nodes.
LEMMA SizedIsExact ==
  ASSUME NEW T, NEW at, LockedTree(T, at), Sized(T, at)
  PROVE  /\ T.evictable = Tokens(T, Reclaimable(T))
         /\ T.protected = Tokens(T, {n \in Nodes(T) \ {Root} : T.lock[n] > 0})
<1>1. {q \in Paths(T) : NodeAt(T, q) \in Reclaimable(T)} = Paths(T) \ HeldPaths(T, at)
  BY LockedPath
<1>2. {q \in Paths(T) : NodeAt(T, q) \in {n \in Nodes(T) \ {Root} : T.lock[n] > 0}}
        = HeldPaths(T, at)
  <2>1. HeldPaths(T, at) \subseteq Paths(T)
    BY DEF HeldPaths
  <2> QED
    BY <2>1, LockedPath
<1> QED
  BY <1>1, <1>2 DEF Sized, Tokens
-----------------------------------------------------------------------------
(* What each operation of the tree does to the sizes.                      *)

Apart(A, B) == A \cap B = {}

\* PageSize distributes over sums and differences.
LEMMA Distributes ==
  ASSUME NEW a \in Int, NEW b \in Int
  PROVE  /\ PageSize * (a + b) = PageSize * a + PageSize * b
         /\ PageSize * (a - b) = PageSize * a - PageSize * b
BY PageSizeAssumption

\* Counting a set that two disjoint ones make up.
LEMMA CountTwo ==
  ASSUME NEW A, NEW B, IsFiniteSet(A), IsFiniteSet(B), Apart(A, B)
  PROVE  Cardinality(A \cup B) = Cardinality(A) + Cardinality(B)
         /\ Cardinality(A) \in Nat /\ Cardinality(B) \in Nat
<1>1. A \cap B = {}
  BY DEF Apart
<1>2. Cardinality(A) \in Nat /\ Cardinality(B) \in Nat
  BY FS_CardinalityType
<1>3. Cardinality(A \cup B) = Cardinality(A) + Cardinality(B) - Cardinality(A \cap B)
  BY FS_Union
<1>4. Cardinality(A \cap B) = 0
  BY <1>1, FS_EmptySet
<1> QED
  BY <1>2, <1>3, <1>4

\* The paths that a new holder of node n holds first.
Gains(T, at, n) == {p \in Paths(T) : IsPrefix(p, n) /\ p \notin HeldPaths(T, at)}

\* A holder that joins moves its gains to the held paths.
LEMMA JoinHeld ==
  ASSUME NEW T, TreeOK(PageKey, Pages, T), NEW at, NEW at2, NEW r, NEW n, Joins(at, at2, r, n)
  PROVE  LET H == HeldPaths(T, at)
             G == Gains(T, at, n)
             H2 == HeldPaths(T, at2)
             P == Paths(T)
         IN  /\ Cardinality(H) \in Nat /\ Cardinality(G) \in Nat /\ Cardinality(P \ H) \in Nat
             /\ Cardinality(H2) = Cardinality(H) + Cardinality(G)
             /\ Cardinality(P \ H2) = Cardinality(P \ H) - Cardinality(G)
<1> DEFINE H == HeldPaths(T, at)
           G == Gains(T, at, n)
           H2 == HeldPaths(T, at2)
           P == Paths(T)
<1>1. H2 = H \cup G
  BY DEF HeldPaths, Gains, Joins
<1>2. H \subseteq P /\ G \subseteq P /\ Apart(H, G) /\ Apart(G, P \ H2) /\ P \ H = G \cup (P \ H2)
  <2>1. H \subseteq P /\ G \subseteq P /\ H \cap G = {}
    BY DEF HeldPaths, Gains
  <2> HIDE DEF H, G, H2, P
  <2> QED
    BY <1>1, <2>1 DEF Apart
<1>3. IsFiniteSet(P)
  BY DEF TreeOK
<1> HIDE DEF H, G, H2, P
<1>4. IsFiniteSet(H) /\ IsFiniteSet(G) /\ IsFiniteSet(P \ H2)
  BY <1>2, <1>3, FS_Subset
<1>5. /\ Cardinality(H2) = Cardinality(H) + Cardinality(G)
      /\ Cardinality(H) \in Nat /\ Cardinality(G) \in Nat
  BY <1>1, <1>2, <1>4, CountTwo
<1>6. /\ Cardinality(P \ H) = Cardinality(G) + Cardinality(P \ H2)
      /\ Cardinality(P \ H2) \in Nat
  BY <1>2, <1>4, CountTwo, Zenon
<1>7. /\ Cardinality(P \ H) \in Nat
      /\ Cardinality(P \ H2) = Cardinality(P \ H) - Cardinality(G)
  BY <1>5, <1>6
<1> QED
  BY <1>5, <1>7, Zenon DEF H, G, H2, P

\* A path lies on the chain of a node when it is a prefix of the node.
LEMMA OnChain ==
  ASSUME NEW T, NEW at, LockedTree(T, at), NEW n \in Nodes(T), NEW p \in Paths(T)
  PROVE  NodeAt(T, p) \in Chain(T, n) <=> IsPrefix(p, n)
<1> DEFINE e == NodeAt(T, p)
<1>0. TreeOK(PageKey, Pages, T)
  BY DEF LockedTree
<1>1. /\ e \in Nodes(T) \ {Root} /\ IsPrefix(p, e)
      /\ \A m \in Nodes(T) : IsPrefix(p, m) => IsPrefix(e, m)
  BY <1>0, NodeAtDef, LockedPath
<1>2. p \in Seq(PageKey) /\ Nodes(T) \in SUBSET Seq(PageKey)
  BY <1>0 DEF TreeOK
<1> HIDE DEF e
<1>3. IsPrefix(e, n) => IsPrefix(p, n)
  BY <1>1, <1>2, PrefixTrans, Zenon
<1> QED
  BY <1>1, <1>3 DEF Chain, e

\* What inc_lock_ref moves from evictable_size_ to protected_size_,
LEMMA IncMoves ==
  ASSUME NEW T, NEW at, LockedTree(T, at), NEW n \in Nodes(T)
  PROVE  Tokens(T, {m \in Chain(T, n) : T.lock[m] = 0}) = PageSize * Cardinality(Gains(T, at, n))
<1>1. ASSUME NEW p \in Paths(T)
      PROVE  NodeAt(T, p) \in {m \in Chain(T, n) : T.lock[m] = 0}
               <=> IsPrefix(p, n) /\ p \notin HeldPaths(T, at)
  BY OnChain, LockedPath
<1>2. {p \in Paths(T) : NodeAt(T, p) \in {m \in Chain(T, n) : T.lock[m] = 0}} = Gains(T, at, n)
  BY <1>1 DEF Gains
<1> QED
  BY <1>2 DEF Tokens

\* and dec_lock_ref back.
LEMMA DecMoves ==
  ASSUME NEW T, NEW at, NEW at2, NEW r, NEW n, LockedTree(T, at2), Joins(at, at2, r, n)
  PROVE  Tokens(T, {m \in Chain(T, n) : T.lock[m] = 1}) = PageSize * Cardinality(Gains(T, at, n))
<1>0. n \in Nodes(T) /\ \A s \in DOMAIN at : at[s] \in Nodes(T)
  BY DEF LockedTree, Joins
<1>1. ASSUME NEW p \in Paths(T), IsPrefix(p, n)
      PROVE  T.lock[NodeAt(T, p)] = 1 <=> p \notin HeldPaths(T, at)
  <2> DEFINE e == NodeAt(T, p)
             C == {s \in DOMAIN at : IsPrefix(e, at[s])}
             D == {s \in DOMAIN at2 : IsPrefix(e, at2[s])}
  <2>1. TreeOK(PageKey, Pages, T)
    BY Zenon DEF LockedTree
  <2>2. e \in Nodes(T) \ {Root} /\ IsPrefix(p, e) /\ \A m \in Nodes(T) : IsPrefix(p, m) => IsPrefix(e, m)
    BY <2>1, NodeAtDef, LockedPath, Zenon
  <2>3. p \in Seq(PageKey) /\ Nodes(T) \in SUBSET Seq(PageKey)
    BY <2>1 DEF TreeOK
  <2>4. IsPrefix(e, n)
    BY <1>0, <1>1, <2>2, Zenon
  <2>5. T.lock[e] = Cardinality(D)
    BY <2>2, Zenon DEF LockedTree, LocksCount
  <2>6. Cardinality(C) \in Nat /\ Cardinality(D) = Cardinality(C) + 1
    BY <2>4, JoinCount
  <2>7. IsFiniteSet(C)
    BY FS_Subset, C \subseteq DOMAIN at DEF Joins
  <2>8. C = {} <=> p \notin HeldPaths(T, at)
    <3>1. ASSUME NEW m \in Nodes(T) PROVE IsPrefix(p, m) <=> IsPrefix(e, m)
      <4>1. IsPrefix(e, m) => IsPrefix(p, m)
        BY <2>2, <2>3, PrefixTrans
      <4> QED
        BY <2>2, <4>1
    <3> QED
      BY <1>0, <3>1 DEF HeldPaths
  <2> HIDE DEF C, D, e
  <2>9. Cardinality(C) = 0 <=> C = {}
    BY <2>7, FS_EmptySet, Zenon
  <2>10. T.lock[e] = 1 <=> p \notin HeldPaths(T, at)
    BY <2>5, <2>6, <2>8, <2>9
  <2> QED
    BY <2>10 DEF e
<1>2. ASSUME NEW p \in Paths(T)
      PROVE  NodeAt(T, p) \in {m \in Chain(T, n) : T.lock[m] = 1}
               <=> IsPrefix(p, n) /\ p \notin HeldPaths(T, at)
  BY <1>0, <1>1, OnChain, Zenon
<1>3. {p \in Paths(T) : NodeAt(T, p) \in {m \in Chain(T, n) : T.lock[m] = 1}} = Gains(T, at, n)
  BY <1>2 DEF Gains
<1> QED
  BY <1>3 DEF Tokens

\* A lock taken: inc_lock_ref keeps the sizes exact.
LEMMA IncSized ==
  ASSUME NEW T, NEW at, LockedTree(T, at), Sized(T, at), NEW n \in Nodes(T), NEW at2, NEW r,
         Joins(at, at2, r, n)
  PROVE  Sized(IncLockRef(T, n), at2)
<1> DEFINE R == IncLockRef(T, n)
           mv == Tokens(T, {m \in Chain(T, n) : T.lock[m] = 0})
           H == Cardinality(HeldPaths(T, at))
           G == Cardinality(Gains(T, at, n))
           F == Cardinality(Paths(T) \ HeldPaths(T, at))
<1>1. /\ H \in Nat /\ G \in Nat /\ F \in Nat
      /\ Cardinality(HeldPaths(T, at2)) = H + G
      /\ Cardinality(Paths(T) \ HeldPaths(T, at2)) = F - G
  BY JoinHeld, Zenon DEF LockedTree
<1>2. R.val = T.val /\ R.evictable = T.evictable - mv /\ R.protected = T.protected + mv
  BY Zenon DEF IncLockRef
<1>3. mv = PageSize * G
  BY IncMoves
<1>4. T.evictable = PageSize * F /\ T.protected = PageSize * H
  BY DEF Sized
<1>5. Paths(R) = Paths(T) /\ HeldPaths(R, at2) = HeldPaths(T, at2)
  BY <1>2 DEF Paths, HeldPaths
<1> HIDE DEF R, mv, H, G, F
<1>6. R.evictable = PageSize * (F - G) /\ R.protected = PageSize * (H + G)
  BY <1>1, <1>2, <1>3, <1>4, Distributes
<1>7. Sized(R, at2)
  BY <1>1, <1>5, <1>6 DEF Sized
<1> QED
  BY <1>7 DEF R

\* A lock released: so does dec_lock_ref.
LEMMA DecSized ==
  ASSUME NEW T, NEW at, NEW at2, NEW r, NEW n, LockedTree(T, at2), Sized(T, at2),
         Joins(at, at2, r, n)
  PROVE  Sized(DecLockRef(T, n), at)
<1> DEFINE R == DecLockRef(T, n)
           mv == Tokens(T, {m \in Chain(T, n) : T.lock[m] = 1})
           H == Cardinality(HeldPaths(T, at))
           G == Cardinality(Gains(T, at, n))
           F == Cardinality(Paths(T) \ HeldPaths(T, at))
<1>1. /\ H \in Nat /\ G \in Nat /\ F \in Nat
      /\ Cardinality(HeldPaths(T, at2)) = H + G
      /\ Cardinality(Paths(T) \ HeldPaths(T, at2)) = F - G
  BY JoinHeld, Zenon DEF LockedTree
<1>2. R.val = T.val /\ R.evictable = T.evictable + mv /\ R.protected = T.protected - mv
  BY DEF DecLockRef
<1>3. mv = PageSize * G
  BY DecMoves
<1>4. T.evictable = PageSize * (F - G) /\ T.protected = PageSize * (H + G)
  BY <1>1, Zenon DEF Sized
<1>5. Paths(R) = Paths(T) /\ HeldPaths(R, at) = HeldPaths(T, at)
  BY <1>2 DEF Paths, HeldPaths
<1> HIDE DEF R, mv, H, G, F
<1>6. R.evictable = PageSize * F /\ R.protected = PageSize * H
  <2> DEFINE f == PageSize * F
             g == PageSize * G
             h == PageSize * H
  <2>1. f \in Int /\ g \in Int /\ h \in Int
    BY <1>1, PageSizeAssumption
  <2>2. T.evictable = f - g /\ T.protected = h + g
    <3>1. F \in Int /\ G \in Int /\ H \in Int
      BY <1>1
    <3>2. PageSize * (F - G) = f - g /\ PageSize * (H + G) = h + g
      BY <3>1, Distributes
    <3> QED
      BY <1>4, <3>2, Zenon
  <2>3. R.evictable = T.evictable + g /\ R.protected = T.protected - g
    BY <1>2, <1>3
  <2> HIDE DEF f, g, h
  <2>4. R.evictable = f /\ R.protected = h
    BY <2>1, <2>2, <2>3
  <2> QED
    BY <2>4 DEF f, h
<1>7. Sized(R, at)
  BY <1>5, <1>6 DEF Sized, F, H
<1> QED
  BY <1>7 DEF R

\* A split moves nothing between the sizes.
LEMMA SplitSized ==
  ASSUME NEW T, NEW at, Sized(T, at), NEW q
  PROVE  Sized(Split(T, q), at)
<1>1. CASE q \in Nodes(T)
  BY <1>1 DEF Split
<1>2. CASE q \notin Nodes(T)
  <2> DEFINE R == Split(T, q)
  <2>1. R = [T EXCEPT !.lock = [n \in Nodes(T) \cup {q} |->
               IF n = q THEN T.lock[NodeAt(T, q)] ELSE T.lock[n]]]
    BY <1>2 DEF Split
  <2>2. R.val = T.val /\ R.evictable = T.evictable /\ R.protected = T.protected
    BY <2>1
  <2> HIDE DEF R
  <2>3. Paths(R) = Paths(T) /\ HeldPaths(R, at) = HeldPaths(T, at)
    BY <2>2 DEF Paths, HeldPaths
  <2>4. Sized(R, at)
    BY <2>2, <2>3 DEF Sized
  <2> QED
    BY <2>4 DEF R
<1> QED
  BY <1>1, <1>2

\* The number of paths added.
LEMMA NewPathsCount ==
  ASSUME NEW T, TreeOK(PageKey, Pages, T), NEW key \in Seq(PageKey)
  PROVE  /\ IsFiniteSet(NewPaths(T, key))
         /\ Cardinality(NewPaths(T, key)) = Len(key) - MatchLen(T, key)
<1> DEFINE m == MatchLen(T, key)
           I == (m + 1)..Len(key)
           N == NewPaths(T, key)
           g == [k \in I |-> SubSeq(key, 1, k)]
<1>1. m \in 0..Len(key)
  BY MatchLenDef
<1> HIDE DEF m
<1>2. IsFiniteSet(I) /\ Cardinality(I) = Len(key) - m
  <2>1. m + 1 \in Int /\ Len(key) \in Int
    BY <1>1
  <2>2. IsFiniteSet(I) /\ Cardinality(I) = IF m + 1 > Len(key) THEN 0 ELSE Len(key) - (m + 1) + 1
    BY <2>1, FS_Interval
  <2> QED
    BY <1>1, <2>2
<1>3. N = {SubSeq(key, 1, k) : k \in I}
  BY DEF NewPaths, m
<1>4. \A k \in I : Len(SubSeq(key, 1, k)) = k
  BY <1>1, SubIsPrefix
<1> HIDE DEF N
<1>5. /\ g \in [I -> N] /\ (\A i, j \in I : g[i] = g[j] => i = j)
      /\ (\A x \in N : \E i \in I : g[i] = x) /\ DOMAIN g = I
  BY <1>3, <1>4
<1> HIDE DEF I, g
<1>6. g \in Injection(I, N) /\ g \in Surjection(I, N)
  BY <1>5, Zenon DEF Injection, Surjection, IsInjective
<1>7. ExistsBijection(I, N)
  BY <1>6, Zenon DEF Bijection, ExistsBijection
<1>8. Cardinality(N) = Cardinality(I) /\ IsFiniteSet(N)
  BY <1>2, <1>7, FS_Bijection
<1> QED
  BY <1>2, <1>8 DEF m, N

\* insert adds its new paths to evictable_size_: nobody holds them.
LEMMA InsertSized ==
  ASSUME NEW T, NEW at, LockedTree(T, at), Sized(T, at), NEW key \in Seq(PageKey), NEW pages
  PROVE  Sized(Insert(T, key, pages), at)
<1> DEFINE R == Insert(T, key, pages)
           N == NewPaths(T, key)
           k == Len(key) - MatchLen(T, key)
           H == HeldPaths(T, at)
           F == Paths(T) \ H
<1>0. TreeOK(PageKey, Pages, T) /\ \A r \in DOMAIN at : at[r] \in Nodes(T)
  BY Zenon DEF LockedTree
<1>1. R.val = [q \in Paths(T) \cup N |-> IF q \in Paths(T) THEN T.val[q] ELSE pages[Len(q)]]
  BY <1>0, InsertIs
<1>2. R.evictable = T.evictable + PageSize * k /\ R.protected = T.protected
  BY <1>0, InsertIs, Zenon
<1>3. \A q \in N : q \in Seq(PageKey) /\ q \notin Paths(T) /\ q # Root
  BY <1>0, InsertIs, Zenon
<1>4. IsFiniteSet(N) /\ Cardinality(N) = k
  BY <1>0, NewPathsCount, Zenon
<1> HIDE DEF R, N, k
<1>5. Paths(R) = Paths(T) \cup N
  BY <1>1 DEF Paths
<1>6. ASSUME NEW q \in N, NEW r \in DOMAIN at PROVE ~IsPrefix(q, at[r])
  BY <1>0, <1>3, NodePrefixStored, Zenon
<1>7. HeldPaths(R, at) = H
  BY <1>5, <1>6 DEF HeldPaths
<1>8. H \subseteq Paths(T)
  BY DEF HeldPaths
<1>9. Paths(R) \ H = F \cup N /\ Apart(F, N)
  BY <1>3, <1>5, <1>8, Zenon DEF Apart
<1>10. IsFiniteSet(F)
  BY <1>0, FS_Subset, F \subseteq Paths(T) DEF TreeOK
<1>11. T.evictable = PageSize * Cardinality(F) /\ T.protected = PageSize * Cardinality(H)
  BY DEF Sized
<1> HIDE DEF H, F
<1>12. /\ Cardinality(F \cup N) = Cardinality(F) + Cardinality(N)
       /\ Cardinality(F) \in Nat /\ Cardinality(N) \in Nat
  BY <1>4, <1>9, <1>10, CountTwo, Zenon
<1>13. PageSize * (Cardinality(F) + k) = PageSize * Cardinality(F) + PageSize * k
  <2>1. Cardinality(F) \in Int /\ k \in Int
    BY <1>4, <1>12
  <2> QED
    BY <2>1, Distributes
<1>14. R.evictable = PageSize * Cardinality(Paths(R) \ H) /\ R.protected = PageSize * Cardinality(H)
  BY <1>2, <1>4, <1>9, <1>11, <1>12, <1>13, Zenon
<1>15. Sized(R, at)
  BY <1>7, <1>14 DEF Sized
<1> QED
  BY <1>15 DEF R

\* evict takes the paths of the deleted nodes from evictable_size_: nobody held them.
LEMMA EvictSized ==
  ASSUME NEW T, NEW at, LockedTree(T, at), Sized(T, at), NEW f, NEW num,
         NEW E \in Evictions(T, f, num)
  PROVE  Sized(Delete(T, E), at)
<1> DEFINE R == Delete(T, E)
           D == {p \in Paths(T) : NodeAt(T, p) \in E}
           H == HeldPaths(T, at)
           F == Paths(T) \ H
<1>0. TreeOK(PageKey, Pages, T)
  BY DEF LockedTree
<1>1. E \subseteq Reclaimable(T)
  BY DEF Evictions, EvictChoices
<1>2. /\ R.val = [q \in {p \in Paths(T) : NodeAt(T, p) \notin E} |-> T.val[q]]
      /\ R.evictable = T.evictable - Tokens(T, E) /\ R.protected = T.protected
  BY DEF Delete
<1>3. Tokens(T, E) = PageSize * Cardinality(D)
  BY DEF Tokens
<1> HIDE DEF R
<1>4. Paths(R) = Paths(T) \ D
  BY <1>2, Zenon DEF Paths
<1>5. \A p \in D : p \notin H
  BY <1>1, LockedPath, Zenon
<1>6. HeldPaths(R, at) = H
  <2>1. H \subseteq Paths(T)
    BY DEF HeldPaths
  <2> QED
    BY <1>4, <1>5, <2>1, Zenon DEF HeldPaths
<1>7. H \subseteq Paths(T) /\ D \subseteq Paths(T)
  BY DEF HeldPaths
<1>8. T.evictable = PageSize * Cardinality(F) /\ T.protected = PageSize * Cardinality(H)
  BY DEF Sized
<1>9. IsFiniteSet(Paths(T))
  BY <1>0 DEF TreeOK
<1> DEFINE G == Paths(R) \ H
<1>10. F = G \cup D /\ Apart(G, D) /\ G \subseteq Paths(T)
  BY <1>4, <1>5, <1>7, Zenon DEF Apart
<1> HIDE DEF D, H, F, G
<1>11. IsFiniteSet(D) /\ IsFiniteSet(G)
  BY <1>7, <1>9, <1>10, FS_Subset, Zenon
<1>12. /\ Cardinality(F) = Cardinality(G) + Cardinality(D)
       /\ Cardinality(G) \in Nat /\ Cardinality(D) \in Nat
  BY <1>10, <1>11, CountTwo, Zenon
<1> DEFINE g == Cardinality(G)
           d == Cardinality(D)
<1>13. PageSize * (g + d) = PageSize * g + PageSize * d
  <2>1. g \in Int /\ d \in Int
    BY <1>12
  <2> QED
    BY <2>1, Distributes
<1>14. R.evictable = PageSize * g
  <2> DEFINE x == PageSize * g
             y == PageSize * d
  <2>1. x \in Int /\ y \in Int
    BY <1>12, PageSizeAssumption
  <2>2. T.evictable = x + y /\ R.evictable = T.evictable - y
    BY <1>2, <1>3, <1>8, <1>12, <1>13, Zenon
  <2> HIDE DEF x, y
  <2>3. R.evictable = x
    BY <2>1, <2>2
  <2> QED
    BY <2>3 DEF x
<1>15. Sized(R, at)
  BY <1>2, <1>6, <1>8, <1>14, Zenon DEF Sized, G
<1> QED
  BY <1>15 DEF R
-----------------------------------------------------------------------------
(* Every action keeps the sizes.                                           *)

\* cache_unfinished_req moves the request's lock to the end of its key.
LEMMA UnfinishedSized ==
  ASSUME NEW T, NEW f, NEW q \in Request, NEW at, NEW r \in DOMAIN at, LockedTree(T, at),
         Sized(T, at), at[r] = q.node, q.fill <= Len(q.ids), q.fill <= Len(q.row),
         NEW c, c = CacheUnfinished(T, f, q), NEW at3, Moved(at, at3, r, c.req.node)
  PROVE  Sized(c.tree, at3)
<1> DEFINE key == KeyOf(q, q.fill)
           pgs == RowPages(q, key)
           S   == Insert(T, key, pgs)
           D   == DecLockRef(S, q.node)
<1>1. c.tree = IncLockRef(D, key) /\ c.req.node = key
  BY Zenon DEF CacheUnfinished, Request
<1>2. q.ids \in Seq(Nat) /\ q.extra_key \in ExtraKeys /\ q.row \in Seq(Pages) /\ q.fill \in Nat
  BY Zenon DEF Request
<1>3. key \in Seq(PageKey) /\ Len(key) * PageSize <= q.fill
  BY <1>2, KeyOfType
<1> HIDE DEF key
<1>4. pgs \in [1..Len(key) -> Pages]
  <2>1. Len(key) * PageSize <= Len(q.row)
    BY <1>2, <1>3, PageSizeAssumption
  <2> QED
    BY <1>2, <1>3, <2>1, RowPagesType, Zenon
<1> HIDE DEF pgs
<1>5. LockedTree(S, at) /\ key \in Nodes(S)
  BY <1>3, <1>4, InsertStep, Zenon
<1>6. Sized(S, at)
  BY <1>3, InsertSized, Zenon
<1> HIDE DEF S
<1>7. PICK at0 : Joins(at0, at, r, q.node) /\ Joins(at0, at3, r, key)
  BY <1>1, Unjoined, Zenon DEF LockedTree
<1>8. LockedTree(D, at0) /\ Nodes(D) = Nodes(S)
  BY <1>5, <1>7, DecStep, Zenon
<1>9. Sized(D, at0)
  BY <1>5, <1>6, <1>7, DecSized, Zenon
<1> HIDE DEF D
<1>10. Sized(IncLockRef(D, key), at3)
  BY <1>5, <1>7, <1>8, <1>9, IncSized, Zenon
<1> QED
  BY <1>1, <1>10

\* cache_finished_req inserts or not, and drops the request's lock.
LEMMA FinishedSized ==
  ASSUME NEW T, NEW f, NEW q, NEW at, NEW at2, NEW r, LockedTree(T, at2), Sized(T, at2),
         Joins(at, at2, r, q.node), q.ids \in Seq(Nat), q.extra_key \in ExtraKeys,
         q.row \in Seq(Pages), NEW ins \in BOOLEAN, ins => Len(q.row) <= Len(q.ids),
         NEW c, c = CacheFinished(T, f, q, ins)
  PROVE  Sized(c.tree, at)
<1> DEFINE key == KeyOf(q, Len(q.row))
           pgs == RowPages(q, key)
           S   == IF ins THEN Insert(T, key, pgs) ELSE T
<1>1. c.tree = DecLockRef(S, q.node)
  BY DEF CacheFinished
<1>2. LockedTree(S, at2) /\ Sized(S, at2)
  <2>1. CASE ins
    <3>1. key \in Seq(PageKey) /\ Len(key) * PageSize <= Len(q.row)
      BY <2>1, KeyOfType
    <3> HIDE DEF key
    <3>2. pgs \in [1..Len(key) -> Pages]
      BY <3>1, RowPagesType
    <3> HIDE DEF pgs
    <3>3. LockedTree(Insert(T, key, pgs), at2)
      BY <3>1, <3>2, InsertStep, Zenon
    <3>4. Sized(Insert(T, key, pgs), at2)
      BY <3>1, InsertSized, Zenon
    <3> QED
      BY <2>1, <3>3, <3>4, Zenon
  <2>2. CASE ~ins
    BY <2>2
  <2> QED
    BY <2>1, <2>2
<1> HIDE DEF S
<1>3. Sized(DecLockRef(S, q.node), at)
  BY <1>2, DecSized, Zenon
<1> QED
  BY <1>1, <1>3, Zenon

\* One request changes, by a step that keeps the invariant.
LEMMA OneChanges ==
  ASSUME IInv, IInv', NEW r \in Reqs, NEW q, req' = [req EXCEPT ![r] = q]
  PROVE  /\ q \in Request /\ req[r] \in Request /\ FillLaw(req[r]) /\ FillLaw(q)
         /\ Holding(q) /\ Holding(req[r]) /\ q.node = req[r].node => At(req') = At(req)
         /\ ~Holding(q) /\ ~Holding(req[r]) => At(req') = At(req)
         /\ Holding(q) /\ Holding(req[r]) => Moved(At(req), At(req'), r, q.node)
         /\ Holding(q) /\ ~Holding(req[r]) => Joins(At(req), At(req'), r, q.node)
         /\ ~Holding(q) /\ Holding(req[r]) => Joins(At(req'), At(req), r, req[r].node)
<1>1. /\ req \in [Reqs -> Request] /\ \A s \in Reqs : FillLaw(req[s])
      /\ req' \in [Reqs -> Request] /\ \A s \in Reqs : FillLaw(req'[s])
  BY DEF IInv
<1>2. req'[r] = q
  BY <1>1
<1>3. q \in Request /\ req[r] \in Request /\ FillLaw(req[r]) /\ FillLaw(q)
  BY <1>1, <1>2
<1>4. Holding(q) /\ Holding(req[r]) /\ q.node = req[r].node => At(req') = At(req)
  BY <1>1, <1>3, UpdateSame, Zenon
<1>5. ~Holding(q) /\ ~Holding(req[r]) => At(req') = At(req)
  BY <1>1, <1>3, UpdateSame, Zenon
<1>6. Holding(q) /\ Holding(req[r]) => Moved(At(req), At(req'), r, q.node)
  BY <1>1, <1>3, UpdateMove, Zenon
<1>7. /\ Holding(q) /\ ~Holding(req[r]) => Joins(At(req), At(req'), r, q.node)
      /\ ~Holding(q) /\ Holding(req[r]) => Joins(At(req'), At(req), r, req[r].node)
  BY <1>1, <1>3, Update, Zenon
<1> QED
  BY <1>3, <1>4, <1>5, <1>6, <1>7, Zenon

\* A request that arrives or is aborted in the queue, or that goes on decoding.
LEMMA QuietSized ==
  ASSUME IInv, IInv', Sized(tree, At(req)), NEW r \in Reqs, NEW q,
         req' = [req EXCEPT ![r] = q], tree' = tree,
         \/ ~Holding(q) /\ ~Holding(req[r])
         \/ Holding(q) /\ Holding(req[r]) /\ q.node = req[r].node
  PROVE  Sized(tree', At(req'))
BY OneChanges, Zenon

\* A match at most splits a node.
LEMMA MatchSized ==
  ASSUME NEW T, NEW at, Sized(T, at), NEW key
  PROVE  Sized(Match(T, key), at)
BY SplitSized DEF Match

\* Admission locks the node of the match.
LEMMA AdmitSized ==
  ASSUME IInv, IInv', Sized(tree, At(req)), NEW r \in Reqs, Admit(r)
  PROVE  Sized(tree', At(req'))
<1> DEFINE q == req[r]
           key == AdmitKey(q)
           node == MatchNode(tree, key)
           S == Match(tree, key)
<1>1. q \in Request /\ Len(q.ids) > 0 /\ ~Holding(q)
  BY Zenon DEF Admit, IInv, FillLaw, Holding
<1>2. LockedTree(S, At(req)) /\ node \in Nodes(S)
  BY <1>1, MatchStep DEF IInv
<1>3. Sized(S, At(req))
  BY MatchSized
<1>4. PICK n : req' = [req EXCEPT ![r] = Admitted(q, n, node, Indices(S, node), Len(node) * PageSize)]
  BY Zenon DEF Admit, Admitted
<1>5. tree' = IncLockRef(S, node)
  BY DEF Admit
<1> DEFINE c == Admitted(q, n, node, Indices(S, node), Len(node) * PageSize)
<1>6. Holding(c) /\ c.node = node
  BY <1>1 DEF Admitted, Request, Holding
<1> HIDE DEF c, S, node, key
<1>7. req' = [req EXCEPT ![r] = c]
  BY <1>4 DEF c
<1>8. Joins(At(req), At(req'), r, node)
  BY <1>1, <1>6, <1>7, OneChanges, Zenon
<1> QED
  BY <1>2, <1>3, <1>5, <1>8, IncSized, Zenon

\* Allocation evicts around the locks, and the request keeps its node.
LEMMA AllocSized ==
  ASSUME IInv, IInv', Sized(tree, At(req)), NEW r \in Reqs, Extend(r) \/ Decode(r)
  PROVE  Sized(tree', At(req'))
<1>0. req[r] \in Request
  BY DEF IInv
<1>1. \E q : /\ req' = [req EXCEPT ![r] = q] /\ Holding(q) /\ Holding(req[r])
             /\ q.node = req[r].node
  <2>1. CASE Extend(r)
    <3> DEFINE ph == IF req[r].fill < Len(req[r].ids) THEN "chunk" ELSE "run"
               pe == IF req[r].fill < Len(req[r].ids) THEN <<>> ELSE <<"prefill">>
    <3>1. PICK w : req' = [req EXCEPT ![r] = Extended(req[r], w, ph, pe)]
      BY <2>1, Zenon DEF Extend, Extended
    <3>2. Holding(Extended(req[r], w, ph, pe)) /\ Extended(req[r], w, ph, pe).node = req[r].node
      BY <1>0 DEF Extended, Holding, Request
    <3> QED
      BY <2>1, <3>1, <3>2, Zenon DEF Extend, Holding
  <2>2. CASE Decode(r)
    <3>1. PICK w, pe : req' = [req EXCEPT ![r] = Decoded(req[r], w, pe)]
      BY <2>2, Zenon DEF Decode, Decoded
    <3>2. req[r].phase = "run"
      BY <2>2, Zenon DEF Decode, Launchable
    <3>3. Holding(Decoded(req[r], w, pe)) /\ Decoded(req[r], w, pe).node = req[r].node
      BY <1>0, <3>2 DEF Decoded, Holding, Request
    <3> QED
      BY <3>1, <3>2, <3>3, Zenon DEF Holding
  <2> QED
    BY <2>1, <2>2
<1>2. At(req') = At(req)
  BY <1>1, OneChanges, Zenon
<1>3. PICK num : \E E \in Evictions(tree, free, num) : tree' = Delete(tree, E)
  BY Zenon DEF Extend, Decode
<1>4. Sized(tree', At(req))
  BY <1>3, EvictSized DEF IInv
<1> QED
  BY <1>2, <1>4

\* Caching a chunk or the prefill moves the request's lock.
LEMMA MovingSized ==
  ASSUME IInv, IInv', Sized(tree, At(req)), NEW r \in Reqs, NEW q \in Request,
         Holding(req[r]), q.node = req[r].node, q.fill <= Len(q.ids), q.fill <= Len(q.row),
         NEW c, c = CacheUnfinished(tree, free, q), tree' = c.tree,
         NEW q2, Holding(q2), q2.node = c.req.node, req' = [req EXCEPT ![r] = q2]
  PROVE  Sized(tree', At(req'))
<1>1. Moved(At(req), At(req'), r, c.req.node)
  BY OneChanges, Zenon
<1>2. r \in DOMAIN At(req) /\ At(req)[r] = q.node
  BY Zenon DEF At
<1>3. LockedTree(tree, At(req))
  BY DEF IInv
<1> QED
  BY <1>1, <1>2, <1>3, UnfinishedSized, Zenon

\* A released request leaves its lock, and nodes may be evicted after it.
LEMMA LeavingSized ==
  ASSUME IInv, IInv', Sized(tree, At(req)), NEW r \in Reqs, Holding(req[r]), NEW q,
         q.node = req[r].node, q.ids \in Seq(Nat), q.extra_key \in ExtraKeys,
         q.row \in Seq(Pages), NEW ins \in BOOLEAN, ins => Len(q.row) <= Len(q.ids),
         NEW c, c = CacheFinished(tree, free, q, ins),
         NEW q2, ~Holding(q2), req' = [req EXCEPT ![r] = q2],
         tree' = c.tree \/ \E num : \E E \in Evictions(c.tree, c.free, num) : tree' = Delete(c.tree, E)
  PROVE  Sized(tree', At(req'))
<1>0. LockedTree(tree, At(req)) /\ free \in [Pages -> Nat]
  BY DEF IInv
<1>1. Joins(At(req'), At(req), r, q.node)
  BY OneChanges, Zenon
<1>2. Sized(c.tree, At(req'))
  BY <1>0, <1>1, FinishedSized, Zenon
<1>3. LockedTree(c.tree, At(req'))
  BY <1>0, <1>1, CacheFinishedStep, Zenon
<1>4. ASSUME NEW num, NEW E \in Evictions(c.tree, c.free, num), tree' = Delete(c.tree, E)
      PROVE  Sized(tree', At(req'))
  BY <1>2, <1>3, <1>4, EvictSized, Zenon
<1> QED
  BY <1>2, <1>4, Zenon

\* A result that finishes the request.
LEMMA FinishSized ==
  ASSUME IInv, IInv', Sized(tree, At(req)), NEW r \in Reqs, Holding(req[r]), NEW s,
         s.node = req[r].node, s.ids \in Seq(Nat), s.extra_key \in ExtraKeys,
         s.row \in Seq(Pages), Len(s.row) <= Len(s.ids), Finish(r, s)
  PROVE  Sized(tree', At(req'))
<1> DEFINE c == CacheFinished(tree, free, s, TRUE)
<1>1. tree' = c.tree /\ req' = [req EXCEPT ![r] = NoReq]
  BY DEF Finish
<1>2. c = CacheFinished(tree, free, s, TRUE) /\ TRUE \in BOOLEAN /\ ~Holding(NoReq)
  BY NoReqType
<1> HIDE DEF c
<1> QED
  BY <1>1, <1>2, LeavingSized, Zenon

\* Caching a chunk.
LEMMA CacheChunkSized ==
  ASSUME IInv, IInv', Sized(tree, At(req)), NEW r \in Reqs, CacheChunk(r)
  PROVE  Sized(tree', At(req'))
<1> DEFINE q == req[r]
           c == CacheUnfinished(tree, free, q)
<1>1. q \in Request /\ q.fill <= Len(q.ids) /\ q.fill <= Len(q.row) /\ Holding(q)
  BY Zenon DEF CacheChunk, IInv, FillLaw, Holding
<1>2. PICK n : req' = [req EXCEPT ![r] = Rechunked(c.req, n, <<>>)]
  BY Zenon DEF CacheChunk, Rechunked
<1>3. tree' = c.tree
  BY DEF CacheChunk
<1>4. Holding(req[r]) /\ q.node = req[r].node
  BY <1>1
<1> HIDE DEF q
<1>5. c = CacheUnfinished(tree, free, q)
  BY Zenon
<1> HIDE DEF c
<1>6. c.req \in Request
  BY <1>1, <1>4, <1>5, CachedReq, Zenon
<1> DEFINE q2 == Rechunked(c.req, n, <<>>)
<1>7. Holding(q2) /\ q2.node = c.req.node
  BY <1>6 DEF Rechunked, Holding, Request
<1> HIDE DEF q2
<1>8. req' = [req EXCEPT ![r] = q2]
  BY <1>2, Zenon DEF q2
<1> QED
  BY <1>1, <1>3, <1>4, <1>5, <1>7, <1>8, MovingSized, Zenon

\* The result of a prefill or of a decode.
LEMMA ResultSized ==
  ASSUME IInv, IInv', Sized(tree, At(req)), NEW r \in Reqs, PrefillResult(r) \/ DecodeResult(r)
  PROVE  Sized(tree', At(req'))
<1>1. req[r] \in Request /\ FillLaw(req[r]) /\ req[r].phase = "run" /\ req[r].pend # <<>>
  BY Zenon DEF PrefillResult, DecodeResult, IInv
<1>2. PICK t \in Tok :
        \/ Finish(r, Sampled(req[r], t))
        \/ /\ Sampled(req[r], t).out < MaxNew
           /\ tree' = CacheUnfinished(tree, free, Sampled(req[r], t)).tree
           /\ req' = [req EXCEPT ![r] = CacheUnfinished(tree, free, Sampled(req[r], t)).req]
        \/ /\ Sampled(req[r], t).out < MaxNew
           /\ tree' = tree
           /\ req' = [req EXCEPT ![r] = Sampled(req[r], t)]
  <2>1. CASE PrefillResult(r)
    BY <2>1, Zenon DEF PrefillResult
  <2>2. CASE DecodeResult(r)
    BY <2>2, Zenon DEF DecodeResult
  <2> QED
    BY <2>1, <2>2, Zenon
<1>3. Holding(req[r])
  BY <1>1, Zenon DEF Holding
<1> DEFINE s == Sampled(req[r], t)
<1>4. /\ s.ids \in Seq(Nat) /\ s.extra_key \in ExtraKeys /\ s.row \in Seq(Pages)
      /\ s.node = req[r].node /\ s.phase = "run" /\ s.fill <= Len(s.ids)
      /\ s.fill <= Len(s.row) /\ Len(s.row) <= Len(s.ids)
      /\ s.out < MaxNew => s \in Request
  BY <1>1, SampledType, Zenon
<1>5. Holding(s)
  BY <1>4, Zenon DEF Holding
<1> HIDE DEF s
<1>6. CASE Finish(r, s)
  BY <1>3, <1>4, <1>6, FinishSized, Zenon
<1>7. CASE /\ s.out < MaxNew /\ tree' = CacheUnfinished(tree, free, s).tree
           /\ req' = [req EXCEPT ![r] = CacheUnfinished(tree, free, s).req]
  <2> DEFINE c == CacheUnfinished(tree, free, s)
  <2>1. /\ tree' = c.tree /\ req' = [req EXCEPT ![r] = c.req] /\ s \in Request
        /\ c = CacheUnfinished(tree, free, s)
    BY <1>4, <1>7, Zenon
  <2> HIDE DEF c
  <2>2. c.req \in Request /\ c.req.phase = s.phase
    BY <1>3, <1>4, <2>1, CachedReq, Zenon
  <2>3. Holding(c.req)
    BY <1>4, <2>2 DEF Holding
  <2> QED
    BY <1>3, <1>4, <2>1, <2>3, MovingSized, Zenon
<1>8. CASE tree' = tree /\ req' = [req EXCEPT ![r] = s]
  BY <1>3, <1>4, <1>5, <1>8, QuietSized, Zenon
<1> QED
  BY <1>2, <1>6, <1>7, <1>8, Zenon DEF s

\* Retraction releases the request without inserting, and evicts.
LEMMA RetractSized ==
  ASSUME IInv, IInv', Sized(tree, At(req)), NEW r \in Reqs, Retract(r)
  PROVE  Sized(tree', At(req'))
<1> DEFINE q == req[r]
           c == CacheFinished(tree, free, q, FALSE)
           q2 == Queued(q.ids, q.out, q.extra_key)
<1>1. q \in Request /\ Holding(q)
  BY DEF Retract, Launchable, IInv, Holding
<1>2. q.ids \in Seq(Nat) /\ q.extra_key \in ExtraKeys /\ q.row \in Seq(Pages)
  BY <1>1 DEF Request
<1>3. ~Holding(q2)
  BY DEF Queued, NoReq, Holding
<1>4. /\ req' = [req EXCEPT ![r] = q2] /\ c = CacheFinished(tree, free, q, FALSE)
      /\ FALSE \in BOOLEAN
  BY DEF Retract
<1>5. \E n : \E E \in Evictions(c.tree, c.free, n) : tree' = Delete(c.tree, E)
  BY Zenon DEF Retract
<1> HIDE DEF c, q2
<1> QED
  BY <1>1, <1>2, <1>3, <1>4, <1>5, LeavingSized, Zenon

\* The empty tree has no size.
LEMMA EmptySized ==
  ASSUME NEW at
  PROVE  Sized(EmptyTree, at)
<1>1. Paths(EmptyTree) = {} /\ EmptyTree.evictable = 0 /\ EmptyTree.protected = 0
  BY DEF EmptyTree, Paths
<1>2. HeldPaths(EmptyTree, at) = {} /\ Paths(EmptyTree) \ HeldPaths(EmptyTree, at) = {}
  BY <1>1 DEF HeldPaths
<1>3. PageSize * Cardinality({}) = 0
  BY FS_EmptySet, PageSizeAssumption
<1> QED
  BY <1>1, <1>2, <1>3, Zenon DEF Sized

\* Every step keeps the sizes.
LEMMA NextSized ==
  ASSUME IInv, Sized(tree, At(req)), [Next]_vars
  PROVE  IInv' /\ Sized(tree', At(req'))
<1>0. IInv'
  BY NextIInv
<1>1. CASE FlushCache
  BY <1>0, <1>1, EmptySized DEF FlushCache
<1>2. ASSUME NEW r \in Reqs, Arrive(r) \/ Abort(r)
      PROVE  Sized(tree', At(req'))
  <2>1. PICK q : req' = [req EXCEPT ![r] = q] /\ ~Holding(q)
    <3>1. \A i, o, k : ~Holding(Queued(i, o, k))
      BY DEF Queued, NoReq, Holding
    <3>2. ~Holding(NoReq)
      BY NoReqType
    <3> QED
      BY <1>2, <3>1, <3>2, Zenon DEF Arrive, Abort
  <2>2. tree' = tree /\ ~Holding(req[r])
    BY <1>2 DEF Arrive, Abort, Holding
  <2> QED
    BY <1>0, <2>1, <2>2, QuietSized, Zenon
<1>3. ASSUME NEW r \in Reqs, Reject(r)
      PROVE  Sized(tree', At(req'))
  BY <1>3, MatchSized, Zenon DEF Reject
<1>4. ASSUME NEW r \in Reqs, CheckDecodeMem(r)
      PROVE  Sized(tree', At(req'))
  BY <1>4, EvictSized DEF CheckDecodeMem, IInv
<1>5. CASE UNCHANGED vars
  BY <1>0, <1>5, Zenon DEF vars
<1>6. CASE \E r \in Reqs :
       \/ Arrive(r) \/ Abort(r) \/ Reject(r) \/ Admit(r) \/ Extend(r) \/ CacheChunk(r)
       \/ Decode(r) \/ PrefillResult(r) \/ DecodeResult(r) \/ Retract(r)
       \/ CheckDecodeMem(r)
  BY <1>0, <1>2, <1>3, <1>4, <1>6, AdmitSized, AllocSized, CacheChunkSized, ResultSized,
     RetractSized
<1> QED
  BY <1>0, <1>1, <1>5, <1>6, Zenon DEF Next

\* evictable_size_ is always what evict can really free, and protected_size_ the locked
\* rest: the figure the admission budget adds to the free tokens never drifts, whatever
\* the interleaving of splits, inserts, locks, unlocks and evictions.
THEOREM SizesCorrect == Spec => []SizesExact
<1> DEFINE SInv == IInv /\ Sized(tree, At(req))
<1>1. Init => SInv
  BY InitIInv, EmptySized DEF Init
<1>2. SInv /\ [Next]_vars => SInv'
  BY NextSized, Zenon
<1>3. SInv => SizesExact
  BY SizedIsExact DEF IInv, SizesExact
<1> QED
  BY <1>1, <1>2, <1>3, PTL DEF Spec
=============================================================================
