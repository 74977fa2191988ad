--------------------------- MODULE RadixCachePages --------------------------
(***************************************************************************)
(* Pages and rows of the radix cache.  Every page is free, caches one path *)
(* of the tree, or is private to one request: next to IInv the invariant   *)
(* keeps what the slots of a request look like past the matched prefix (a  *)
(* page for each block of positions) and how its lengths fit together.     *)
(* Over the matched prefix a request reads the slots the tree caches for   *)
(* its tokens.                                                             *)
(***************************************************************************)
EXTENDS RadixCacheProofs

USE SMTT(30)
-----------------------------------------------------------------------------
(* The inductive invariant, and the actions.                               *)

\* The slots a request holds: prefix_indices until it gets a row, then the row.
Held(q) == IF q.phase = "ready" THEN q.prefix ELSE q.row

\* last_node is the key of the matched tokens; prefix_indices passes the match by less than
\* a page and the partial bigram, and is shorter than the fill before the extend; a chunk's
\* row is its fill, short of the tokens; past the match there is a page for every block.
Good(q) ==
  /\ q.matched = Len(q.node) * PageSize /\ q.matched + Shift <= q.fill
  /\ q.node = KeyOf(q, q.matched + Shift)
  /\ q.matched <= Len(q.prefix) /\ Len(q.prefix) < q.matched + PageSize + Shift
  /\ q.phase = "ready" => Len(q.prefix) < q.fill
  /\ q.phase = "chunk" => Len(q.row) = q.fill /\ q.fill < Len(q.ids)
  /\ Blocks(Held(q), q.matched)

\* What each request owns.
Owned(q) == IF Holding(q) THEN Private(q) ELSE {}
Own(R) == [r \in Reqs |-> Owned(R[r])]

PInv ==
  /\ IInv
  /\ \A r \in Reqs : Holding(req[r]) => Good(req[r])
  /\ Parted(tree, free, Own(req))

\* One request changes; what it owns is the only change of what the requests own.
LEMMA OneOwns ==
  ASSUME PInv, IInv', NEW r \in Reqs, NEW q, req' = [req EXCEPT ![r] = q],
         Holding(q) => Good(q), Parted(tree', free', [Own(req) EXCEPT ![r] = Owned(q)])
  PROVE  PInv'
<1>1. req \in [Reqs -> Request]
  BY DEF PInv, IInv
<1>2. req'[r] = q /\ \A s \in Reqs : s # r => req'[s] = req[s]
  BY <1>1
<1>3. \A s \in Reqs : Holding(req'[s]) => Good(req'[s])
  BY <1>2 DEF PInv
<1>4. Own(req') = [Own(req) EXCEPT ![r] = Owned(q)]
  <2>1. \A s \in Reqs : Owned(req'[s]) = IF s = r THEN Owned(q) ELSE Owned(req[s])
    BY <1>2
  <2>2. Own(req') = [s \in Reqs |-> IF s = r THEN Owned(q) ELSE Owned(req[s])]
    BY <2>1 DEF Own
  <2> QED
    BY <2>2, Zenon DEF Own
<1> QED
  BY <1>3, <1>4 DEF PInv

\* No request changes, and pages move between the tree and the free lists only.
LEMMA NoneOwns ==
  ASSUME PInv, IInv', req' = req, Parted(tree', free', Own(req))
  PROVE  PInv'
BY DEF PInv

\* A request owns the same before and after, and nothing else moves.
LEMMA SameOwns ==
  ASSUME PInv, IInv', NEW r \in Reqs, NEW q, req' = [req EXCEPT ![r] = q],
         Holding(q) => Good(q), Owned(q) = Owned(req[r]), tree'.val = tree.val, free' = free
  PROVE  PInv'
<1>1. [Own(req) EXCEPT ![r] = Owned(q)] = Own(req)
  BY DEF Own
<1>2. Parted(tree', free', Own(req))
  BY PartedSame DEF PInv
<1> QED
  BY <1>1, <1>2, OneOwns, Zenon

\* A match splits a node at most.
LEMMA MatchVal ==
  ASSUME NEW T, TreeOK(PageKey, Pages, T), NEW key
  PROVE  Match(T, key).val = T.val
BY DEF Match, Split, TreeOK

\* A request with a row can be cached.
LEMMA GoodCuttable ==
  ASSUME NEW q \in Request, Good(q), q.phase # "ready"
  PROVE  Cuttable(q)
BY Zenon DEF Request, Good, Cuttable, Held

\* Arrival, and abort in the waiting queue.
LEMMA QueueOwned ==
  ASSUME PInv, IInv', NEW r \in Reqs, Arrive(r) \/ Abort(r)
  PROVE  PInv'
<1>1. PICK q : req' = [req EXCEPT ![r] = q] /\ ~Holding(q)
  <2>1. \A i, o, k : ~Holding(Queued(i, o, k))
    BY DEF Queued, NoReq, Holding
  <2>2. ~Holding(NoReq)
    BY NoReqType
  <2> QED
    BY <2>1, <2>2, Zenon DEF Arrive, Abort
<1>2. tree' = tree /\ free' = free /\ ~Holding(req[r])
  BY DEF Arrive, Abort, Holding
<1>3. Owned(q) = Owned(req[r])
  BY <1>1, <1>2 DEF Owned
<1> QED
  BY <1>1, <1>2, <1>3, SameOwns, Zenon

\* The node of a match of at most all but the last token is the key of its tokens.
LEMMA AdmitNode ==
  ASSUME NEW q, q.ids \in Seq(Nat), q.extra_key \in ExtraKeys, Len(q.ids) > 0,
         NEW g \in 0..Len(KeyOf(q, Len(q.ids) - 1))
  PROVE  /\ SubSeq(KeyOf(q, Len(q.ids) - 1), 1, g) = KeyOf(q, g * PageSize + Shift)
         /\ g * PageSize + Shift <= Len(q.ids) /\ g * PageSize < Len(q.ids)
<1> DEFINE n == Len(q.ids) - 1
           key == KeyOf(q, n)
           l == Len(key)
<1>1. n \in Nat /\ n \in 0..Len(q.ids) /\ Shift \in 0..1 /\ n + 1 = Len(q.ids)
      /\ PageSize \in Nat \ {0}
  BY PageSizeAssumption DEF Shift
<1>2. key \in Seq(PageKey) /\ l * PageSize <= n
  BY <1>1, KeyOfType, Zenon
<1>3. CASE g = 0
  <2>1. Shift \in 0..Len(q.ids) /\ Shift <= Shift
    BY <1>1
  <2> DEFINE N == (Shift - Shift) \div PageSize
  <2>2. /\ N \in Nat /\ N * PageSize \in Nat /\ N * PageSize + Shift <= Shift
        /\ KeyOf(q, Shift) = [i \in 1..N |-> <<q.extra_key, KeyPage(q.ids, i)>>]
    BY <2>1, KeyOfIs, Zenon
  <2> HIDE DEF N
  <2>3. N = 0
    <3>1. 0 < N => 0 * PageSize + PageSize <= N * PageSize
      BY <2>2, Apage
    <3> QED
      BY <1>1, <2>2, <3>1
  <2>4. KeyOf(q, Shift) = <<>>
    BY <2>2, <2>3
  <2>5. SubSeq(key, 1, 0) = <<>>
    BY <1>2
  <2>6. g * PageSize = 0 /\ g * PageSize + Shift = Shift
    BY <1>1, <1>3
  <2>7. g * PageSize + Shift <= Len(q.ids) /\ g * PageSize < Len(q.ids)
    BY <1>1, <2>6
  <2>8. KeyOf(q, g * PageSize + Shift) = SubSeq(key, 1, g)
    BY <1>3, <2>4, <2>5, <2>6, Zenon
  <2> QED
    BY <2>7, <2>8, Zenon
<1>4. CASE g # 0
  <2>1. Shift <= n
    <3>1. l \in Nat /\ 1 <= l
      BY <1>2, <1>4
    <3>2. PageSize <= l * PageSize
      BY <1>1, <3>1
    <3> QED
      BY <1>1, <1>2, <3>1, <3>2
  <2>2. 0 * PageSize + Shift <= n /\ 0 \in Nat
    BY <1>1, <2>1
  <2>3. l * PageSize + Shift <= n
    BY <1>1, <2>2, KeyCut, Zenon
  <2>4. g \in Nat /\ g * PageSize <= l * PageSize
    <3>1. g \in Nat /\ l \in Nat /\ g <= l /\ g \in Int /\ l \in Int
      BY <1>2
    <3> HIDE DEF l
    <3>2. /\ g * PageSize \in Int /\ l * PageSize \in Int
          /\ (g < l => g * PageSize + PageSize <= l * PageSize)
      BY <3>1, Apage, Zenon
    <3> QED
      BY <1>1, <3>1, <3>2
  <2> DEFINE gd == g * PageSize
             ld == l * PageSize
  <2>5. gd \in Nat /\ ld \in Nat
    BY <1>1, <1>2, <2>4
  <2>6. gd <= ld /\ ld + Shift <= n
    BY <2>3, <2>4
  <2> HIDE DEF gd, ld
  <2>7. gd + Shift <= n /\ gd + Shift <= Len(q.ids) /\ gd < Len(q.ids)
    BY <1>1, <2>5, <2>6
  <2>8. KeyOf(q, g * PageSize + Shift) = SubSeq(key, 1, g)
    BY <1>1, <2>4, <2>7, KeyCut, Zenon DEF gd
  <2> QED
    BY <2>7, <2>8 DEF gd
<1> QED
  BY <1>3, <1>4

\* Admission: the request's slots are the tree's, so it owns none of their pages.
LEMMA AdmitOwned ==
  ASSUME PInv, IInv', NEW r \in Reqs, Admit(r)
  PROVE  PInv'
<1> DEFINE q == req[r]
           key == AdmitKey(q)
           g == MatchLen(tree, key)
           node == MatchNode(tree, key)
           S == Match(tree, key)
           m == Len(node) * PageSize
           pre == Indices(S, node)
<1>1. /\ q \in Request /\ Len(q.ids) > 0 /\ ~Holding(q) /\ q.ids \in Seq(Nat)
      /\ q.extra_key \in ExtraKeys /\ LockedTree(tree, At(req))
  BY Zenon DEF Admit, PInv, IInv, FillLaw, Holding, Request
<1>2. LockedTree(S, At(req)) /\ node \in Nodes(S)
  BY <1>1, MatchStep
<1>3. PICK n \in Fills(q, m, TRUE) : req' = [req EXCEPT ![r] = Admitted(q, n, node, pre, m)]
  BY Zenon DEF Admit, Admitted
<1>4. tree'.val = tree.val /\ free' = free
  <2>1. tree' = IncLockRef(S, node) /\ free' = free
    BY DEF Admit
  <2>2. IncLockRef(S, node).val = S.val
    BY DEF IncLockRef
  <2> QED
    BY <1>1, <2>1, <2>2, MatchVal, Zenon DEF LockedTree
<1>5. key \in Seq(PageKey)
  <2>1. Len(q.ids) - 1 \in 0..Len(q.ids)
    BY <1>1
  <2> QED
    BY <1>1, <2>1, KeyOfType DEF AdmitKey
<1>6. g \in 0..Len(key) /\ node = SubSeq(key, 1, g)
  BY <1>5, MatchLenDef DEF MatchNode
<1>7. pre \in Seq(Pages) /\ Len(pre) = m
  BY <1>2, IndicesType DEF LockedTree
<1> HIDE DEF q
<1>8. Len(node) = g /\ node \in Seq(PageKey)
  <2> HIDE DEF key, g, node
  <2> QED
    BY <1>5, <1>6, SubIsPrefix, Zenon
<1>9. /\ node = KeyOf(q, m + Shift) /\ m + Shift <= Len(q.ids) /\ m < Len(q.ids)
      /\ m \in Nat /\ Shift \in 0..1 /\ Len(q.ids) \in Nat
  <2>1. g \in 0..Len(KeyOf(q, Len(q.ids) - 1))
    BY <1>6 DEF AdmitKey
  <2>2. /\ SubSeq(KeyOf(q, Len(q.ids) - 1), 1, g) = KeyOf(q, g * PageSize + Shift)
        /\ g * PageSize + Shift <= Len(q.ids) /\ g * PageSize < Len(q.ids)
    BY <1>1, <2>1, AdmitNode, Zenon
  <2>3. m = g * PageSize /\ node = SubSeq(KeyOf(q, Len(q.ids) - 1), 1, g)
    BY <1>6, <1>8 DEF AdmitKey
  <2>4. m \in Nat
    BY <1>8, PageSizeAssumption
  <2> HIDE DEF m, g, node, key
  <2> QED
    BY <1>1, <2>2, <2>3, <2>4 DEF Shift
<1> HIDE DEF m, g, node, key, pre
<1>10. n \in Nat /\ m < n
  <2>1. CASE n = Len(q.ids)
    BY <1>9, <2>1
  <2>2. CASE n # Len(q.ids)
    <3>1. PICK c \in ChunkSizes : n = m + c /\ m < n
      BY <2>2 DEF Fills
    <3> QED
      BY <1>9, <3>1, ConstantsOK
  <2> QED
    BY <2>1, <2>2
<1> DEFINE c == Admitted(q, n, node, pre, m)
<1>11. /\ c.phase = "ready" /\ c.ids = q.ids /\ c.extra_key = q.extra_key /\ c.fill = n
       /\ c.node = node /\ c.prefix = pre /\ c.matched = m
  BY <1>1 DEF Admitted, Request
<1> HIDE DEF c
<1>12. Good(c)
  <2>1. c.node = KeyOf(c, c.matched + Shift)
    BY <1>9, <1>11, Zenon DEF KeyOf
  <2>2. Held(c) = pre /\ Blocks(Held(c), c.matched)
    <3>1. Held(c) = pre
      BY <1>11 DEF Held
    <3>2. (m + 1)..Len(pre) = {}
      BY <1>7, <1>9
    <3>3. Blocks(pre, m)
      BY <3>2 DEF Blocks
    <3> QED
      BY <1>11, <3>1, <3>3, Zenon
  <2>3. /\ c.matched = Len(c.node) * PageSize /\ c.matched + Shift <= c.fill
        /\ c.matched <= Len(c.prefix) /\ Len(c.prefix) < c.matched + PageSize + Shift
        /\ Len(c.prefix) < c.fill
    <3>1. c.matched = Len(c.node) * PageSize
      BY <1>11 DEF m
    <3> QED
      BY <1>7, <1>9, <1>10, <1>11, <3>1, PageSizeAssumption
  <2> QED
    BY <1>11, <2>1, <2>2, <2>3, Zenon DEF Good
<1>13. Owned(c) = {} /\ Owned(req[r]) = {}
  <2>1. Slice(pre, m, Len(pre)) = {}
    <3>1. (m + 1)..Len(pre) = {}
      BY <1>7, <1>9
    <3> QED
      BY <3>1, Zenon DEF Slice
  <2> QED
    BY <1>1, <1>11, <2>1, Zenon DEF Owned, Private, Holding, q
<1>14. req' = [req EXCEPT ![r] = c]
  BY <1>3 DEF c
<1> QED
  BY <1>4, <1>12, <1>13, <1>14, SameOwns, Zenon


\* A request's slots w grow to b with the pages new, after E is evicted.
Grew(r, b, E, new, c) ==
  LET w == Held(req[r])
  IN  /\ Holding(req[r]) /\ b \in Nat /\ Len(w) <= b
      /\ new \in Allocations(AfterEvict(tree, free, E), NewPages(Len(w), b))
      /\ c.row = Grown(w, b, new)
      /\ c.ids = req[r].ids /\ c.extra_key = req[r].extra_key /\ c.node = req[r].node
      /\ c.matched = req[r].matched /\ c.prefix = req[r].prefix /\ c.fill = req[r].fill
      /\ c.phase \in {"chunk", "run"}
      /\ c.phase = "chunk" => b = c.fill /\ c.fill < Len(c.ids)

\* The eviction frees, the allocation takes, and the request owns what it owned and the
\* new pages.
LEMMA GrowOwned ==
  ASSUME PInv, IInv', NEW r \in Reqs, NEW b, NEW E, NEW new, NEW c, Grew(r, b, E, new, c),
         tree' = Delete(tree, E), free' = Without(AfterEvict(tree, free, E), new),
         req' = [req EXCEPT ![r] = c]
  PROVE  PInv'
<1> DEFINE q == req[r]
           w == Held(q)
           k == Len(q.node)
           g == AfterEvict(tree, free, E)
           kk == NewPages(Len(w), b)
           N == Taken(new)
           P == Own(req)
           x == Grown(w, b, new)
<1>0. /\ Holding(req[r]) /\ b \in Nat /\ Len(w) <= b
      /\ new \in Allocations(AfterEvict(tree, free, E), NewPages(Len(w), b))
      /\ c.row = Grown(w, b, new)
      /\ c.ids = req[r].ids /\ c.extra_key = req[r].extra_key /\ c.node = req[r].node
      /\ c.matched = req[r].matched /\ c.prefix = req[r].prefix /\ c.fill = req[r].fill
      /\ c.phase \in {"chunk", "run"}
      /\ c.phase = "chunk" => b = c.fill /\ c.fill < Len(c.ids)
  BY DEF Grew
<1>1. q \in Request /\ Good(q) /\ Parted(tree, free, P)
  BY <1>0 DEF PInv, IInv
<1>2. /\ w \in Seq(Pages) /\ k \in Nat /\ q.matched = k * PageSize /\ Len(w) \in Nat
      /\ Blocks(w, k * PageSize)
  BY <1>1 DEF Good, Request, Held
<1>3. P[r] = Slice(w, k * PageSize, Len(w))
  BY <1>0, <1>2 DEF Own, Owned, Private, Held
<1>4. k * PageSize <= Len(w)
  <2>1. CASE q.phase = "ready"
    BY <1>1, <1>2, <2>1, Zenon DEF Good, Held
  <2>2. CASE q.phase # "ready"
    <3>1. FillLaw(q) /\ q.fill <= Len(w) /\ q.fill \in Nat
      BY <1>0, <1>1, <2>2, Zenon DEF PInv, IInv, FillLaw, Held, Holding, Request
    <3>2. q.matched + Shift <= q.fill /\ Shift \in 0..1
      BY <1>1 DEF Good, Shift
    <3>3. k * PageSize \in Nat
      BY <1>2, PageSizeAssumption
    <3> QED
      BY <1>2, <3>1, <3>2, <3>3
  <2> QED
    BY <2>1, <2>2, Zenon
<1> HIDE DEF q, k, P, w
<1>5. Parted(tree', g, P)
  BY <1>1, PartedEvict
<1>6. kk \in Int
  BY <1>0, <1>2, PageSizeAssumption DEF NewPages
<1> HIDE DEF g, kk
<1>7. /\ new \in [1..kk -> Pages] /\ \A i, j \in 1..kk : new[i] = new[j] => i = j
      /\ \A i \in 1..kk : new[i] \notin P[r]
      /\ Parted(tree', Without(g, new), [P EXCEPT ![r] = @ \cup N])
  <2>1. new \in Allocations(g, kk)
    BY <1>0 DEF g, kk
  <2> QED
    BY <1>5, <1>6, <2>1, PartedAlloc
<1>8. DOMAIN new = 1..kk
  BY <1>7
<1>9. /\ Blocks(x, k * PageSize)
      /\ Slice(x, k * PageSize, Len(x)) = Slice(w, k * PageSize, Len(w)) \cup N
  <2>1. \A i, j \in DOMAIN new : new[i] = new[j] => i = j
    BY <1>7, <1>8
  <2>2. \A i \in DOMAIN new : new[i] \notin Slice(w, k * PageSize, Len(w))
    BY <1>3, <1>7, <1>8, Zenon
  <2>3. new \in [1..NewPages(Len(w), b) -> Pages]
    BY <1>7 DEF kk
  <2>4. Fresh(w, k * PageSize, new)
    BY <2>1, <2>2 DEF Fresh
  <2>5. Longer(w, k * PageSize, new, x)
    BY <1>0, <1>2, <1>4, <2>3, <2>4, GrownSlots, Zenon
  <2> QED
    BY <2>5 DEF Longer
<1>10. Len(x) = b
  <2>1. new \in [1..NewPages(Len(w), b) -> Pages]
    BY <1>7 DEF kk
  <2> QED
    BY <1>0, <1>2, <2>1, GrownType, Zenon
<1> HIDE DEF N, x
<1>11. c.row = x /\ Held(c) = x /\ Holding(c)
  BY <1>0 DEF x, Held, Holding
<1>12. Good(c)
  <2>1. c.node = KeyOf(c, c.matched + Shift)
    <3>1. q.node = KeyOf(q, q.matched + Shift)
      BY <1>1 DEF Good
    <3> QED
      BY <1>0, <3>1, Zenon DEF KeyOf, q
  <2>2. Blocks(Held(c), c.matched)
    BY <1>0, <1>2, <1>9, <1>11, Zenon DEF q
  <2>3. /\ c.matched = Len(c.node) * PageSize /\ c.matched + Shift <= c.fill
        /\ c.matched <= Len(c.prefix) /\ Len(c.prefix) < c.matched + PageSize + Shift
    BY <1>0, <1>1, Zenon DEF Good, q
  <2> QED
    BY <1>0, <1>10, <1>11, <2>1, <2>2, <2>3, Zenon DEF Good
<1>13. Owned(c) = Slice(x, k * PageSize, Len(x))
  BY <1>0, <1>2, <1>11, Zenon DEF Owned, Private, q
<1>14. [Own(req) EXCEPT ![r] = Owned(c)] = [P EXCEPT ![r] = @ \cup N]
  BY <1>3, <1>9, <1>13, Zenon DEF P
<1> QED
  BY <1>7, <1>11, <1>12, <1>14, OneOwns, Zenon DEF g

\* prepare_for_extend and prepare_for_decode.
LEMMA AllocOwned ==
  ASSUME PInv, IInv', NEW r \in Reqs, Extend(r) \/ Decode(r)
  PROVE  PInv'
<1> DEFINE q == req[r]
<1>0. q \in Request /\ FillLaw(q)
  BY DEF PInv, IInv
<1>1. CASE Extend(r)
  <2> DEFINE ph == IF q.fill < Len(q.ids) THEN "chunk" ELSE "run"
             pe == IF q.fill < Len(q.ids) THEN <<>> ELSE <<"prefill">>
             w == q.prefix
  <2>1. q.phase = "ready" /\ Holding(q) /\ w = Held(q)
    BY <1>1, Zenon DEF Extend, Holding, Held
  <2>2. PICK E : \E new \in Allocations(AfterEvict(tree, free, E), NewPages(Len(w), q.fill)) :
           /\ tree' = Delete(tree, E)
           /\ free' = Without(AfterEvict(tree, free, E), new)
           /\ req' = [req EXCEPT ![r] = Extended(q, Grown(w, q.fill, new), ph, pe)]
    BY <1>1, Zenon DEF Extend, Extended
  <2>3. PICK new \in Allocations(AfterEvict(tree, free, E), NewPages(Len(w), q.fill)) :
           /\ tree' = Delete(tree, E)
           /\ free' = Without(AfterEvict(tree, free, E), new)
           /\ req' = [req EXCEPT ![r] = Extended(q, Grown(w, q.fill, new), ph, pe)]
    BY <2>2, Zenon
  <2> DEFINE c == Extended(q, Grown(w, q.fill, new), ph, pe)
  <2>4. ph \in {"chunk", "run"} /\ (ph = "chunk" => q.fill < Len(q.ids))
    OBVIOUS
  <2> HIDE DEF ph, pe
  <2>5. /\ c.row = Grown(w, q.fill, new) /\ c.ids = q.ids /\ c.extra_key = q.extra_key
        /\ c.node = q.node /\ c.matched = q.matched /\ c.prefix = q.prefix
        /\ c.fill = q.fill /\ c.phase = ph
    BY <1>0, Zenon DEF Extended, Request
  <2>6. q.fill \in Nat /\ Len(w) <= q.fill
    <3>1. Good(q)
      BY <2>1 DEF PInv
    <3> QED
      BY <1>0, <2>1, <3>1 DEF Good, Request
  <2>7. req' = [req EXCEPT ![r] = c]
    BY <2>3
  <2> HIDE DEF c
  <2>8. c.phase \in {"chunk", "run"} /\ (c.phase = "chunk" => q.fill = c.fill /\ c.fill < Len(c.ids))
    BY <2>4, <2>5, Zenon
  <2>9. Grew(r, q.fill, E, new, c)
    BY <2>1, <2>3, <2>5, <2>6, <2>8, Zenon DEF Grew
  <2> QED
    BY <2>3, <2>7, <2>9, GrowOwned, Zenon
<1>2. CASE Decode(r)
  <2> DEFINE pe == Append(q.pend, "decode")
             w == q.row
             b == Len(w) + 1
  <2>1. q.phase = "run" /\ Holding(q) /\ w = Held(q)
    BY <1>2, Zenon DEF Decode, Launchable, Holding, Held
  <2>2. PICK E : \E new \in Allocations(AfterEvict(tree, free, E), NewPages(Len(w), b)) :
           /\ tree' = Delete(tree, E)
           /\ free' = Without(AfterEvict(tree, free, E), new)
           /\ req' = [req EXCEPT ![r] = Decoded(q, Grown(w, b, new), pe)]
    BY <1>2, Zenon DEF Decode, Decoded
  <2>3. PICK new \in Allocations(AfterEvict(tree, free, E), NewPages(Len(w), b)) :
           /\ tree' = Delete(tree, E)
           /\ free' = Without(AfterEvict(tree, free, E), new)
           /\ req' = [req EXCEPT ![r] = Decoded(q, Grown(w, b, new), pe)]
    BY <2>2, Zenon
  <2> DEFINE c == Decoded(q, Grown(w, b, new), pe)
  <2> HIDE DEF pe
  <2>4. b \in Nat /\ Len(w) <= b
    BY <1>0 DEF Request
  <2> HIDE DEF b
  <2>5. /\ c.row = Grown(w, b, new) /\ c.ids = q.ids /\ c.extra_key = q.extra_key
        /\ c.node = q.node /\ c.matched = q.matched /\ c.prefix = q.prefix
        /\ c.fill = q.fill /\ c.phase = "run"
    BY <1>0, <2>1, Zenon DEF Decoded, Request
  <2>6. req' = [req EXCEPT ![r] = c]
    BY <2>3
  <2> HIDE DEF c
  <2>7. c.phase \in {"chunk", "run"} /\ (c.phase = "chunk" => b = c.fill /\ c.fill < Len(c.ids))
    BY <2>5, Zenon
  <2>8. Grew(r, b, E, new, c)
    BY <2>1, <2>3, <2>4, <2>5, <2>7, Zenon DEF Grew
  <2> QED
    BY <2>3, <2>6, <2>8, GrowOwned, Zenon
<1> QED
  BY <1>1, <1>2, Zenon


-----------------------------------------------------------------------------
(* The results of the forward passes, and the end of a request.            *)

\* What cache_unfinished_req makes of a request.
Recut(q, d) ==
  /\ d.ids = q.ids /\ d.extra_key = q.extra_key /\ d.phase = q.phase /\ d.fill = q.fill
  /\ d.matched \in Nat /\ q.matched <= d.matched /\ d.matched = Len(d.node) * PageSize
  /\ d.matched + Shift <= q.fill /\ q.fill < d.matched + PageSize + Shift
  /\ d.node = KeyOf(d, d.matched + Shift)
  /\ Len(d.prefix) = q.fill /\ Len(d.row) = Len(q.row)
  /\ \A i \in (d.matched + 1)..Len(q.row) : d.row[i] = q.row[i]
  /\ \A i \in (d.matched + 1)..q.fill : d.prefix[i] = q.row[i]

\* cache_unfinished_req makes a Recut request.
LEMMA UnfinishedRecut ==
  ASSUME NEW T, TreeOK(PageKey, Pages, T), NEW f, NEW q \in Request, Cuttable(q),
         q.node \in Nodes(T), q.fill <= Len(q.ids), q.fill <= Len(q.row),
         NEW c, c = CacheUnfinished(T, f, q)
  PROVE  Recut(q, c.req)
<1> DEFINE key == KeyOf(q, q.fill)
           L == Len(key) * PageSize
           d == c.req
<1>1. Unfinished(T, f, q, c)
  BY UnfinishedIs
<1>2. d.ids = q.ids /\ d.extra_key = q.extra_key /\ d.phase = q.phase /\ d.fill = q.fill
  <2>1. PICK w, m, x, k : d = Recache(q, w, m, x, k)
    BY Zenon DEF CacheUnfinished, Recache
  <2> QED
    BY <2>1 DEF Recache, Request
<1>3. /\ d.node = key /\ d.matched = L /\ L \in Nat /\ q.matched <= L
      /\ L + Shift <= q.fill /\ q.fill < L + PageSize + Shift
      /\ Len(d.prefix) = q.fill /\ Len(d.row) = Len(q.row)
  BY <1>1, Zenon DEF Unfinished
<1>4. Len(key) \in Nat /\ q.fill \in 0..Len(q.ids)
  <2>1. q.fill \in Nat /\ q.ids \in Seq(Nat) /\ q.extra_key \in ExtraKeys
    BY DEF Cuttable
  <2>2. key \in Seq(PageKey)
    BY <2>1, KeyOfType
  <2> QED
    BY <2>1, <2>2
<1>5. KeyOf(q, L + Shift) = key
  <2>1. KeyOf(q, L + Shift) = SubSeq(key, 1, Len(key))
    BY <1>3, <1>4, KeyCut, Zenon DEF Cuttable
  <2>2. key \in Seq(PageKey)
    BY <1>4, KeyOfType DEF Cuttable
  <2> QED
    BY <2>1, <2>2
<1>6. KeyOf(d, L + Shift) = key
  BY <1>2, <1>5, Zenon DEF KeyOf
<1>7. \A i \in (L + 1)..Len(q.row) : d.row[i] = q.row[i]
  <2>1. \A i \in 1..Len(q.row) : d.row[i] =
          IF i > OldPrefixLen(q) /\ i <= L
          THEN Insert(T, key, RowPages(q, key)).val[SubSeq(key, 1, Block(i) + 1)]
          ELSE q.row[i]
    BY <1>1, Zenon DEF Unfinished
  <2> HIDE DEF L
  <2> QED
    BY <1>3, <2>1
<1>8. \A i \in (L + 1)..q.fill : d.prefix[i] = q.row[i]
  <2>1. \A i \in 1..q.fill : d.prefix[i] =
          IF i <= L THEN Insert(T, key, RowPages(q, key)).val[SubSeq(key, 1, Block(i) + 1)]
          ELSE q.row[i]
    BY <1>1, Zenon DEF Unfinished
  <2> HIDE DEF L
  <2> QED
    BY <1>3, <2>1
<1> HIDE DEF key, d
<1>9. d.matched = Len(d.node) * PageSize /\ d.node = KeyOf(d, d.matched + Shift)
  BY <1>3, <1>6, Zenon
<1> HIDE DEF L
<1> QED
  BY <1>2, <1>3, <1>7, <1>8, <1>9, Zenon DEF Recut, d

\* The request after cache_unfinished_req, while its row stays.
LEMMA RecutGood ==
  ASSUME NEW q \in Request, Good(q), NEW d, Recut(q, d), q.phase = "run"
  PROVE  /\ Holding(d) /\ Good(d)
         /\ Owned(d) = Slice(q.row, d.matched, Len(q.row))
<1>1. Blocks(q.row, q.matched) /\ q.matched \in Nat /\ Len(q.row) \in Nat
  BY DEF Good, Held, Request
<1>2. /\ d.matched \in Nat /\ q.matched <= d.matched /\ Len(d.row) = Len(q.row)
      /\ \A i \in (d.matched + 1)..Len(q.row) : d.row[i] = q.row[i]
  BY DEF Recut
<1>3. Blocks(d.row, d.matched) /\ Slice(d.row, d.matched, Len(d.row)) = Slice(q.row, d.matched, Len(q.row))
  BY <1>1, <1>2, SMTT(30) DEF Blocks, Slice
<1>4. d.phase = "run" /\ Holding(d) /\ Held(d) = d.row
  BY DEF Recut, Holding, Held
<1>5. d.matched <= Len(d.prefix)
  <2>1. Shift \in 0..1 /\ q.fill \in Nat
    BY DEF Shift, Request
  <2> QED
    BY <1>2, <2>1 DEF Recut
<1> QED
  BY <1>3, <1>4, <1>5, Zenon DEF Good, Recut, Owned, Private

\* The request between two chunks: its row is given back, and prefix_indices is the row.
LEMMA RechunkedGood ==
  ASSUME NEW q \in Request, Good(q), NEW d \in Request, Recut(q, d), q.phase = "chunk",
         NEW n \in Nat, q.fill < n
  PROVE  LET e == Rechunked(d, n, <<>>)
         IN  Holding(e) /\ Good(e) /\ Owned(e) = Slice(q.row, d.matched, Len(q.row))
<1> DEFINE e == Rechunked(d, n, <<>>)
<1>1. Blocks(q.row, q.matched) /\ q.matched \in Nat /\ Len(q.row) \in Nat /\ Len(q.row) = q.fill
  BY DEF Good, Held, Request
<1>2. /\ d.matched \in Nat /\ q.matched <= d.matched /\ Len(d.prefix) = Len(q.row)
      /\ \A i \in (d.matched + 1)..Len(q.row) : d.prefix[i] = q.row[i]
  BY <1>1 DEF Recut
<1>3. /\ Blocks(d.prefix, d.matched)
      /\ Slice(d.prefix, d.matched, Len(d.prefix)) = Slice(q.row, d.matched, Len(q.row))
  BY <1>1, <1>2, SMTT(30) DEF Blocks, Slice
<1>4. /\ e.phase = "ready" /\ e.fill = n /\ e.ids = d.ids /\ e.extra_key = d.extra_key
      /\ e.prefix = d.prefix /\ e.matched = d.matched /\ e.node = d.node
  BY DEF Rechunked, Request
<1> HIDE DEF e
<1>5. Holding(e) /\ Held(e) = d.prefix
  BY <1>4 DEF Holding, Held
<1>6. KeyOf(e, e.matched + Shift) = KeyOf(d, d.matched + Shift)
  BY <1>4, Zenon DEF KeyOf
<1>7. /\ d.matched + Shift <= n /\ d.matched <= Len(d.prefix) /\ Len(d.prefix) < n
      /\ Len(d.prefix) < d.matched + PageSize + Shift
  <2>1. Shift \in 0..1 /\ q.fill \in Nat
    BY DEF Shift, Request
  <2> QED
    BY <1>1, <1>2, <2>1 DEF Recut
<1>8. d.matched = Len(d.node) * PageSize /\ d.node = KeyOf(d, d.matched + Shift)
  BY DEF Recut
<1>9. Good(e)
  BY <1>3, <1>4, <1>5, <1>6, <1>7, <1>8, Zenon DEF Good
<1>10. Owned(e) = Slice(q.row, d.matched, Len(q.row))
  BY <1>3, <1>4, <1>5, Zenon DEF Owned, Private
<1> QED
  BY <1>5, <1>9, <1>10, Zenon DEF e


\* The node of a lock holder is in the tree.
LEMMA HolderNode ==
  ASSUME IInv, NEW r \in Reqs, Holding(req[r])
  PROVE  TreeOK(PageKey, Pages, tree) /\ req[r].node \in Nodes(tree)
<1>1. r \in DOMAIN At(req) /\ At(req)[r] = req[r].node
  BY DEF At
<1> QED
  BY <1>1 DEF IInv, LockedTree, LocksCount

\* The owned slots of a request with a row.
LEMMA RowOwned ==
  ASSUME NEW r \in Reqs, Holding(req[r]), req[r].phase # "ready"
  PROVE  Own(req)[r] = Slice(req[r].row, req[r].matched, Len(req[r].row))
BY DEF Own, Owned, Private

\* cache_unfinished_req of a chunk, and add_chunked_req.
LEMMA CacheChunkOwned ==
  ASSUME PInv, IInv', NEW r \in Reqs, CacheChunk(r)
  PROVE  PInv'
<1> DEFINE q == req[r]
           c == CacheUnfinished(tree, free, q)
<1>1. /\ q \in Request /\ q.fill <= Len(q.ids) /\ q.fill <= Len(q.row) /\ Holding(q)
      /\ q.phase = "chunk" /\ IInv
  BY Zenon DEF CacheChunk, PInv, IInv, FillLaw, Holding
<1>2. Good(q) /\ Cuttable(q) /\ Parted(tree, free, Own(req))
  BY <1>1, GoodCuttable, Zenon DEF PInv
<1>3. TreeOK(PageKey, Pages, tree) /\ q.node \in Nodes(tree)
  BY <1>1, HolderNode
<1>4. PICK n \in Fills(q, Len(c.req.prefix), Aligned) :
        req' = [req EXCEPT ![r] = Rechunked(c.req, n, <<>>)]
  BY Zenon DEF CacheChunk, Rechunked
<1>5. tree' = c.tree /\ free' = c.free
  BY DEF CacheChunk
<1>6. Own(req)[r] = Slice(q.row, q.matched, Len(q.row))
  BY <1>1, RowOwned, Zenon
<1>7. Holding(req[r]) /\ q.node = req[r].node /\ c = CacheUnfinished(tree, free, q)
  BY <1>1
<1> HIDE DEF q, c
<1>8. c.req \in Request
  BY <1>1, <1>7, CachedReq, Zenon
<1>9. Recut(q, c.req)
  BY <1>1, <1>2, <1>3, <1>7, UnfinishedRecut, Zenon
<1>10. Parted(c.tree, c.free, [Own(req) EXCEPT ![r] = Slice(q.row, c.req.matched, Len(q.row))])
  BY <1>1, <1>2, <1>3, <1>6, <1>7, UnfinishedParted, Zenon
<1>11. n \in Nat /\ q.fill < n
  <2>1. Len(c.req.prefix) = q.fill /\ q.fill \in Nat /\ q.ids \in Seq(Nat) /\ q.fill < Len(q.ids)
    BY <1>1, <1>2, <1>9, Zenon DEF Recut, Request, Good
  <2>2. n \in Nat
    BY <2>1, <1>4, FillsType, Zenon
  <2>3. n = Len(q.ids) \/ Len(c.req.prefix) < n
    BY <1>4 DEF Fills
  <2> QED
    BY <2>1, <2>2, <2>3, Zenon
<1> DEFINE d == c.req
           e == Rechunked(d, n, <<>>)
<1>12. Holding(e) /\ Good(e) /\ Owned(e) = Slice(q.row, d.matched, Len(q.row))
  <2> HIDE DEF d
  <2>1. d \in Request /\ Recut(q, d)
    BY <1>8, <1>9 DEF d
  <2> QED
    BY <1>1, <1>2, <1>11, <2>1, RechunkedGood, Zenon
<1>13. req' = [req EXCEPT ![r] = e]
  BY <1>4
<1>14. Parted(tree', free', [Own(req) EXCEPT ![r] = Owned(e)])
  BY <1>5, <1>10, <1>12, Zenon
<1> HIDE DEF e
<1> QED
  BY <1>12, <1>13, <1>14, OneOwns, Zenon

\* A sampled token: the request's pages and keys are what they were.
LEMMA SampledGood ==
  ASSUME NEW q \in Request, NEW t \in Tok, Good(q), FillLaw(q), q.phase = "run", q.pend # <<>>
  PROVE  LET s == Sampled(q, t)
         IN  /\ Good(s) /\ Cuttable(s) /\ Holding(s) /\ s.phase = "run"
             /\ s.row = q.row /\ s.matched = q.matched /\ s.node = q.node
             /\ s.fill <= Len(s.row) /\ s.fill <= Len(s.ids) /\ Len(s.row) <= Len(s.ids)
             /\ s.out < MaxNew => s \in Request
<1> DEFINE s == Sampled(q, t)
           ids == Append(q.ids, t)
           n == q.matched + Shift
<1>1. /\ s.ids \in Seq(Nat) /\ s.extra_key \in ExtraKeys /\ s.row \in Seq(Pages)
      /\ s.fill <= Len(s.ids) /\ s.fill <= Len(s.row) /\ Len(s.row) <= Len(s.ids)
      /\ s.out < MaxNew => s \in Request
  BY SampledType
<1>2. /\ s.ids = ids /\ s.extra_key = q.extra_key /\ s.row = q.row /\ s.node = q.node
      /\ s.phase = "run" /\ s.fill = q.fill /\ s.prefix = q.prefix /\ s.matched = q.matched
  BY DEF Sampled, Request
<1>3. /\ q.ids \in Seq(Nat) /\ t \in Nat /\ q.prefix \in Seq(Pages) /\ q.node \in Seq(PageKey)
      /\ q.fill \in Nat /\ q.matched \in Nat /\ q.fill <= Len(q.ids) /\ n <= q.fill
      /\ q.row \in Seq(Pages)
  BY ClientConstants, Zenon DEF Request, FillLaw, Good
<1>4. n \in 0..Len(q.ids)
  <2>1. Shift \in 0..1
    BY DEF Shift
  <2> QED
    BY <1>3, <2>1
<1> HIDE DEF s, n
<1>5. SubSeq(ids, 1, n) = SubSeq(q.ids, 1, n)
  <2>1. /\ ids \in Seq(Nat) /\ Len(ids) = Len(q.ids) + 1 /\ n \in 0..Len(ids)
        /\ \A i \in 1..Len(q.ids) : ids[i] = q.ids[i]
    BY <1>3, <1>4
  <2> HIDE DEF ids
  <2> QED
    BY <1>3, <1>4, <2>1
<1>6. KeyOf(s, n) = KeyOf(q, n)
  BY <1>2, <1>5, Zenon DEF KeyOf
<1>7. q.node = KeyOf(q, n)
  BY DEF Good, n
<1>8. s.node = KeyOf(s, s.matched + Shift)
  BY <1>2, <1>6, <1>7, Zenon DEF n
<1>9. Held(s) = q.row /\ Held(q) = q.row /\ Holding(s)
  BY <1>2 DEF Held, Holding
<1>10. Blocks(q.row, q.matched)
  BY <1>9 DEF Good
<1>11. Good(s)
  BY <1>2, <1>8, <1>9, <1>10, Zenon DEF Good
<1>12. Cuttable(s)
  BY <1>1, <1>2, <1>3, <1>8, <1>10, <1>11, Zenon DEF Good, Cuttable
<1> QED
  BY <1>1, <1>2, <1>9, <1>11, <1>12, Zenon DEF s

\* A request leaves: its row is cached or freed.
LEMMA LeavingOwned ==
  ASSUME PInv, NEW r \in Reqs, Holding(req[r]), req[r].phase = "run",
         NEW q, Cuttable(q), q.row = req[r].row, q.matched = req[r].matched,
         q.node = req[r].node, q.fill <= Len(q.row),
         NEW ins \in BOOLEAN, ins => Len(q.row) <= Len(q.ids),
         NEW c, c = CacheFinished(tree, free, q, ins)
  PROVE  Parted(c.tree, c.free, [Own(req) EXCEPT ![r] = {}])
<1>1. TreeOK(PageKey, Pages, tree) /\ q.node \in Nodes(tree)
  BY HolderNode DEF PInv
<1>2. Own(req)[r] = Slice(q.row, q.matched, Len(q.row))
  BY RowOwned
<1>3. Parted(tree, free, Own(req))
  BY DEF PInv
<1> QED
  BY <1>1, <1>2, <1>3, FinishedParted, Zenon


\* A request that owns nothing any more.
LEMMA LeftOwns ==
  ASSUME PInv, IInv', NEW r \in Reqs, NEW q, req' = [req EXCEPT ![r] = q], ~Holding(q),
         Parted(tree', free', [Own(req) EXCEPT ![r] = {}])
  PROVE  PInv'
<1>1. Owned(q) = {}
  BY DEF Owned
<1> QED
  BY <1>1, OneOwns, Zenon

\* process_batch_result: the request finishes, is cached, or goes on.
LEMMA ResultOwned ==
  ASSUME PInv, IInv', NEW r \in Reqs, PrefillResult(r) \/ DecodeResult(r)
  PROVE  PInv'
<1>1. req[r] \in Request /\ FillLaw(req[r]) /\ req[r].phase = "run" /\ req[r].pend # <<>>
  BY Zenon DEF PrefillResult, DecodeResult, PInv, IInv
<1>2. PICK t \in Tok :
        \/ Finish(r, Sampled(req[r], t))
        \/ /\ Sampled(req[r], t).out < MaxNew
           /\ tree' = CacheUnfinished(tree, free, Sampled(req[r], t)).tree
           /\ free' = CacheUnfinished(tree, free, Sampled(req[r], t)).free
           /\ req' = [req EXCEPT ![r] = CacheUnfinished(tree, free, Sampled(req[r], t)).req]
        \/ /\ Sampled(req[r], t).out < MaxNew
           /\ tree' = tree /\ free' = free
           /\ req' = [req EXCEPT ![r] = Sampled(req[r], t)]
  <2>1. CASE PrefillResult(r)
    BY <2>1, Zenon DEF PrefillResult
  <2>2. CASE DecodeResult(r)
    BY <2>2 DEF DecodeResult
  <2> QED
    BY <2>1, <2>2, Zenon
<1>3. Holding(req[r]) /\ Good(req[r]) /\ Parted(tree, free, Own(req)) /\ IInv
  BY <1>1, Zenon DEF Holding, PInv
<1> DEFINE s == Sampled(req[r], t)
<1>4. /\ Good(s) /\ Cuttable(s) /\ Holding(s) /\ s.phase = "run"
      /\ s.row = req[r].row /\ s.matched = req[r].matched /\ s.node = req[r].node
      /\ s.fill <= Len(s.row) /\ s.fill <= Len(s.ids) /\ Len(s.row) <= Len(s.ids)
      /\ s.out < MaxNew => s \in Request
  BY <1>1, <1>3, SampledGood, Zenon
<1> HIDE DEF s
<1>5. TreeOK(PageKey, Pages, tree) /\ s.node \in Nodes(tree)
  BY <1>3, <1>4, HolderNode, Zenon
<1>6. Own(req)[r] = Slice(s.row, s.matched, Len(s.row))
  BY <1>1, <1>3, <1>4, RowOwned, Zenon
<1>7. CASE Finish(r, s)
  <2> DEFINE c == CacheFinished(tree, free, s, TRUE)
  <2>1. /\ tree' = c.tree /\ free' = c.free /\ req' = [req EXCEPT ![r] = NoReq]
        /\ c = CacheFinished(tree, free, s, TRUE) /\ TRUE \in BOOLEAN
    BY <1>7 DEF Finish
  <2> HIDE DEF c
  <2>2. Parted(c.tree, c.free, [Own(req) EXCEPT ![r] = {}])
    BY <1>1, <1>3, <1>4, <2>1, LeavingOwned, Zenon
  <2>3. ~Holding(NoReq)
    BY NoReqType
  <2> QED
    BY <2>1, <2>2, <2>3, LeftOwns, Zenon
<1>8. CASE /\ s.out < MaxNew /\ tree' = CacheUnfinished(tree, free, s).tree
           /\ free' = CacheUnfinished(tree, free, s).free
           /\ req' = [req EXCEPT ![r] = CacheUnfinished(tree, free, s).req]
  <2> DEFINE c == CacheUnfinished(tree, free, s)
             d == c.req
  <2>1. /\ tree' = c.tree /\ free' = c.free /\ req' = [req EXCEPT ![r] = d] /\ s \in Request
        /\ c = CacheUnfinished(tree, free, s)
    BY <1>4, <1>8, Zenon
  <2> HIDE DEF c
  <2>2. Recut(s, d)
    BY <1>4, <1>5, <2>1, UnfinishedRecut, Zenon
  <2>3. Parted(c.tree, c.free, [Own(req) EXCEPT ![r] = Slice(s.row, c.req.matched, Len(s.row))])
    BY <1>3, <1>4, <1>5, <1>6, <2>1, UnfinishedParted, Zenon
  <2>4. Holding(d) /\ Good(d) /\ Owned(d) = Slice(s.row, d.matched, Len(s.row))
    <3> HIDE DEF d
    <3> QED
      BY <1>4, <2>1, <2>2, RecutGood, Zenon
  <2>5. Parted(tree', free', [Own(req) EXCEPT ![r] = Owned(d)])
    BY <2>1, <2>3, <2>4, Zenon
  <2> HIDE DEF d
  <2> QED
    BY <2>1, <2>4, <2>5, OneOwns, Zenon
<1>9. CASE tree' = tree /\ free' = free /\ req' = [req EXCEPT ![r] = s]
  <2>1. Owned(s) = Owned(req[r])
    BY <1>1, <1>3, <1>4, Zenon DEF Owned, Private
  <2>2. tree'.val = tree.val
    BY <1>9
  <2> QED
    BY <1>4, <1>9, <2>1, <2>2, SameOwns, Zenon
<1> QED
  BY <1>2, <1>7, <1>8, <1>9, Zenon DEF s

\* release_req, and the evict that follows it.
LEMMA RetractOwned ==
  ASSUME PInv, IInv', NEW r \in Reqs, Retract(r)
  PROVE  PInv'
<1> DEFINE q == req[r]
           c == CacheFinished(tree, free, q, FALSE)
           q2 == Queued(q.ids, q.out, q.extra_key)
<1>1. q \in Request /\ Holding(q) /\ q.phase = "run" /\ Good(q) /\ q.fill <= Len(q.row)
  BY Zenon DEF Retract, Launchable, PInv, IInv, Holding, FillLaw
<1>2. Cuttable(q)
  BY <1>1, GoodCuttable, Zenon
<1>3. ~Holding(q2)
  BY DEF Queued, NoReq, Holding
<1>4. /\ req' = [req EXCEPT ![r] = q2] /\ c = CacheFinished(tree, free, q, FALSE)
      /\ FALSE \in BOOLEAN
  BY DEF Retract
<1>5. PICK E : tree' = Delete(c.tree, E) /\ free' = AfterEvict(c.tree, c.free, E)
  BY Zenon DEF Retract
<1>6. q.row = req[r].row /\ q.matched = req[r].matched /\ q.node = req[r].node
      /\ Holding(req[r]) /\ req[r].phase = "run"
  BY <1>1
<1> HIDE DEF c, q, q2
<1>7. Parted(c.tree, c.free, [Own(req) EXCEPT ![r] = {}])
  BY <1>1, <1>2, <1>4, <1>6, LeavingOwned, Zenon
<1>8. Parted(tree', free', [Own(req) EXCEPT ![r] = {}])
  BY <1>5, <1>7, PartedEvict, Zenon
<1> QED
  BY <1>3, <1>4, <1>8, LeftOwns, Zenon

\* An empty tree, every page free, and no request: Init and flush_cache.
LEMMA EmptyParted == Parted(EmptyTree, [p \in Pages |-> 1], [r \in Reqs |-> {}])
<1>1. Paths(EmptyTree) = {}
  BY DEF EmptyTree, Paths
<1> QED
  BY <1>1 DEF Parted

\* The invariant of the pages holds at the start.
LEMMA InitPInv == Init => PInv
<1> SUFFICES ASSUME Init PROVE PInv
  OBVIOUS
<1>1. IInv
  BY InitIInv
<1>2. \A r \in Reqs : ~Holding(req[r])
  BY NoReqType DEF Init
<1>3. Own(req) = [r \in Reqs |-> {}]
  BY <1>2 DEF Own, Owned
<1> QED
  BY <1>1, <1>2, <1>3, EmptyParted, Zenon DEF PInv, Init

\* Every step keeps the invariant of the pages.
LEMMA NextPInv ==
  ASSUME PInv, [Next]_vars
  PROVE  PInv'
<1>0. IInv /\ IInv' /\ Parted(tree, free, Own(req))
  BY NextIInv DEF PInv
<1>1. CASE FlushCache
  <2>1. \A r \in Reqs : ~Holding(req[r])
    BY <1>1 DEF FlushCache, Holding
  <2>2. Own(req) = [r \in Reqs |-> {}]
    BY <2>1 DEF Own, Owned
  <2>3. Parted(tree', free', Own(req)) /\ req' = req
    BY <1>1, <2>2, EmptyParted, Zenon DEF FlushCache
  <2> QED
    BY <1>0, <2>3, NoneOwns, Zenon
<1>2. ASSUME NEW r \in Reqs, Reject(r)
      PROVE  PInv'
  <2>1. TreeOK(PageKey, Pages, tree)
    BY <1>0 DEF IInv, LockedTree
  <2>2. tree'.val = tree.val /\ free' = free /\ req' = req
    BY <1>2, <2>1, MatchVal, Zenon DEF Reject
  <2>3. Parted(tree', free', Own(req))
    BY <1>0, <2>2, PartedSame, Zenon
  <2> QED
    BY <1>0, <2>2, <2>3, NoneOwns, Zenon
<1>3. ASSUME NEW r \in Reqs, CheckDecodeMem(r)
      PROVE  PInv'
  <2>1. PICK E : tree' = Delete(tree, E) /\ free' = AfterEvict(tree, free, E) /\ req' = req
    BY <1>3 DEF CheckDecodeMem
  <2>2. Parted(tree', free', Own(req))
    BY <1>0, <2>1, PartedEvict, Zenon
  <2> QED
    BY <1>0, <2>1, <2>2, NoneOwns, Zenon
<1>4. CASE UNCHANGED vars
  BY <1>0, <1>4, NoneOwns, Zenon DEF vars
<1>5. CASE \E r \in Reqs :
       \/ Arrive(r) \/ Abort(r) \/ Reject(r) \/ Admit(r) \/ Extend(r) \/ CacheChunk(r)
       \/ Decode(r) \/ PrefillResult(r) \/ DecodeResult(r) \/ Retract(r)
       \/ CheckDecodeMem(r)
  BY <1>0, <1>2, <1>3, <1>5, QueueOwned, AdmitOwned, AllocOwned, CacheChunkOwned,
     ResultOwned, RetractOwned
<1> QED
  BY <1>1, <1>4, <1>5, Zenon DEF Next

\* One way to own a page: a singleton, and nothing else.
LEMMA OnceOwned == PInv => PageOwnedOnce
<1> SUFFICES ASSUME PInv, NEW p \in Pages
             PROVE  free[p] + Cardinality({q \in Paths(tree) : tree.val[q] = p})
                            + Cardinality({r \in Holders : p \in Private(req[r])}) = 1
  BY DEF PageOwnedOnce
<1> DEFINE A == {q \in Paths(tree) : tree.val[q] = p}
           B == {r \in Holders : p \in Private(req[r])}
           P == Own(req)
<1>1. B = {r \in Reqs : p \in P[r]}
  BY DEF Own, Owned, Holders, Holding
<1>2. Parted(tree, free, P)
  BY DEF PInv
<1> HIDE DEF P
<1>3. free[p] \in {0, 1}
  BY <1>2 DEF Parted
<1>4. A = {} \/ \E q : A = {q}
  <2>1. \A q, s \in A : q = s
    BY <1>2, Zenon DEF Parted
  <2> HIDE DEF A
  <2> QED
    BY <2>1
<1>5. B = {} \/ \E r : B = {r}
  <2>1. \A r, s \in B : r = s
    BY <1>1, <1>2, Zenon DEF Parted
  <2> HIDE DEF B
  <2> QED
    BY <2>1
<1>6. A # {} => free[p] = 0 /\ B = {}
  BY <1>1, <1>2 DEF Parted
<1>7. B # {} => free[p] = 0
  <2>1. \A r \in Reqs : p \in P[r] => free[p] = 0
    BY <1>2 DEF Parted
  <2> HIDE DEF B
  <2> QED
    BY <1>1, <2>1, Zenon
<1>8. free[p] = 1 \/ A # {} \/ B # {}
  BY <1>1, <1>2 DEF Parted
<1> HIDE DEF A, B
<1>9. /\ A = {} => Cardinality(A) = 0
      /\ A # {} => Cardinality(A) = 1
      /\ B = {} => Cardinality(B) = 0
      /\ B # {} => Cardinality(B) = 1
  <2>1. Cardinality({}) = 0 /\ \A x : Cardinality({x}) = 1
    BY FS_EmptySet, FS_Singleton, Zenon
  <2> QED
    BY <1>4, <1>5, <2>1, Zenon
<1>10. (free[p] + Cardinality(A)) + Cardinality(B) = 1
  BY <1>3, <1>6, <1>7, <1>8, <1>9
<1> QED
  BY <1>10 DEF A, B

\* Every page of the pool is free once, or caches one path of the tree, or is private to
\* one request, whatever the interleaving of admissions, chunks, decodes, results,
\* retractions and evictions: the duplicates that cache_unfinished_req and
\* cache_finished_req free, their unaligned tails, the slots of an overlapped forward pass
\* and the pages evict takes are freed once and only when nobody else reads them.
THEOREM PagesOwnedCorrect == Spec => []PageOwnedOnce
<1>1. PInv /\ [Next]_vars => PInv'
  BY NextPInv
<1> QED
  BY <1>1, InitPInv, OnceOwned, PTL DEF Spec
-----------------------------------------------------------------------------
(* The rows: a request reads the slots of the tree.                       *)

\* Chunks end on pages, or every slot is a page: a request is never cached with a part of
\* a page past the match.
WholePages == PageSize = 1 \/ (~IsEagle /\ Aligned)

\* Its prefill is not processed yet, so cache_unfinished_req will be called for it.
Unread(q) == q.phase \in {"ready", "chunk"} \/ (q.pend # <<>> /\ Head(q.pend) = "prefill")

\* A length that is whole pages.
Paged(n) == \E j \in Nat : n = j * PageSize

\* Only the first pass in flight can be the prefill; until its result prefix_indices is
\* the match, and a chunk is whole pages.
Whole(q) ==
  /\ q.phase = "run" => \A i \in 2..Len(q.pend) : q.pend[i] = "decode"
  /\ Unread(q) => \/ PageSize = 1
                  \/ /\ Len(q.prefix) = q.matched
                     /\ q.fill < Len(q.ids) => Paged(q.fill)

\* The slots of the matched prefix are those of the tree.
Reads(T, q) == \A i \in 1..q.matched : Held(q)[i] = T.val[SubSeq(q.node, 1, Block(i) + 1)]

RInv ==
  /\ PInv
  /\ \A r \in Reqs : Holding(req[r]) => Whole(req[r]) /\ Reads(tree, req[r])

\* A position of the match lies on a path of the node.
LEMMA NodePath ==
  ASSUME NEW T, TreeOK(PageKey, Pages, T), NEW node \in Nodes(T),
         NEW i \in 1..(Len(node) * PageSize)
  PROVE  /\ SubSeq(node, 1, Block(i) + 1) \in Paths(T)
         /\ IsPrefix(SubSeq(node, 1, Block(i) + 1), node)
         /\ Block(i) + 1 \in 1..Len(node)
<1> DEFINE j == Block(i) + 1
           x == SubSeq(node, 1, j)
<1>1. node \in Seq(PageKey)
  BY DEF TreeOK
<1>2. j \in 1..Len(node)
  BY <1>1, PageOfPosition DEF Block
<1> HIDE DEF j
<1>3. x \in Seq(PageKey) /\ IsPrefix(x, node) /\ Len(x) = j
  BY <1>1, <1>2, SubIsPrefix
<1> HIDE DEF x
<1>4. x # Root
  BY <1>2, <1>3 DEF Root
<1>5. x \in Paths(T)
  BY <1>3, <1>4, NodePrefixStored, Zenon
<1> QED
  BY <1>2, <1>3, <1>5, Zenon DEF x, j

\* A step keeps what the tree caches under a node that is held before and after it.
LEMMA StillReads ==
  ASSUME RInv, HeldStep, NEW r \in Reqs, Holding(req[r]), Holding(req'[r])
  PROVE  Reads(tree', req[r])
<1> DEFINE q == req[r]
<1>1. TreeOK(PageKey, Pages, tree) /\ q.node \in Nodes(tree)
  BY HolderNode, Zenon DEF RInv, PInv
<1>2. q.matched = Len(q.node) * PageSize /\ Reads(tree, q)
  BY DEF RInv, PInv, Good
<1>3. r \in Holders /\ req'[r].phase # "none" /\ req'[r].phase # "waiting"
  BY DEF Holders, Holding
<1>4. \A p \in Paths(tree) : IsPrefix(p, q.node) => tree'.val[p] = tree.val[p]
  BY <1>3 DEF HeldStep
<1> HIDE DEF q
<1>5. ASSUME NEW i \in 1..q.matched
      PROVE  Held(q)[i] = tree'.val[SubSeq(q.node, 1, Block(i) + 1)]
  <2>1. i \in 1..(Len(q.node) * PageSize)
    BY <1>2
  <2>2. /\ SubSeq(q.node, 1, Block(i) + 1) \in Paths(tree)
        /\ IsPrefix(SubSeq(q.node, 1, Block(i) + 1), q.node)
    BY <1>1, <2>1, NodePath, Zenon
  <2>3. Held(q)[i] = tree.val[SubSeq(q.node, 1, Block(i) + 1)]
    BY <1>2 DEF Reads
  <2> QED
    BY <1>4, <2>2, <2>3, Zenon
<1> QED
  BY <1>5, Zenon DEF Reads, q

\* One request changes.
LEMMA OneReads ==
  ASSUME RInv, PInv', HeldStep, NEW r \in Reqs, NEW q, req' = [req EXCEPT ![r] = q],
         Holding(q) => Whole(q) /\ Reads(tree', q)
  PROVE  RInv'
<1>1. req \in [Reqs -> Request]
  BY DEF RInv, PInv, IInv
<1>2. req'[r] = q /\ \A s \in Reqs : s # r => req'[s] = req[s]
  BY <1>1
<1>3. ASSUME NEW s \in Reqs, Holding(req'[s]) PROVE Whole(req'[s]) /\ Reads(tree', req'[s])
  <2>1. CASE s = r
    BY <1>2, <1>3, <2>1, Zenon
  <2>2. CASE s # r
    <3>1. req'[s] = req[s] /\ Holding(req[s])
      BY <1>2, <1>3, <2>2, Zenon
    <3>2. Whole(req[s]) /\ Reads(tree', req[s])
      BY <1>3, <3>1, StillReads, Zenon DEF RInv
    <3> QED
      BY <3>1, <3>2, Zenon
  <2> QED
    BY <2>1, <2>2, Zenon
<1> QED
  BY <1>3 DEF RInv

\* No request changes.
LEMMA NoneReads ==
  ASSUME RInv, PInv', HeldStep, req' = req
  PROVE  RInv'
<1>1. ASSUME NEW s \in Reqs, Holding(req'[s]) PROVE Whole(req'[s]) /\ Reads(tree', req'[s])
  BY <1>1, StillReads DEF RInv
<1> QED
  BY <1>1 DEF RInv

\* A request that is not a holder any more, or not yet.
LEMMA LeftReads ==
  ASSUME RInv, PInv', HeldStep, NEW r \in Reqs,
         Arrive(r) \/ Abort(r) \/ Retract(r) \/ \E q : Finish(r, q)
  PROVE  RInv'
<1>1. \A i, o, k : ~Holding(Queued(i, o, k))
  BY DEF Queued, NoReq, Holding
<1>2. ~Holding(NoReq)
  BY NoReqType
<1>3. PICK q : req' = [req EXCEPT ![r] = q] /\ ~Holding(q)
  BY <1>1, <1>2, Zenon DEF Arrive, Abort, Retract, Finish
<1> QED
  BY <1>3, OneReads, Zenon

\* Chunks of whole pages after whole pages end on a page.
LEMMA PagedFill ==
  ASSUME NEW q, NEW k \in Nat, NEW n \in Fills(q, k * PageSize, TRUE), n < Len(q.ids),
         q.ids \in Seq(Nat)
  PROVE  Paged(n)
<1>1. PICK c \in ChunkSizes : n = k * PageSize + c /\ c % PageSize = 0
  BY DEF Fills
<1>2. c \in Nat /\ PageSize \in Nat \ {0}
  BY ClientConstants, PageSizeAssumption, Zenon
<1> DEFINE j == c \div PageSize
<1>3. j \in Nat /\ c = j * PageSize
  BY <1>1, <1>2
<1> HIDE DEF j
<1>4. k + j \in Nat /\ k * PageSize + j * PageSize = (k + j) * PageSize
  BY <1>2, <1>3
<1> QED
  BY <1>1, <1>3, <1>4, Zenon DEF Paged

\* Admission: prefix_indices is what the match found.
LEMMA AdmitReads ==
  ASSUME RInv, PInv', HeldStep, NEW r \in Reqs, Admit(r)
  PROVE  RInv'
<1> DEFINE q == req[r]
           node == MatchNode(tree, AdmitKey(q))
           S == Match(tree, AdmitKey(q))
           m == Len(node) * PageSize
           pre == Indices(S, node)
<1>1. /\ q \in Request /\ Len(q.ids) > 0 /\ ~Holding(q) /\ q.ids \in Seq(Nat)
      /\ LockedTree(tree, At(req))
  BY Zenon DEF Admit, RInv, PInv, IInv, FillLaw, Holding, Request
<1>2. LockedTree(S, At(req)) /\ node \in Nodes(S)
  BY <1>1, MatchStep, Zenon
<1>3. PICK n \in Fills(q, m, TRUE) : req' = [req EXCEPT ![r] = Admitted(q, n, node, pre, m)]
  BY Zenon DEF Admit, Admitted
<1>4. tree'.val = S.val
  <2>1. tree' = IncLockRef(S, node)
    BY DEF Admit
  <2> QED
    BY <2>1 DEF IncLockRef
<1>5. pre \in Seq(Pages) /\ Len(pre) = m
  BY <1>2, IndicesType, Zenon DEF LockedTree
<1>6. Len(node) \in Nat
  BY <1>2 DEF LockedTree, TreeOK
<1>7. \A i \in 1..m : pre[i] = S.val[SubSeq(node, 1, Block(i) + 1)]
  BY DEF Indices, Block
<1> HIDE DEF q, node, S, pre
<1>8. ASSUME n < Len(q.ids) PROVE Paged(n)
  <2>1. n \in Fills(q, Len(node) * PageSize, TRUE)
    BY <1>3, Zenon
  <2> QED
    BY <1>1, <1>6, <1>8, <2>1, PagedFill, Zenon
<1> HIDE DEF m
<1> DEFINE c == Admitted(q, n, node, pre, m)
<1>9. /\ c.phase = "ready" /\ c.ids = q.ids /\ c.fill = n
      /\ c.node = node /\ c.prefix = pre /\ c.matched = m
  BY <1>1 DEF Admitted, Request
<1>10. req' = [req EXCEPT ![r] = c]
  BY <1>3
<1> HIDE DEF c
<1>11. Whole(c)
  BY <1>5, <1>8, <1>9, Zenon DEF Whole
<1>12. Reads(tree', c)
  BY <1>4, <1>7, <1>9, Zenon DEF Reads, Held
<1> QED
  BY <1>10, <1>11, <1>12, OneReads, Zenon

\* The slots before the end of a row stay when it grows.
LEMMA GrownKeeps ==
  ASSUME NEW w, NEW b \in Nat, Len(w) \in Nat, Len(w) <= b, NEW new
  PROVE  \A i \in 1..Len(w) : Grown(w, b, new)[i] = w[i]
BY DEF Grown

\* A request whose slots only grow, and which is no more unread than it was.
LEMMA GrewReads ==
  ASSUME RInv, PInv', HeldStep, NEW r \in Reqs, Holding(req[r]), NEW b, NEW new, NEW c,
         b \in Nat, Len(Held(req[r])) <= b, c.row = Grown(Held(req[r]), b, new),
         c.node = req[r].node, c.matched = req[r].matched, c.phase \in {"chunk", "run"},
         Whole(c), req' = [req EXCEPT ![r] = c]
  PROVE  RInv'
<1> DEFINE q == req[r]
           w == Held(q)
<1>1. q \in Request /\ Good(q) /\ req \in [Reqs -> Request]
  BY DEF RInv, PInv, IInv
<1>2. w \in Seq(Pages) /\ q.matched \in Nat /\ q.matched <= Len(w)
  <2>1. CASE q.phase = "ready"
    BY <1>1, <2>1, Zenon DEF Good, Held, Request
  <2>2. CASE q.phase # "ready"
    <3>1. FillLaw(q) /\ q.phase \in {"chunk", "run"}
      BY <2>2, Zenon DEF RInv, PInv, IInv, Holding
    <3>2. q.matched <= q.fill /\ q.fill <= Len(q.row)
      BY <1>1, <3>1 DEF Good, FillLaw, Shift, Request
    <3> QED
      BY <1>1, <2>2, <3>2 DEF Held, Request
  <2> QED
    BY <2>1, <2>2, Zenon
<1>3. req'[r] = c /\ Holding(c) /\ Held(c) = c.row
  BY <1>1, Zenon DEF Holding, Held
<1>4. Reads(tree', q)
  BY <1>3, StillReads, Zenon
<1>5. \A i \in 1..Len(w) : c.row[i] = w[i]
  BY <1>2, GrownKeeps
<1> HIDE DEF w
<1>6. \A i \in 1..q.matched : c.row[i] = w[i]
  BY <1>2, <1>5
<1>7. Reads(tree', c)
  BY <1>3, <1>4, <1>6, Zenon DEF Reads, w
<1> QED
  BY <1>7, OneReads, Zenon

\* prepare_for_extend and prepare_for_decode.
LEMMA AllocReads ==
  ASSUME RInv, PInv', HeldStep, NEW r \in Reqs, Extend(r) \/ Decode(r)
  PROVE  RInv'
<1> DEFINE q == req[r]
<1>0. q \in Request /\ FillLaw(q) /\ (Holding(q) => Whole(q) /\ Good(q))
  BY DEF RInv, PInv, IInv
<1>1. CASE Extend(r)
  <2> DEFINE ph == IF q.fill < Len(q.ids) THEN "chunk" ELSE "run"
             pe == IF q.fill < Len(q.ids) THEN <<>> ELSE <<"prefill">>
  <2>1. q.phase = "ready" /\ Holding(q) /\ q.prefix = Held(q)
    BY <1>1, Zenon DEF Extend, Holding, Held
  <2>2. PICK new : req' = [req EXCEPT ![r] = Extended(q, Grown(q.prefix, q.fill, new), ph, pe)]
    BY <1>1, Zenon DEF Extend, Extended
  <2> DEFINE c == Extended(q, Grown(q.prefix, q.fill, new), ph, pe)
  <2>3. /\ c.row = Grown(q.prefix, q.fill, new) /\ c.node = q.node /\ c.matched = q.matched
        /\ c.ids = q.ids /\ c.fill = q.fill /\ c.prefix = q.prefix /\ c.phase = ph /\ c.pend = pe
    BY <1>0 DEF Extended, Request
  <2>4. ph \in {"chunk", "run"} /\ Len(pe) <= 1
    OBVIOUS
  <2>5. req' = [req EXCEPT ![r] = c]
    BY <2>2, Zenon
  <2> HIDE DEF c, ph, pe
  <2>6. q.fill \in Nat /\ Len(q.prefix) <= q.fill
    BY <1>0, <2>1 DEF Good, Request
  <2>7. Whole(c)
    <3>1. 2..Len(c.pend) = {}
      BY <2>3 DEF pe
    <3>2. Unread(q)
      BY <2>1, Zenon DEF Unread
    <3> QED
      BY <1>0, <2>1, <2>3, <3>1, <3>2, Zenon DEF Whole
  <2>8. /\ Len(Held(req[r])) <= q.fill /\ c.row = Grown(Held(req[r]), q.fill, new)
        /\ c.node = req[r].node /\ c.matched = req[r].matched /\ c.phase \in {"chunk", "run"}
        /\ Holding(req[r])
    BY <2>1, <2>3, <2>4, <2>6, Zenon
  <2> QED
    BY <2>5, <2>6, <2>7, <2>8, GrewReads, Zenon
<1>2. CASE Decode(r)
  <2> DEFINE pe == Append(q.pend, "decode")
             b == Len(q.row) + 1
  <2>1. q.phase = "run" /\ Holding(q) /\ q.row = Held(q)
    BY <1>2, Zenon DEF Decode, Launchable, Holding, Held
  <2>2. PICK new : req' = [req EXCEPT ![r] = Decoded(q, Grown(q.row, b, new), pe)]
    BY <1>2, Zenon DEF Decode, Decoded
  <2> DEFINE c == Decoded(q, Grown(q.row, b, new), pe)
  <2>3. b \in Nat /\ Len(q.row) <= b
    BY <1>0 DEF Request
  <2>4. q.pend \in Seq({"prefill", "decode"})
    BY <1>0 DEF Request
  <2> HIDE DEF b
  <2>5. /\ c.row = Grown(q.row, b, new) /\ c.node = q.node /\ c.matched = q.matched
        /\ c.ids = q.ids /\ c.fill = q.fill /\ c.prefix = q.prefix /\ c.phase = "run"
        /\ c.pend = pe
    BY <1>0, <2>1, Zenon DEF Decoded, Request
  <2>6. req' = [req EXCEPT ![r] = c]
    BY <2>2, Zenon
  <2> HIDE DEF c
  <2>7. Whole(c)
    <3>1. \A i \in 2..Len(pe) : pe[i] = "decode"
      BY <1>0, <2>1, <2>4 DEF Whole
    <3>2. pe # <<>> /\ (Head(pe) = "prefill" => q.pend # <<>> /\ Head(q.pend) = "prefill")
      <4>1. Len(pe) = Len(q.pend) + 1 /\ Len(q.pend) \in Nat
        BY <2>4
      <4>2. q.pend = <<>> => pe[1] = "decode"
        BY <2>4
      <4>3. q.pend # <<>> => pe[1] = q.pend[1]
        BY <2>4
      <4>4. Head(pe) = pe[1] /\ (q.pend # <<>> => Head(q.pend) = q.pend[1]) /\ pe # <<>>
        BY <2>4, <4>1
      <4> QED
        BY <4>2, <4>3, <4>4, Zenon
    <3> HIDE DEF pe
    <3>3. Unread(c) => Unread(q)
      BY <2>1, <2>5, <3>2, Zenon DEF Unread
    <3> QED
      BY <1>0, <2>1, <2>5, <3>1, <3>3, Zenon DEF Whole
  <2>8. /\ Len(Held(req[r])) <= b /\ c.row = Grown(Held(req[r]), b, new) /\ Holding(req[r])
        /\ c.node = req[r].node /\ c.matched = req[r].matched /\ c.phase \in {"chunk", "run"}
    BY <2>1, <2>3, <2>5, Zenon
  <2> QED
    BY <2>3, <2>6, <2>7, <2>8, GrewReads, Zenon
<1> QED
  BY <1>1, <1>2, Zenon

\* The chunk is cached and its slots are read from the tree.
LEMMA CacheChunkReads ==
  ASSUME WholePages, RInv, PInv', HeldStep, NEW r \in Reqs, CacheChunk(r)
  PROVE  RInv'
<1> DEFINE q == req[r]
           c == CacheUnfinished(tree, free, q)
           d == c.req
           key == KeyOf(q, q.fill)
           L == Len(key) * PageSize
<1>1. /\ q \in Request /\ q.fill <= Len(q.ids) /\ q.fill <= Len(q.row) /\ Holding(q)
      /\ q.phase = "chunk" /\ PInv /\ IInv
  BY Zenon DEF CacheChunk, RInv, PInv, IInv, FillLaw, Holding
<1>2. Good(q) /\ Cuttable(q) /\ Whole(q) /\ Unread(q)
  BY <1>1, GoodCuttable, Zenon DEF RInv, PInv, Unread
<1>3. TreeOK(PageKey, Pages, tree) /\ q.node \in Nodes(tree)
  BY <1>1, HolderNode, Zenon
<1>4. PICK n \in Fills(q, Len(d.prefix), Aligned) :
        req' = [req EXCEPT ![r] = Rechunked(d, n, <<>>)]
  BY Zenon DEF CacheChunk, Rechunked
<1>5. tree' = c.tree /\ Holding(req[r]) /\ q.node = req[r].node /\ c = CacheUnfinished(tree, free, q)
  BY <1>1, Zenon DEF CacheChunk
<1> HIDE DEF q
<1>6. Unfinished(tree, free, q, c)
  BY <1>1, <1>2, <1>3, UnfinishedIs, Zenon
<1> HIDE DEF c
<1>7. d \in Request
  BY <1>1, <1>5, CachedReq, Zenon
<1> DEFINE e == Rechunked(d, n, <<>>)
<1>8. /\ e.phase = "ready" /\ e.fill = n /\ e.ids = d.ids /\ e.prefix = d.prefix
      /\ e.matched = d.matched /\ e.node = d.node
  BY <1>7 DEF Rechunked, Request
<1>9. req' = [req EXCEPT ![r] = e]
  BY <1>4
<1> DEFINE V == Insert(tree, key, RowPages(q, key)).val
<1>10. /\ c.tree.val = V /\ d.node = key /\ d.matched = L /\ L \in Nat /\ d.ids = q.ids
       /\ L + Shift <= q.fill /\ q.fill < L + PageSize + Shift /\ Len(d.prefix) = q.fill
       /\ \A i \in 1..q.fill : d.prefix[i] =
            IF i <= L THEN V[SubSeq(key, 1, Block(i) + 1)] ELSE q.row[i]
  BY <1>6, Zenon DEF Unfinished
<1> HIDE DEF V, e, d
<1>11. key \in Seq(PageKey) /\ Len(key) \in Nat /\ q.fill \in Nat /\ Shift \in 0..1
       /\ q.ids \in Seq(Nat) /\ (IsEagle <=> Shift = 1)
  <2>1. q.fill \in Nat /\ q.ids \in Seq(Nat) /\ q.extra_key \in ExtraKeys
    BY <1>2 DEF Cuttable
  <2>2. key \in Seq(PageKey)
    BY <1>1, <2>1, KeyOfType
  <2> QED
    BY <2>1, <2>2 DEF Shift
<1>12. Reads(tree', e)
  <2> HIDE DEF key, L
  <2> QED
    BY <1>5, <1>8, <1>10, <1>11 DEF Reads, Held
<1>13. ASSUME PageSize # 1 PROVE q.fill = L
  <2>1. Shift = 0 /\ q.fill < Len(q.ids) /\ Paged(q.fill)
    BY <1>1, <1>2, <1>11, <1>13 DEF WholePages, Whole, Good
  <2>2. PICK j \in Nat : q.fill = j * PageSize
    BY <2>1 DEF Paged
  <2> DEFINE k == Len(key)
  <2>3. k \in Int /\ j \in Int
    BY <1>11
  <2> HIDE DEF k
  <2>4. /\ k * PageSize \in Int /\ j * PageSize \in Int
        /\ (j < k => j * PageSize + PageSize <= k * PageSize)
        /\ (k < j => k * PageSize + PageSize <= j * PageSize)
    BY <2>3, Apage, Zenon
  <2>5. k * PageSize <= j * PageSize /\ j * PageSize < k * PageSize + PageSize
    <3>1. L <= q.fill /\ q.fill < L + PageSize
      <4> HIDE DEF L, key
      <4> QED
        BY <1>10, <1>11, <2>1, PageSizeAssumption
    <3>2. L = k * PageSize
      BY DEF k
    <3> HIDE DEF L
    <3> QED
      BY <2>2, <3>1, <3>2, Zenon
  <2>6. k = j
    <3> DEFINE x == k * PageSize
               y == j * PageSize
    <3>1. /\ x \in Int /\ y \in Int /\ (j < k => y + PageSize <= x)
          /\ (k < j => x + PageSize <= y) /\ x <= y /\ y < x + PageSize
      BY <2>4, <2>5, Zenon
    <3> HIDE DEF x, y
    <3> QED
      BY <2>3, <3>1, PageSizeAssumption
  <2> QED
    BY <2>2, <2>6, Zenon DEF k
<1>14. Whole(e)
  <2>1. ASSUME PageSize # 1, n < Len(q.ids) PROVE Paged(n)
    <3>1. Aligned = TRUE
      BY <2>1, ConstantsOK, Zenon DEF WholePages
    <3>2. Len(d.prefix) = Len(key) * PageSize
      BY <1>10, <1>13, <2>1, Zenon
    <3>3. n \in Fills(q, Len(key) * PageSize, TRUE)
      BY <1>4, <3>1, <3>2, Zenon
    <3> QED
      BY <1>11, <2>1, <3>3, PagedFill, Zenon
  <2> HIDE DEF key, L
  <2> QED
    BY <1>8, <1>10, <1>13, <2>1, Zenon DEF Whole
<1> QED
  BY <1>9, <1>12, <1>14, OneReads, Zenon

\* The result of a pass leaves the passes after it, and they are decodes.
LEMMA SampledWhole ==
  ASSUME NEW q \in Request, NEW t, Whole(q), q.phase = "run", q.pend # <<>>
  PROVE  /\ Sampled(q, t).pend = Tail(q.pend)
         /\ \A d : d.phase = "run" /\ d.pend = Tail(q.pend) => Whole(d)
<1>1. Sampled(q, t).pend = Tail(q.pend)
  BY DEF Sampled, Request
<1> DEFINE p == q.pend
           u == Tail(p)
<1>2. p \in Seq({"prefill", "decode"}) /\ Len(p) \in Nat \ {0}
      /\ \A i \in 2..Len(p) : p[i] = "decode"
  BY DEF Request, Whole
<1> HIDE DEF p
<1>3. Len(u) = Len(p) - 1 /\ \A i \in 1..Len(u) : u[i] = p[i + 1]
  BY <1>2
<1>4. u \in Seq({"prefill", "decode"}) /\ \A i \in 1..Len(u) : u[i] = "decode"
  <2>1. \A i \in 1..Len(u) : i + 1 \in 2..Len(p)
    BY <1>2, <1>3
  <2>2. u \in Seq({"prefill", "decode"})
    BY <1>2
  <2> QED
    BY <1>2, <1>3, <2>1, <2>2, Zenon
<1> HIDE DEF u
<1>5. u # <<>> => Head(u) = "decode"
  BY <1>4
<1>6. ASSUME NEW d, d.phase = "run", d.pend = u PROVE Whole(d)
  <2>1. ~Unread(d)
    BY <1>5, <1>6, Zenon DEF Unread
  <2> QED
    BY <1>4, <1>6, <2>1 DEF Whole
<1> QED
  BY <1>1, <1>6, Zenon DEF u, p

\* cache_unfinished_req of a whole prefill: the row is rewritten from the match on, and
\* what it read before is in the tree still.
LEMMA RecachedReads ==
  ASSUME NEW q \in Request, Cuttable(q), OldPrefixLen(q) = q.matched, q.phase = "run",
         q.fill <= Len(q.ids), q.fill <= Len(q.row),
         NEW T, NEW f, NEW c, Unfinished(T, f, q, c), NEW U, U.val = c.tree.val, Reads(U, q)
  PROVE  Reads(U, c.req)
<1> DEFINE d == c.req
           key == KeyOf(q, q.fill)
           L == Len(key) * PageSize
           V == Insert(T, key, RowPages(q, key)).val
           k == Len(q.node)
<1>1. /\ U.val = V /\ d.node = key /\ d.matched = L /\ L \in Nat /\ q.matched <= L
      /\ L + Shift <= q.fill /\ Len(d.row) = Len(q.row) /\ d.phase = "run"
      /\ \A i \in 1..Len(q.row) : d.row[i] =
           IF i > OldPrefixLen(q) /\ i <= L THEN V[SubSeq(key, 1, Block(i) + 1)] ELSE q.row[i]
  BY Zenon DEF Unfinished
<1>2. /\ q.ids \in Seq(Nat) /\ q.extra_key \in ExtraKeys /\ q.fill \in 0..Len(q.ids)
      /\ q.node \in Seq(PageKey) /\ k \in Nat /\ q.matched = k * PageSize
      /\ k * PageSize + Shift <= q.fill /\ q.node = KeyOf(q, k * PageSize + Shift)
  BY DEF Cuttable
<1>3. key \in Seq(PageKey) /\ k <= Len(key) /\ q.node = SubSeq(key, 1, k)
  BY <1>2, KeyOfType, KeyCut, Zenon
<1>4. \A i \in 1..q.matched : q.row[i] = V[SubSeq(q.node, 1, Block(i) + 1)]
  BY <1>1, Zenon DEF Reads, Held
<1> HIDE DEF V
<1>5. ASSUME NEW i \in 1..q.matched
      PROVE  SubSeq(q.node, 1, Block(i) + 1) = SubSeq(key, 1, Block(i) + 1)
  <2>1. i \in 1..(k * PageSize)
    BY <1>2, Zenon
  <2>2. Block(i) + 1 \in 1..k
    BY <1>2, <2>1, PageOfPosition, Zenon DEF Block
  <2> DEFINE j == Block(i) + 1
  <2> HIDE DEF j, key, k
  <2>3. k \in 0..Len(key) /\ j \in 0..k
    BY <1>2, <1>3, <2>2 DEF j
  <2> QED
    BY <1>3, <2>3, SubIsPrefix, Zenon DEF j
<1> HIDE DEF key, L, d
<1>6. \A i \in 1..d.matched : d.row[i] = V[SubSeq(d.node, 1, Block(i) + 1)]
  <2> SUFFICES ASSUME NEW i \in 1..L PROVE d.row[i] = V[SubSeq(key, 1, Block(i) + 1)]
    BY <1>1, Zenon
  <2>1. i \in 1..Len(q.row) /\ q.matched \in Nat
    BY <1>1 DEF Shift, Request
  <2>2. CASE i > q.matched
    BY <1>1, <2>1, <2>2
  <2>3. CASE ~(i > q.matched)
    <3>1. i \in 1..q.matched
      BY <2>1, <2>3
    <3>2. d.row[i] = q.row[i]
      BY <1>1, <2>1, <2>3, Zenon
    <3>3. q.row[i] = V[SubSeq(q.node, 1, Block(i) + 1)]
      BY <1>4, <3>1, Zenon
    <3>4. SubSeq(q.node, 1, Block(i) + 1) = SubSeq(key, 1, Block(i) + 1)
      BY <1>5, <3>1, Zenon
    <3> QED
      BY <3>2, <3>3, <3>4, Zenon
  <2> QED
    BY <2>2, <2>3, Zenon
<1> QED
  BY <1>1, <1>6, Zenon DEF Reads, Held, d

\* The match ends where old_prefix_len says, before a prefill's result.
LEMMA OldIsMatched ==
  ASSUME WholePages, NEW q, Whole(q), Unread(q), NEW s, Cuttable(s), s.prefix = q.prefix,
         s.matched = q.matched
  PROVE  OldPrefixLen(s) = s.matched
<1>1. /\ s.matched \in Nat /\ OldPrefixLen(s) \in Nat /\ s.matched <= OldPrefixLen(s)
      /\ OldPrefixLen(s) < s.matched + PageSize
  <2> DEFINE k == Len(s.node)
             x == k * PageSize
  <2>1. /\ x \in Nat /\ s.matched = x /\ OldPrefixLen(s) \in Nat /\ x <= OldPrefixLen(s)
        /\ OldPrefixLen(s) < x + PageSize
    BY OldPrefix
  <2> QED
    BY <2>1, Zenon
<1>2. CASE PageSize = 1
  BY <1>1, <1>2
<1>3. CASE PageSize # 1
  BY <1>3, Zenon DEF WholePages, Whole, OldPrefixLen
<1> QED
  BY <1>2, <1>3, Zenon

\* process_batch_result: the request finishes, is cached, or goes on.
LEMMA ResultReads ==
  ASSUME WholePages, RInv, PInv', HeldStep, NEW r \in Reqs, PrefillResult(r) \/ DecodeResult(r)
  PROVE  RInv'
<1> DEFINE q == req[r]
<1>1. /\ q \in Request /\ FillLaw(q) /\ q.phase = "run" /\ q.pend # <<>> /\ Holding(q)
      /\ req \in [Reqs -> Request] /\ PInv /\ IInv
  BY Zenon DEF PrefillResult, DecodeResult, RInv, PInv, IInv, Holding
<1>2. Good(q) /\ Whole(q)
  BY <1>1, Zenon DEF RInv, PInv
<1>3. PICK t \in Tok :
        \/ Finish(r, Sampled(q, t))
        \/ /\ Sampled(q, t).out < MaxNew
           /\ Head(q.pend) = "prefill"
           /\ tree' = CacheUnfinished(tree, free, Sampled(q, t)).tree
           /\ req' = [req EXCEPT ![r] = CacheUnfinished(tree, free, Sampled(q, t)).req]
        \/ /\ Sampled(q, t).out < MaxNew
           /\ req' = [req EXCEPT ![r] = Sampled(q, t)]
  <2>1. CASE PrefillResult(r)
    BY <2>1, Zenon DEF PrefillResult
  <2>2. CASE DecodeResult(r)
    BY <2>2, Zenon DEF DecodeResult
  <2> QED
    BY <2>1, <2>2, Zenon
<1> DEFINE s == Sampled(q, t)
<1>4. /\ Good(s) /\ Cuttable(s) /\ Holding(s) /\ s.phase = "run"
      /\ s.row = q.row /\ s.matched = q.matched /\ s.node = q.node
      /\ s.fill <= Len(s.row) /\ s.fill <= Len(s.ids)
      /\ s.out < MaxNew => s \in Request
  BY <1>1, <1>2, SampledGood, Zenon
<1>5. s.pend = Tail(q.pend) /\ \A d : d.phase = "run" /\ d.pend = Tail(q.pend) => Whole(d)
  BY <1>1, <1>2, SampledWhole, Zenon
<1>6. s.prefix = q.prefix
  BY <1>1, Zenon DEF Sampled, Request
<1> HIDE DEF s
<1>7. Held(s) = Held(q)
  BY <1>1, <1>4, Zenon DEF Held
<1>8. CASE Finish(r, s)
  BY <1>8, LeftReads, Zenon
<1>9. ASSUME Holding(req'[r]) PROVE Reads(tree', s)
  <2>1. Reads(tree', q)
    BY <1>1, <1>9, StillReads, Zenon
  <2> QED
    BY <1>4, <1>7, <2>1, Zenon DEF Reads
<1>10. CASE /\ s.out < MaxNew /\ Head(q.pend) = "prefill"
            /\ tree' = CacheUnfinished(tree, free, s).tree
            /\ req' = [req EXCEPT ![r] = CacheUnfinished(tree, free, s).req]
  <2> DEFINE c == CacheUnfinished(tree, free, s)
             d == c.req
  <2>1. TreeOK(PageKey, Pages, tree) /\ s.node \in Nodes(tree) /\ s \in Request
    BY <1>1, <1>4, <1>10, HolderNode, Zenon
  <2>2. Unfinished(tree, free, s, c)
    BY <1>4, <2>1, UnfinishedIs, Zenon
  <2>3. /\ tree' = c.tree /\ req' = [req EXCEPT ![r] = d] /\ tree'.val = c.tree.val
    BY <1>10
  <2> HIDE DEF c
  <2>4. d.phase = "run" /\ d.pend = s.pend
    BY <1>4, <2>2, Zenon DEF Unfinished
  <2>5. Whole(d)
    BY <1>5, <2>4, Zenon
  <2>6. Holding(req'[r])
    BY <1>1, <2>3, <2>4, Zenon DEF Holding
  <2>7. Unread(q)
    BY <1>1, <1>10, Zenon DEF Unread
  <2>8. OldPrefixLen(s) = s.matched
    BY <1>2, <1>4, <1>6, <2>7, OldIsMatched, Zenon
  <2>9. Reads(tree', s)
    BY <1>9, <2>6, Zenon
  <2>10. Reads(tree', d)
    BY <1>4, <2>1, <2>2, <2>3, <2>8, <2>9, RecachedReads, Zenon
  <2> HIDE DEF d
  <2> QED
    BY <2>3, <2>5, <2>10, OneReads, Zenon
<1>11. CASE req' = [req EXCEPT ![r] = s]
  <2>1. Holding(req'[r])
    BY <1>1, <1>4, <1>11, Zenon
  <2>2. Whole(s) /\ Reads(tree', s)
    BY <1>4, <1>5, <1>9, <2>1, Zenon
  <2> QED
    BY <1>11, <2>2, OneReads, Zenon
<1> QED
  BY <1>3, <1>8, <1>10, <1>11, Zenon DEF s

\* Every step keeps the invariant of the rows.
LEMMA NextRInv ==
  ASSUME WholePages, RInv, [Next]_vars
  PROVE  RInv'
<1>0. PInv' /\ HeldStep
  <2>1. PInv /\ IInv
    BY DEF RInv, PInv
  <2> QED
    BY <2>1, NextPInv, NextIInv, Zenon
<1>1. CASE UNCHANGED vars \/ FlushCache
  BY <1>0, <1>1, NoneReads, Zenon DEF vars, FlushCache
<1>2. ASSUME NEW r \in Reqs, Reject(r) \/ CheckDecodeMem(r) PROVE RInv'
  BY <1>0, <1>2, NoneReads, Zenon DEF Reject, CheckDecodeMem
<1>3. CASE \E r \in Reqs :
       \/ Arrive(r) \/ Abort(r) \/ Reject(r) \/ Admit(r) \/ Extend(r) \/ CacheChunk(r)
       \/ Decode(r) \/ PrefillResult(r) \/ DecodeResult(r) \/ Retract(r)
       \/ CheckDecodeMem(r)
  BY <1>0, <1>2, <1>3, LeftReads, AdmitReads, AllocReads, CacheChunkReads, ResultReads, Zenon
<1> QED
  BY <1>1, <1>3, Zenon DEF Next

\* The invariant of the rows holds at the start.
LEMMA InitRInv == Init => RInv
<1> SUFFICES ASSUME Init PROVE RInv
  OBVIOUS
<1>1. \A r \in Reqs : ~Holding(req[r])
  BY NoReqType DEF Init
<1> QED
  BY <1>1, InitPInv, Zenon DEF RInv

\* The invariant of the rows gives the property.
LEMMA RowsRead == RInv => RowReadsTree
<1> SUFFICES ASSUME RInv, NEW r \in Holders, req[r].phase \in {"chunk", "run"}
             PROVE  LET q == req[r]
                        path == KeyOf(q, q.matched + Shift)
                    IN  /\ path \in Nodes(tree) /\ IsPrefix(path, q.node)
                        /\ SubSeq(q.row, 1, q.matched) = Indices(tree, path)
  BY DEF RowReadsTree
<1> DEFINE q == req[r]
<1>1. r \in Reqs /\ Holding(q) /\ q \in Request /\ FillLaw(q) /\ IInv
  BY Zenon DEF RInv, PInv, IInv, Holders, Holding
<1>2. Good(q) /\ Reads(tree, q)
  BY <1>1, Zenon DEF RInv, PInv
<1>3. TreeOK(PageKey, Pages, tree) /\ q.node \in Nodes(tree)
  BY <1>1, HolderNode, Zenon
<1>4. /\ q.node = KeyOf(q, q.matched + Shift) /\ q.matched = Len(q.node) * PageSize
      /\ q.matched \in Nat /\ q.row \in Seq(Pages) /\ q.matched <= Len(q.row)
  BY <1>1, <1>2 DEF Good, Request, FillLaw, Shift
<1>5. IsPrefix(q.node, q.node)
  BY <1>3, PrefixRefl, Zenon DEF TreeOK
<1>6. \A i \in 1..q.matched : q.row[i] = tree.val[SubSeq(q.node, 1, (i - 1) \div PageSize + 1)]
  BY <1>2, Zenon DEF Reads, Held, Block
<1> HIDE DEF q
<1>7. SubSeq(q.row, 1, q.matched) = [i \in 1..q.matched |-> q.row[i]]
  BY <1>4
<1>8. SubSeq(q.row, 1, q.matched) = Indices(tree, q.node)
  BY <1>4, <1>6, <1>7, Zenon DEF Indices
<1> QED
  BY <1>3, <1>4, <1>5, <1>8, Zenon DEF q

\* When chunks end on pages, the row a request's attention reads is, over the matched
\* prefix, the KV the tree caches for the request's own tokens and namespace: the slots
\* cache_unfinished_req rewrites, an eviction, a split or another request's insert between
\* two of its passes included.  Without the hypothesis it is false (RadixUnaligned).
THEOREM RowsReadTree == WholePages => (Spec => []RowReadsTree)
<1> SUFFICES ASSUME WholePages PROVE Spec => []RowReadsTree
  OBVIOUS
<1>1. RInv /\ [Next]_vars => RInv'
  BY NextRInv
<1> QED
  BY <1>1, InitRInv, RowsRead, PTL DEF Spec
=============================================================================
