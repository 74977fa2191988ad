------------------------- MODULE KVAllocatorProofs --------------------------
(***************************************************************************)
(* The allocator never loses a page, never hands one out twice, and its    *)
(* kernels keep the KV of every request in whole pages: for every number   *)
(* of pages, page size, batch and order of frees, with and without the     *)
(* release list.  It implements the page pool of SlotPool.                 *)
(***************************************************************************)
EXTENDS KVAllocatorKernels

USE SMTT(30)

\* The lists hold the pages that are neither in k nor in the group.
GroupPages(fg, ig) == IF ig THEN PagesOf(fg) ELSE {}
PagesInv(k, l, fg, ig) ==
  /\ fg \in Seq(Slots) /\ (ig => IsInjective(fg))
  /\ Holds(l, Pages \ (UsedBy(k) \cup GroupPages(fg, ig)))
  /\ NeedSort \/ l.release = <<>>
  /\ KvInv(k, GroupPages(fg, ig))

RowsOK ==
  /\ row \in [Owners -> -1..(NumRows - 1)]
  /\ \A o, p \in Owners : o # p /\ row[o] = row[p] => row[o] = -1
  /\ free_slots \in Seq(0..(NumRows - 1)) /\ IsInjective(free_slots)
  /\ ToSet(free_slots) = (0..(NumRows - 1)) \ {row[o] : o \in Owners}

IInv ==
  /\ conf \in Configs /\ in_group \in BOOLEAN
  /\ PagesInv(kv, Lists, free_group, in_group) /\ RowsOK
-----------------------------------------------------------------------------
(* How many pages a batch opens.                                           *)

\* Every request of a batch opens a natural number of pages.
LEMMA CountsIs ==
  ASSUME PageSize \in Nat \ {0}, NEW k, NEW n, NEW b, NEW pre, NEW seq, NEW last,
         BatchOf(k, n, b, pre, seq, last)
  PROVE  Counts(n, pre, seq, [i \in 1..n |-> NewPages(pre, seq, i)])
<1> SUFFICES ASSUME NEW i \in 1..n PROVE NewPages(pre, seq, i) \in Nat
  BY DEF Counts
<1> DEFINE p == pre[i]
           q == seq[i]
<1>1. p \in Nat /\ q \in Nat /\ p < q
  BY DEF BatchOf
<1>2. NewPages(pre, seq, i) = Ceil(q) - Ceil(p)
  BY DEF NewPages
<1> HIDE DEF p, q
<1>3. /\ Ceil(p) \in Nat /\ Ceil(p) * PageSize < p + PageSize
      /\ Ceil(q) \in Nat /\ q <= Ceil(q) * PageSize
  BY <1>1, CeilIs
<1>4. ~(Ceil(q) < Ceil(p))
  <2> SUFFICES ASSUME Ceil(q) < Ceil(p) PROVE FALSE
    OBVIOUS
  <2>1. /\ Ceil(q) * PageSize + PageSize <= Ceil(p) * PageSize
        /\ Ceil(q) * PageSize \in Nat /\ Ceil(p) * PageSize \in Nat
    BY <1>3, Times
  <2> QED
    BY <1>1, <1>3, <2>1
<1> QED
  BY <1>2, <1>3, <1>4

\* A token more opens a page when the tokens before it fill theirs.
LEMMA OneMore ==
  ASSUME PageSize \in Nat \ {0}, NEW m \in Nat
  PROVE  /\ Ceil(m + 1) - Ceil(m) = IF m % PageSize = 0 THEN 1 ELSE 0
         /\ PageSize # 1 => (m % PageSize = 0 <=> (m + 1) % PageSize = 1)
         /\ PageSize = 1 => m % PageSize = 0
<1> DEFINE d == PageSize
           q == m \div d
           r == m % d
<1>1. d \in Nat \ {0} /\ m + 1 \in Nat
  OBVIOUS
<1>2. /\ r = 0 => Ceil(m) = q
      /\ r # 0 => Ceil(m) = q + 1
  BY CeilIs
<1>3. /\ (m + 1) % d = 0 => Ceil(m + 1) = (m + 1) \div d
      /\ (m + 1) % d # 0 => Ceil(m + 1) = (m + 1) \div d + 1
  BY <1>1, CeilIs
<1> HIDE DEF d
<1>4. q \in Nat /\ r \in 0..(d - 1) /\ m = q * d + r
  BY <1>1, DivMod
<1> HIDE DEF q, r
<1>5. q * d \in Nat /\ (q + 1) * d = q * d + d
  BY <1>1, <1>4
<1>6. CASE r + 1 = d
  <2>1. m + 1 = (q + 1) * d + 0 /\ q + 1 \in Nat /\ 0 \in 0..(d - 1)
    BY <1>1, <1>4, <1>5, <1>6
  <2>2. ((q + 1) * d + 0) \div d = q + 1 /\ ((q + 1) * d + 0) % d = 0
    BY <1>1, <2>1, DivIs, Zenon
  <2>3. (m + 1) \div d = q + 1 /\ (m + 1) % d = 0
    BY <2>1, <2>2, Zenon
  <2> QED
    BY <1>1, <1>2, <1>3, <1>4, <1>6, <2>3 DEF d, r
<1>7. CASE r + 1 # d
  <2>1. m + 1 = q * d + (r + 1) /\ r + 1 \in 0..(d - 1)
    BY <1>1, <1>4, <1>5, <1>7
  <2>2. (q * d + (r + 1)) \div d = q /\ (q * d + (r + 1)) % d = r + 1
    BY <1>1, <1>4, <2>1, DivIs, Zenon
  <2>3. (m + 1) \div d = q /\ (m + 1) % d = r + 1
    BY <2>1, <2>2, Zenon
  <2> QED
    BY <1>1, <1>2, <1>3, <1>4, <1>7, <2>1, <2>3 DEF d, r
<1> QED
  BY <1>6, <1>7

\* A sum of zeros and ones counts the ones.
LEMMA CountOnes ==
  ASSUME NEW n \in Nat, NEW f \in [1..n -> {0, 1}]
  PROVE  Total(f) = Cardinality({i \in 1..n : f[i] = 1})
         /\ Cardinality({i \in 1..n : f[i] = 1}) <= n
<1> DEFINE Q == {i \in 1..n : f[i] = 1}
           P == Pairs(f, 1..n)
           h == [i \in Q |-> <<i, 1>>]
<1>1. Total(f) = Cardinality(P)
  BY DEF Total, Sum, Pairs
<1>2. IsFiniteSet(1..n) /\ Cardinality(1..n) = n
  BY FS_Interval
<1>3. IsFiniteSet(Q) /\ Cardinality(Q) <= n
  BY <1>2, FS_Subset
<1>4. \A x \in P : \E i \in Q : x = <<i, 1>>
  <2>0. \A x \in P : \E i \in 1..n : x \in {i} \X (1..f[i])
    BY Zenon DEF Pairs
  <2> TAKE x \in P
  <2> HIDE DEF P
  <2> PICK i \in 1..n : x \in {i} \X (1..f[i])
    BY <2>0, Zenon
  <2>1. f[i] \in {0, 1}
    OBVIOUS
  <2>2. x = <<x[1], x[2]>> /\ x[1] = i /\ x[2] \in 1..f[i]
    OBVIOUS
  <2>3. f[i] = 1 /\ x[2] = 1
    BY <2>1, <2>2
  <2> QED
    BY <2>2, <2>3
<1>5. \A i \in Q : <<i, 1>> \in P
  <2> TAKE i \in Q
  <2>1. i \in 1..n /\ <<i, 1>> \in {i} \X (1..f[i])
    OBVIOUS
  <2> QED
    BY <2>1, Zenon DEF Pairs
<1> HIDE DEF P
<1>6. h \in [Q -> P]
  BY <1>5
<1>7. \A i, j \in Q : h[i] = h[j] => i = j
  OBVIOUS
<1>8. \A x \in P : \E i \in Q : h[i] = x
  BY <1>4
<1>9. \A i \in DOMAIN h : i \in Q
  OBVIOUS
<1> HIDE DEF h, Q
<1>10. h \in Injection(Q, P) /\ h \in Surjection(Q, P)
  BY <1>6, <1>7, <1>8, <1>9, Zenon DEF Injection, Surjection, IsInjective
<1>11. ExistsBijection(Q, P)
  BY <1>10, Zenon DEF Bijection, ExistsBijection
<1>12. Cardinality(P) = Cardinality(Q)
  BY <1>3, <1>11, FS_Bijection
<1> QED
  BY <1>1, <1>3, <1>12 DEF Q

\* get_num_new_pages of a decode batch counts the pages the kernel takes.
LEMMA DecodeCount ==
  ASSUME PageSize \in Nat \ {0}, NEW k, NEW n, NEW b, NEW pre, NEW seq, NEW last,
         BatchOf(k, n, b, pre, seq, last), \A i \in 1..n : seq[i] = pre[i] + 1,
         NEW f, Counts(n, pre, seq, f)
  PROVE  DecodePages(seq) = Total(f) /\ DecodePages(seq) <= Len(seq)
         /\ DecodePages(seq) \in Nat
<1>1. n \in Nat /\ seq \in [1..n -> Nat] /\ pre \in [1..n -> Nat]
  BY DEF BatchOf
<1>2. DOMAIN seq = 1..n /\ Len(seq) = n
  <2>1. seq \in Seq(Nat) /\ Len(seq) = n
    BY <1>1, FunIsSeq, Zenon
  <2> QED
    BY <1>1, <2>1
<1>3. ASSUME NEW i \in 1..n
      PROVE  /\ f[i] = IF pre[i] % PageSize = 0 THEN 1 ELSE 0
             /\ PageSize # 1 => (pre[i] % PageSize = 0 <=> seq[i] % PageSize = 1)
             /\ PageSize = 1 => pre[i] % PageSize = 0
  <2>1. pre[i] \in Nat /\ seq[i] = pre[i] + 1
    BY <1>1
  <2>2. f[i] = Ceil(seq[i]) - Ceil(pre[i])
    BY DEF Counts, NewPages
  <2> QED
    BY <2>1, <2>2, OneMore
<1>4. f \in [1..n -> {0, 1}]
  <2>1. \A i \in 1..n : f[i] \in {0, 1}
    BY <1>3
  <2>2. f \in [1..n -> Nat]
    BY DEF Counts
  <2> QED
    BY <2>1, <2>2
<1>5. /\ Total(f) = Cardinality({i \in 1..n : f[i] = 1})
      /\ Cardinality({i \in 1..n : f[i] = 1}) <= n
  BY <1>1, <1>4, CountOnes, Zenon
<1>6. Total(f) \in Nat
  BY <1>1, SideBySide, Zenon DEF Counts
<1>7. CASE PageSize = 1
  <2>1. {i \in 1..n : f[i] = 1} = 1..n
    BY <1>3, <1>7
  <2>2. Cardinality(1..n) = n
    BY <1>1, FS_Interval
  <2> QED
    BY <1>1, <1>2, <1>5, <1>7, <2>1, <2>2, Zenon DEF DecodePages
<1>8. CASE PageSize # 1
  <2>1. {i \in 1..n : f[i] = 1} = {i \in 1..n : seq[i] % PageSize = 1}
    BY <1>3, <1>8
  <2>2. DecodePages(seq) = Cardinality({i \in 1..n : seq[i] % PageSize = 1})
    BY <1>2, <1>8 DEF DecodePages
  <2> QED
    BY <1>2, <1>5, <1>6, <2>1, <2>2, Zenon
<1> QED
  BY <1>7, <1>8

\* The estimate that decides on merging covers the pages of an extend batch.
LEMMA ExtendCount ==
  ASSUME PageSize \in Nat \ {0}, NEW k, NEW n, NEW b, NEW pre, NEW seq, NEW last,
         BatchOf(k, n, b, pre, seq, last), NEW f, Counts(n, pre, seq, f),
         NEW e, e = [i \in 1..n |-> seq[i] - pre[i]]
  PROVE  /\ Total(e) \in Nat /\ Total(f) \in Nat
         /\ PageSize = 1 => Total(f) = Total(e)
         /\ Total(f) <= Total(e) \div PageSize + n + 1
<1> DEFINE d == PageSize
           F(m) == Sum(f, 1..m)
           E(m) == Sum(e, 1..m)
           T == {m \in Nat : m <= n => F(m) * d <= E(m) + m * (d - 1)}
<1>1. d \in Nat \ {0} /\ n \in Nat /\ f \in [1..n -> Nat]
  BY DEF BatchOf, Counts
<1>2. ASSUME NEW i \in 1..n
      PROVE  /\ e[i] \in Nat /\ f[i] \in Nat /\ f[i] * d \in Nat /\ f[i] * d <= e[i] + (d - 1)
             /\ d = 1 => f[i] = e[i]
  <2> DEFINE p == pre[i]
             q == seq[i]
  <2>1. p \in Nat /\ q \in Nat /\ p < q /\ e[i] = q - p
    BY DEF BatchOf
  <2>2. f[i] = Ceil(q) - Ceil(p) /\ f[i] \in Nat
    BY <1>1 DEF Counts, NewPages
  <2> HIDE DEF p, q
  <2>3. /\ Ceil(p) \in Nat /\ p <= Ceil(p) * d /\ Ceil(p) * d < p + d
        /\ Ceil(q) \in Nat /\ q <= Ceil(q) * d /\ Ceil(q) * d < q + d
    BY <2>1, CeilIs, Zenon
  <2> HIDE DEF d
  <2>4. f[i] * d = Ceil(q) * d - Ceil(p) * d
    BY <1>1, <2>2, <2>3
  <2>5. Ceil(q) * d \in Nat /\ Ceil(p) * d \in Nat /\ f[i] * d \in Nat
    BY <1>1, <2>2, <2>3
  <2>6. f[i] * d <= e[i] + (d - 1)
    <3> DEFINE A == Ceil(q) * d
               B == Ceil(p) * d
    <3>1. A \in Nat /\ B \in Nat /\ p <= B /\ A < q + d
      BY <2>3, <2>5
    <3> HIDE DEF A, B
    <3>2. A - B <= (q - p) + (d - 1)
      BY <1>1, <2>1, <3>1
    <3> QED
      BY <2>1, <2>4, <3>2 DEF A, B
  <2>7. ASSUME d = 1 PROVE f[i] = e[i]
    <3>1. Ceil(p) * 1 = Ceil(p) /\ Ceil(q) * 1 = Ceil(q)
      BY <2>3
    <3>2. Ceil(p) = p /\ Ceil(q) = q
      BY <2>1, <2>3, <2>7, <3>1
    <3> QED
      BY <2>1, <2>2, <3>2
  <2> QED
    BY <2>1, <2>2, <2>5, <2>6, <2>7
<1>3. e \in [1..n -> Nat]
  BY <1>2
<1>4. /\ F(0) = 0 /\ \A i \in 0..n : F(i) \in Nat
      /\ \A i \in 1..n : F(i) = F(i - 1) + f[i]
  BY <1>1, SumStep, Zenon
<1>5. /\ E(0) = 0 /\ \A i \in 0..n : E(i) \in Nat
      /\ \A i \in 1..n : E(i) = E(i - 1) + e[i]
  BY <1>1, <1>3, SumStep, Zenon
<1>6. Total(f) = F(n) /\ Total(e) = E(n)
  BY <1>1 DEF Total
<1> HIDE DEF d, F, E
<1>7. T = Nat
  <2>1. 0 \in T
    BY <1>1, <1>4, <1>5
  <2>2. ASSUME NEW m \in T PROVE m + 1 \in T
    <3>1. m \in Nat /\ (m <= n => F(m) * d <= E(m) + m * (d - 1))
      OBVIOUS
    <3> SUFFICES ASSUME m + 1 <= n PROVE F(m + 1) * d <= E(m + 1) + (m + 1) * (d - 1)
      BY <3>1
    <3> HIDE DEF T
    <3>2. m <= n /\ m \in 0..n /\ m + 1 \in 1..n /\ (m + 1) - 1 = m /\ m + 1 \in 0..n
      BY <1>1, <3>1
    <3>3. /\ F(m + 1) = F(m) + f[m + 1] /\ E(m + 1) = E(m) + e[m + 1]
          /\ F(m) \in Nat /\ E(m) \in Nat
      BY <1>4, <1>5, <3>2
    <3>4. e[m + 1] \in Nat /\ f[m + 1] \in Nat /\ f[m + 1] * d <= e[m + 1] + (d - 1)
          /\ f[m + 1] * d \in Nat
      BY <1>2, <3>2
    <3>5. F(m + 1) * d = F(m) * d + f[m + 1] * d /\ F(m) * d \in Nat
      BY <1>1, <3>3, <3>4
    <3>6. (m + 1) * (d - 1) = m * (d - 1) + (d - 1) /\ m * (d - 1) \in Nat /\ d - 1 \in Nat
      BY <1>1, <3>1
    <3> DEFINE fd == F(m) * d
               gd == f[m + 1] * d
               md == m * (d - 1)
    <3>7. /\ F(m + 1) * d = fd + gd /\ (m + 1) * (d - 1) = md + (d - 1)
          /\ fd \in Nat /\ gd \in Nat /\ md \in Nat /\ d - 1 \in Nat
          /\ E(m) \in Nat /\ e[m + 1] \in Nat
      BY <3>3, <3>4, <3>5, <3>6, Zenon
    <3>8. fd <= E(m) + md /\ gd <= e[m + 1] + (d - 1)
      BY <3>1, <3>2, <3>4, Zenon
    <3> HIDE DEF fd, gd, md
    <3>9. fd + gd <= (E(m) + e[m + 1]) + (md + (d - 1))
      BY <3>7, <3>8
    <3> QED
      BY <3>3, <3>7, <3>9, Zenon
  <2> HIDE DEF T
  <2>3. T \in SUBSET Nat
    BY DEF T
  <2> QED
    BY <2>1, <2>2, <2>3, NatSet, Zenon
<1>8. n \in 0..n /\ n \in T /\ n <= n
  BY <1>1, <1>7
<1>9. F(n) \in Nat /\ E(n) \in Nat /\ F(n) * d <= E(n) + n * (d - 1)
  BY <1>4, <1>5, <1>8
<1> HIDE DEF T
<1>10. F(n) <= E(n) \div d + n + 1
  <2> DEFINE y == E(n) \div d
  <2>1. y \in Nat /\ E(n) % d \in 0..(d - 1) /\ E(n) = y * d + (E(n) % d)
    BY <1>1, <1>9, DivMod, Zenon
  <2> HIDE DEF y
  <2> SUFFICES F(n) <= y + n + 1
    BY DEF y
  <2> SUFFICES ASSUME y + n + 1 < F(n) PROVE FALSE
    BY <1>1, <1>9, <2>1
  <2>2. (y + n + 1) * d + d <= F(n) * d
    <3>1. y + n + 1 \in Nat
      BY <1>1, <2>1
    <3> QED
      BY <1>1, <1>9, <3>1, Times, Zenon
  <2>3. (y + n + 1) * d = y * d + n * d + d /\ n * (d - 1) = n * d - n
    BY <1>1, <2>1
  <2>4. y * d \in Nat /\ n * d \in Nat /\ F(n) * d \in Nat
    <3>1. \A u, v \in Nat : u * v \in Nat
      OBVIOUS
    <3> QED
      BY <1>1, <1>9, <2>1, <3>1, Zenon
  <2> DEFINE yd == y * d
             nd == n * d
             fd == F(n) * d
  <2>5. /\ yd \in Nat /\ nd \in Nat /\ fd \in Nat /\ n \in Nat /\ d \in Nat /\ d > 0
        /\ E(n) \in Nat
    BY <1>1, <1>9, <2>4
  <2>6. (yd + nd + d) + d <= fd
    BY <2>2, <2>3, Zenon
  <2>7. fd <= E(n) + (nd - n)
    BY <1>9, <2>3, Zenon
  <2>8. E(n) < yd + d
    BY <1>1, <1>9, <2>1, <2>5
  <2> HIDE DEF yd, nd, fd
  <2> QED
    BY <2>5, <2>6, <2>7, <2>8
<1>11. ASSUME d = 1 PROVE F(n) = E(n)
  <2>1. f = e
    BY <1>1, <1>2, <1>3, <1>11
  <2> QED
    BY <2>1 DEF F, E
<1> QED
  BY <1>6, <1>9, <1>10, <1>11 DEF d
-----------------------------------------------------------------------------
(* The allocating steps.                                                   *)

\* The lists an allocation of a batch starts from.
Start(l) == l = Lists \/ l = merge_and_sort_free(Lists)

\* The merge before an allocation keeps the pages of the lists.
LEMMA StartHolds ==
  ASSUME NEW S, Holds(Lists, S), NeedSort \/ release_pages = <<>>, NEW l, Start(l)
  PROVE  Holds(l, S) /\ (NeedSort \/ l.release = <<>>)
<1>1. CASE l = Lists
  BY <1>1 DEF Lists
<1>2. CASE l = merge_and_sort_free(Lists)
  BY <1>2, MergeHolds, Zenon
<1> QED
  BY <1>1, <1>2 DEF Start

\* The batch takes the first pages of the list, and the invariant on pages holds again.
LEMMA Allocates ==
  ASSUME PageSize \in Nat \ {0}, NEW fg, PagesInv(kv, Lists, fg, FALSE),
         NEW n, NEW b, NEW pre, NEW seq, NEW last, BatchOf(kv, n, b, pre, seq, last),
         NEW l, Start(l), NEW f, Counts(n, pre, seq, f), Total(f) <= Len(l.free),
         NEW out, \A i \in 1..n : Served(kv, b, pre, seq, last, l.free, f, out, i),
         NEW kn, Appends(kv, n, b, out, kn),
         NEW ln, ln = [free |-> SubSeq(l.free, Total(f) + 1, Len(l.free)), release |-> l.release]
  PROVE  /\ PagesInv(kn, ln, fg, FALSE)
         /\ \E got : Grows(kv, kn, got, Seg(l.free, 0, Total(f)))
         /\ Holds(l, Pages \ UsedBy(kv))
<1> DEFINE S == Pages \ UsedBy(kv)
           P == Seg(l.free, 0, Total(f))
           fr == l.free
<1>1. GroupPages(fg, FALSE) = {} /\ UsedBy(kv) \cup {} = UsedBy(kv)
  BY DEF GroupPages
<1>2. /\ Holds(Lists, S) /\ (NeedSort \/ Lists.release = <<>>) /\ KvInv(kv, {})
      /\ fg \in Seq(Slots)
  BY <1>1, Zenon DEF PagesInv
<1>3. Holds(l, S) /\ (NeedSort \/ l.release = <<>>)
  BY <1>2, StartHolds DEF Lists
<1>4. /\ fr \in Seq(Pages) /\ IsInjective(fr) /\ ToSet(fr) \subseteq S
  BY <1>3 DEF Holds
<1>5. Apart(ToSet(fr), UsedBy(kv)) /\ Apart(ToSet(fr), {})
  BY <1>4 DEF Apart
<1>6. Total(f) \in Nat
  <2>1. n \in Nat /\ f \in [1..n -> Nat]
    BY DEF BatchOf, Counts
  <2> QED
    BY <2>1, SideBySide
<1> HIDE DEF fr, P, S
<1>7. KvInv(kn, {}) /\ \E got : Grows(kv, kn, got, P)
  <2>1. Total(f) <= Len(fr) /\ \A i \in 1..n : Served(kv, b, pre, seq, last, fr, f, out, i)
    BY DEF fr
  <2>2. KvInv(kn, {}) /\ \E got : Grows(kv, kn, got, Seg(fr, 0, Total(f)))
    BY <1>2, <1>4, <1>5, <2>1, BatchGrows, Zenon
  <2> QED
    BY <2>2 DEF P, fr
<1>8. UsedBy(kn) = UsedBy(kv) \cup P
  <2> PICK got : Grows(kv, kn, got, P)
    BY <1>7
  <2>1. \A o \in Owners : PagesOf(kn[o]) = PagesOf(kv[o]) \cup got[o]
    BY DEF Grows
  <2>2. UNION {got[o] : o \in Owners} = P
    BY DEF Grows
  <2>3. UNION {PagesOf(kn[o]) : o \in Owners}
          \subseteq (UNION {PagesOf(kv[o]) : o \in Owners}) \cup P
    BY <2>1, <2>2
  <2>4. UNION {PagesOf(kv[o]) : o \in Owners} \subseteq UNION {PagesOf(kn[o]) : o \in Owners}
    BY <2>1
  <2>5. P \subseteq UNION {PagesOf(kn[o]) : o \in Owners}
    <3> SUFFICES ASSUME NEW x \in P PROVE \E o \in Owners : x \in PagesOf(kn[o])
      OBVIOUS
    <3>1. PICK o \in Owners : x \in got[o]
      BY <2>2
    <3> QED
      BY <2>1, <3>1
  <2> QED
    BY <2>3, <2>4, <2>5, Zenon DEF UsedBy
<1>9. Holds(ln, S \ P)
  <2>1. Total(f) \in 0..Len(l.free)
    BY <1>4, <1>6 DEF fr
  <2> QED
    BY <1>3, <2>1, TakeHolds, Zenon DEF P
<1>10. S \ P = Pages \ (UsedBy(kn) \cup GroupPages(fg, FALSE))
  BY <1>1, <1>8, Zenon DEF S
<1>11. NeedSort \/ ln.release = <<>>
  BY <1>3
<1>12. PagesInv(kn, ln, fg, FALSE)
  BY <1>1, <1>2, <1>7, <1>9, <1>10, <1>11, Zenon DEF PagesInv
<1> QED
  BY <1>3, <1>7, <1>12, Zenon DEF P, S

\* The allocator is fixed, so the pages of slots stay what they are.
LEMMA SameConf ==
  ASSUME conf' = conf
  PROVE  /\ PagesInv(kv, Lists, free_group, in_group)'
              <=> PagesInv(kv', Lists', free_group', in_group')
         /\ \A o \in Owners : PagesOf(kv[o])' = PagesOf(kv'[o])
         /\ Grouped' = GroupPages(free_group', in_group')
  BY DEF PagesInv, KvInv, Holds, BlockTable, UsedBy, GroupPages, Grouped, PagesOf, Page, Ceil,
         Slots, PageSize, NeedSort, Pages

\* The batches of the scheduler are batches.
LEMMA BatchesAre ==
  ASSUME NEW S \in SUBSET Owners, NEW b \in Batches(S), kv \in [Owners -> Seq(Slots)]
  PROVE  \E n \in Nat :
           /\ DOMAIN b = 1..n /\ Len(b) = n /\ b \in [1..n -> Owners]
           /\ \A i, j \in 1..n : b[i] = b[j] => i = j
           /\ \A i \in 1..n : b[i] \in S
           /\ \A seq : (seq \in [1..n -> Nat] /\ \A i \in 1..n : Len(kv[b[i]]) < seq[i])
                          => BatchOf(kv, n, b, Pre(b), seq, LastLoc(b))
<1>1. PICK n \in 1..MaxBatch : b \in [1..n -> S]
  BY DEF Batches
<1>2. n \in Nat /\ DOMAIN b = 1..n /\ b \in [1..n -> Owners] /\ \A i \in 1..n : b[i] \in S
  BY <1>1
<1>3. Len(b) = n
  BY <1>2, FunIsSeq
<1>4. \A i, j \in 1..n : b[i] = b[j] => i = j
  BY <1>2, Zenon DEF Batches
<1>5. ASSUME NEW seq, seq \in [1..n -> Nat], \A i \in 1..n : Len(kv[b[i]]) < seq[i]
      PROVE  BatchOf(kv, n, b, Pre(b), seq, LastLoc(b))
  <2>1. \A i \in 1..n : b[i] \in Owners /\ kv[b[i]] \in Seq(Slots) /\ Len(kv[b[i]]) \in Nat
    BY <1>2
  <2>2. Pre(b) \in [1..n -> Nat] /\ \A i \in 1..n : Pre(b)[i] = Len(kv[b[i]])
    BY <1>2, <2>1 DEF Pre
  <2>3. \A i \in 1..n : kv[b[i]] # <<>> => LastLoc(b)[i] = kv[b[i]][Len(kv[b[i]])]
    BY <1>2 DEF LastLoc, Last
  <2> QED
    BY <1>2, <1>4, <1>5, <2>2, <2>3 DEF BatchOf
<1> QED
  BY <1>2, <1>3, <1>4, <1>5, Zenon

\* Seen from the pool, the owners of a batch take pages nobody has.
LEMMA TakesFromPool ==
  ASSUME conf' = conf, ~in_group, ~in_group', NEW S, NEW P \in SUBSET S,
         Holds(Lists, S), ToSet(free_pages') \cup ToSet(release_pages') = S \ P,
         NEW got, Grows(kv, kv', got, P)
  PROVE  Pool!Take
<1>1. ToSet(free_pages) \cup ToSet(release_pages) = S
  BY DEF Holds, Lists
<1>2. \A o \in Owners : PagesOf(kv[o])' = PagesOf(kv[o]) \cup got[o]
  BY SameConf DEF Grows
<1>3. /\ got \in [Owners -> SUBSET S]
      /\ \A o, p \in Owners : o # p => got[o] \cap got[p] = {}
      /\ UNION {got[o] : o \in Owners} = P
  BY DEF Grows
<1>4. Grouped = {} /\ Grouped' = {}
  BY DEF Grouped
<1>5. [o \in Owners |-> PagesOf(kv[o])]'
        = [o \in Owners |-> [p \in Owners |-> PagesOf(kv[p])][o] \cup got[o]]
  BY <1>2
<1> QED
  BY <1>1, <1>3, <1>4, <1>5 DEF Pool!Take

\* alloc_for_extend gives the rows at the front of the list to the requests.
LEMMA RowsTaken ==
  ASSUME RowsOK, NEW n \in Nat, NEW b \in [1..n -> Owners],
         \A i, j \in 1..n : b[i] = b[j] => i = j, \A i \in 1..n : row[b[i]] = -1,
         n <= Len(free_slots),
         row' = [o \in Owners |-> IF \E i \in 1..n : b[i] = o
                   THEN free_slots[CHOOSE i \in 1..n : b[i] = o] ELSE row[o]],
         free_slots' = SubSeq(free_slots, n + 1, Len(free_slots))
  PROVE  RowsOK'
<1> DEFINE R == 0..(NumRows - 1)
           In(o) == \E i \in 1..n : b[i] = o
           at(o) == CHOOSE i \in 1..n : b[i] = o
<1>1. /\ row \in [Owners -> -1..(NumRows - 1)]
      /\ \A o, p \in Owners : o # p /\ row[o] = row[p] => row[o] = -1
      /\ free_slots \in Seq(R) /\ IsInjective(free_slots)
      /\ ToSet(free_slots) = R \ {row[o] : o \in Owners}
      /\ Len(free_slots) \in Nat /\ DOMAIN free_slots = 1..Len(free_slots)
  BY DEF RowsOK
<1>2. \A o \in Owners : In(o) => at(o) \in 1..n /\ b[at(o)] = o
  BY Zenon
<1>3. \A o \in Owners : row'[o] = IF In(o) THEN free_slots[at(o)] ELSE row[o]
  BY Zenon
<1>4. \A i \in 1..n : b[i] \in Owners /\ row'[b[i]] = free_slots[i]
  <2> TAKE i \in 1..n
  <2>1. b[i] \in Owners /\ In(b[i])
    OBVIOUS
  <2>2. at(b[i]) = i
    BY <1>2, <2>1, Zenon
  <2> QED
    BY <1>3, <2>1, <2>2, Zenon
<1>5. \A i \in 1..n : free_slots[i] \in R /\ i \in DOMAIN free_slots
  <2> HIDE DEF R
  <2> TAKE i \in 1..n
  <2>1. i \in 1..Len(free_slots)
    BY <1>1
  <2> QED
    BY <1>1, <2>1
<1>6. NumRows \in Nat /\ R \subseteq -1..(NumRows - 1) /\ -1 \notin R
  BY AllocatorConstants
<1> HIDE DEF R, In, at
<1>7. row' \in [Owners -> -1..(NumRows - 1)]
  <2>1. \A o \in Owners : row'[o] \in -1..(NumRows - 1)
    BY <1>1, <1>2, <1>3, <1>5, <1>6, Zenon
  <2>2. row' = [o \in Owners |-> row'[o]]
    OBVIOUS
  <2> QED
    BY <2>1, <2>2, Zenon
<1>8. /\ free_slots' \in Seq(R) /\ IsInjective(free_slots')
      /\ ToSet(free_slots') = ToSet(free_slots) \ Seg(free_slots, 0, n)
  <2>1. n \in 0..Len(free_slots) /\ Len(free_slots) \in n..Len(free_slots)
    BY <1>1
  <2>2. /\ free_slots' \in Seq(R) /\ IsInjective(free_slots')
        /\ ToSet(free_slots') = Seg(free_slots, n, Len(free_slots))
    <3>1. Pieced(R, free_slots, n, Len(free_slots))
      BY <1>1, <2>1, Piece, Zenon
    <3> QED
      BY <1>1, <3>1, Zenon DEF Pieced
  <2>3. Seg(free_slots, n, Len(free_slots)) = ToSet(free_slots) \ Seg(free_slots, 0, n)
    BY <1>1, <2>1, Cut
  <2> QED
    BY <2>2, <2>3
<1>9. \A x : x \in Seg(free_slots, 0, n) <=> \E i \in 1..n : x = free_slots[i]
  <2>1. (0 + 1)..n = 1..n
    OBVIOUS
  <2> QED
    BY <2>1, Zenon DEF Seg
<1>10. \A o \in Owners : \/ row'[o] \in Seg(free_slots, 0, n) /\ row[o] = -1
                         \/ row'[o] = row[o]
  <2> TAKE o \in Owners
  <2>1. CASE In(o)
    <3>1. at(o) \in 1..n /\ b[at(o)] = o /\ row'[o] = free_slots[at(o)]
      BY <1>2, <1>3, <2>1
    <3> QED
      BY <1>9, <3>1
  <2>2. CASE ~In(o)
    BY <1>3, <2>2
  <2> QED
    BY <2>1, <2>2
<1>11. Seg(free_slots, 0, n) \subseteq ToSet(free_slots)
  BY <1>5, <1>9 DEF ToSet
<1>12. ToSet(free_slots') = R \ {row'[o] : o \in Owners}
  <2>1. ASSUME NEW x \in ToSet(free_slots') PROVE x \in R \ {row'[o] : o \in Owners}
    <3>1. x \in R /\ x \notin Seg(free_slots, 0, n) /\ \A o \in Owners : x # row[o]
      BY <1>1, <1>8, <2>1
    <3>2. \A o \in Owners : x # row'[o]
      <4> TAKE o \in Owners
      <4>1. \/ row'[o] \in Seg(free_slots, 0, n)
            \/ row'[o] = row[o]
        BY <1>10, Zenon
      <4> QED
        BY <3>1, <4>1
    <3> QED
      BY <3>1, <3>2, Zenon
  <2>2. ASSUME NEW x \in R \ {row'[o] : o \in Owners} PROVE x \in ToSet(free_slots')
    <3>1. x \notin Seg(free_slots, 0, n)
      <4> SUFFICES ASSUME x \in Seg(free_slots, 0, n) PROVE FALSE
        OBVIOUS
      <4>1. PICK i \in 1..n : x = free_slots[i]
        BY <1>9, Zenon
      <4>2. b[i] \in Owners /\ x = row'[b[i]]
        BY <1>4, <4>1, Zenon
      <4> QED
        BY <4>2
    <3>2. \A o \in Owners : x # row[o]
      <4> TAKE o \in Owners
      <4>1. CASE row'[o] = row[o]
        BY <4>1, Zenon
      <4>2. CASE row[o] = -1
        BY <1>6, <4>2
      <4> QED
        BY <1>10, <4>1, <4>2
    <3> QED
      BY <1>1, <1>8, <3>1, <3>2
  <2> QED
    BY <2>1, <2>2
<1>13. \A o, p \in Owners : o # p /\ row'[o] = row'[p] => row'[o] = -1
  <2> SUFFICES ASSUME NEW o \in Owners, NEW p \in Owners, o # p, row'[o] = row'[p]
               PROVE  row'[o] = -1
    BY Zenon
  <2>1. CASE In(o) /\ In(p)
    <3>1. /\ at(o) \in 1..n /\ b[at(o)] = o /\ row'[o] = free_slots[at(o)]
          /\ at(p) \in 1..n /\ b[at(p)] = p /\ row'[p] = free_slots[at(p)]
      BY <1>2, <1>3, <2>1
    <3>2. at(o) = at(p)
      BY <1>1, <1>5, <3>1 DEF IsInjective
    <3> QED
      BY <3>1, <3>2
  <2>2. CASE ~In(o) /\ ~In(p)
    <3>1. row'[o] = row[o] /\ row'[p] = row[p]
      BY <1>3, <2>2, Zenon
    <3>2. row[o] = row[p]
      BY <3>1, Zenon
    <3>3. row[o] = -1
      BY <1>1, <3>2, Zenon
    <3> QED
      BY <3>1, <3>3, Zenon
  <2>3. CASE In(o) /\ ~In(p)
    <3>1. row'[o] \in ToSet(free_slots) /\ row'[p] = row[p]
      BY <1>2, <1>3, <1>5, <2>3, Zenon DEF ToSet
    <3> QED
      BY <1>1, <3>1, Zenon
  <2>4. CASE ~In(o) /\ In(p)
    <3>1. row'[p] \in ToSet(free_slots) /\ row'[o] = row[o]
      BY <1>2, <1>3, <1>5, <2>4, Zenon DEF ToSet
    <3> QED
      BY <1>1, <3>1, Zenon
  <2> QED
    BY <2>1, <2>2, <2>3, <2>4
<1> QED
  BY <1>7, <1>8, <1>12, <1>13, Zenon DEF RowsOK, R

\* A row given back goes to the end of the list.
LEMMA RowsReleased ==
  ASSUME RowsOK, NEW o \in Owners, row[o] # -1, row' = [row EXCEPT ![o] = -1],
         free_slots' = Append(free_slots, row[o])
  PROVE  RowsOK'
<1> DEFINE R == 0..(NumRows - 1)
           x == row[o]
<1>1. /\ row \in [Owners -> -1..(NumRows - 1)]
      /\ \A p, q \in Owners : p # q /\ row[p] = row[q] => row[p] = -1
      /\ free_slots \in Seq(R) /\ IsInjective(free_slots)
      /\ ToSet(free_slots) = R \ {row[p] : p \in Owners}
  BY DEF RowsOK
<1>2. NumRows \in Nat
  BY AllocatorConstants
<1>3. x \in R /\ x \notin ToSet(free_slots)
  BY <1>1, <1>2
<1>4. row' \in [Owners -> -1..(NumRows - 1)]
  BY <1>1, <1>2
<1>5. \A p \in Owners : row'[p] = IF p = o THEN -1 ELSE row[p]
  BY <1>1
<1>6. \A p, q \in Owners : p # q /\ row'[p] = row'[q] => row'[p] = -1
  BY <1>1, <1>5
<1>7. -1 \notin R
  OBVIOUS
<1> HIDE DEF x, R
<1>8. free_slots' = free_slots \o <<x>> /\ <<x>> \in Seq(R) /\ IsInjective(<<x>>) /\ ToSet(<<x>>) = {x}
  BY <1>1, <1>3 DEF IsInjective, ToSet, x
<1>9. /\ free_slots' \in Seq(R) /\ IsInjective(free_slots')
      /\ ToSet(free_slots') = ToSet(free_slots) \cup {x}
  <2>1. ToSet(free_slots) \cap ToSet(<<x>>) = {}
    BY <1>3, <1>8
  <2> DEFINE t == <<x>>
             s == free_slots
  <2>2. s \in Seq(R) /\ t \in Seq(R) /\ IsInjective(s) /\ IsInjective(t)
        /\ ToSet(s) \cap ToSet(t) = {}
    BY <1>1, <1>8, <2>1
  <2> HIDE DEF s, t
  <2>3. s \o t \in Seq(R) /\ IsInjective(s \o t) /\ ToSet(s \o t) = ToSet(s) \cup ToSet(t)
    BY <2>2, Joined
  <2> QED
    BY <1>8, <2>3 DEF s, t
<1>10. ToSet(free_slots') = R \ {row'[p] : p \in Owners}
  <2>1. ASSUME NEW y \in ToSet(free_slots) \cup {x}
        PROVE  y \in R \ {row'[p] : p \in Owners}
    <3>1. y \in R
      BY <1>1, <1>3
    <3>2. ASSUME NEW p \in Owners PROVE y # row'[p]
      BY <1>1, <1>3, <1>5, <1>7, <3>1 DEF x
    <3> QED
      BY <3>1, <3>2
  <2>2. ASSUME NEW y \in R \ {row'[p] : p \in Owners} PROVE y \in ToSet(free_slots) \cup {x}
    BY <1>1, <1>5 DEF x
  <2> QED
    BY <1>9, <2>1, <2>2
<1> QED
  BY <1>4, <1>6, <1>9, <1>10 DEF RowsOK, R

\* What both allocating steps do with the pages.
TakesPages ==
  /\ PagesInv(kv', Lists', free_group', in_group')
  /\ Pool!Take

\* A batch served by its kernel takes the pages at the head of the free list, and no other.
LEMMA Taken ==
  ASSUME IInv, ~in_group, UNCHANGED <<conf, free_group, in_group>>,
         NEW n, NEW b, NEW pre, NEW seq, NEW last, BatchOf(kv, n, b, pre, seq, last),
         NEW l, Start(l), NEW f, Counts(n, pre, seq, f), TakeLists(l, Total(f)),
         NEW out, \A i \in 1..n : Served(kv, b, pre, seq, last, l.free, f, out, i),
         Appends(kv, n, b, out, kv')
  PROVE  TakesPages
<1>1. PageSize \in Nat \ {0} /\ NeedSort \in BOOLEAN
  BY AllocatorConstants DEF IInv, PageSize, NeedSort
<1>2. in_group = FALSE /\ in_group' = FALSE /\ free_group' = free_group /\ conf' = conf
  BY DEF IInv
<1>3. PagesInv(kv, Lists, free_group, FALSE)
  BY <1>2, Zenon DEF IInv
<1>4. /\ Total(f) <= Len(l.free)
      /\ Lists' = [free |-> SubSeq(l.free, Total(f) + 1, Len(l.free)), release |-> l.release]
  BY DEF TakeLists, Lists
<1>5. /\ PagesInv(kv', Lists', free_group, FALSE)
      /\ \E got : Grows(kv, kv', got, Seg(l.free, 0, Total(f)))
      /\ Holds(l, Pages \ UsedBy(kv))
  BY <1>1, <1>3, <1>4, Allocates, Zenon
<1> DEFINE P == Seg(l.free, 0, Total(f))
           S == Pages \ UsedBy(kv)
<1>6. PICK got : Grows(kv, kv', got, P)
  BY <1>5
<1>7. Holds(Lists, S)
  BY <1>3, Zenon DEF PagesInv, GroupPages
<1>8. P \in SUBSET S
  <2>1. l.free \in Seq(Pages) /\ ToSet(l.free) \subseteq S /\ Total(f) \in Nat
    <3>1. n \in Nat /\ f \in [1..n -> Nat]
      BY DEF BatchOf, Counts
    <3> QED
      BY <1>5, <3>1, SideBySide DEF Holds
  <2>2. \A i \in (0 + 1)..Total(f) : i \in DOMAIN l.free
    BY <1>4, <2>1
  <2>3. P \subseteq ToSet(l.free)
    BY <2>2 DEF Seg, ToSet
  <2> QED
    BY <2>1, <2>3
<1>9. ToSet(free_pages') \cup ToSet(release_pages') = S \ P
  <2>1. Holds(Lists', Pages \ UsedBy(kv'))
    BY <1>5, Zenon DEF PagesInv, GroupPages
  <2>2. ToSet(free_pages') \cup ToSet(release_pages') = Pages \ UsedBy(kv')
    BY <2>1, Zenon DEF Holds, Lists
  <2>3. Holds(Lists', S \ P)
    <3>1. Total(f) \in 0..Len(l.free)
      <4>1. n \in Nat /\ f \in [1..n -> Nat] /\ l.free \in Seq(Pages)
        BY <1>5 DEF BatchOf, Counts, Holds
      <4>2. Total(f) \in Nat
        BY <4>1, SideBySide
      <4> QED
        BY <1>4, <4>1, <4>2
    <3> HIDE DEF S
    <3> QED
      BY <1>4, <1>5, <3>1, TakeHolds DEF S
  <2> QED
    BY <2>3 DEF Holds, Lists
<1> HIDE DEF P, S
<1>10. Pool!Take
  BY <1>2, <1>6, <1>7, <1>8, <1>9, TakesFromPool
<1> QED
  BY <1>2, <1>5, <1>10, Zenon DEF TakesPages

\* alloc_for_extend.
LEMMA ExtendStep ==
  ASSUME IInv, Extend
  PROVE  IInv' /\ Pool!Take
<1>1. PageSize \in Nat \ {0} /\ kv \in [Owners -> Seq(Slots)] /\ RowsOK
  BY AllocatorConstants DEF IInv, PageSize, PagesInv, KvInv
<1>2. ~in_group /\ UNCHANGED <<conf, free_group, in_group>>
  BY DEF Extend
<1> DEFINE S == {o \in Owners : row[o] = -1}
<1>3a. PICK b \in Batches(S) : \E seq \in Lengths(b) :
        /\ Len(b) <= Len(free_slots)
        /\ row' = [o \in Owners |-> IF \E i \in DOMAIN b : b[i] = o
                     THEN free_slots[CHOOSE i \in DOMAIN b : b[i] = o] ELSE row[o]]
        /\ free_slots' = SubSeq(free_slots, Len(b) + 1, Len(free_slots))
        /\ TakeLists(ExtendLists(Lists, Pre(b), seq), ExtendPages(Pre(b), seq))
        /\ kv' = ExtendOut(b, seq, ExtendLists(Lists, Pre(b), seq))
  BY Zenon DEF Extend
<1>3. PICK seq \in Lengths(b) :
        /\ Len(b) <= Len(free_slots)
        /\ row' = [o \in Owners |-> IF \E i \in DOMAIN b : b[i] = o
                     THEN free_slots[CHOOSE i \in DOMAIN b : b[i] = o] ELSE row[o]]
        /\ free_slots' = SubSeq(free_slots, Len(b) + 1, Len(free_slots))
        /\ TakeLists(ExtendLists(Lists, Pre(b), seq), ExtendPages(Pre(b), seq))
        /\ kv' = ExtendOut(b, seq, ExtendLists(Lists, Pre(b), seq))
  BY <1>3a
<1>4. PICK n \in Nat :
        /\ DOMAIN b = 1..n /\ Len(b) = n /\ b \in [1..n -> Owners]
        /\ \A i, j \in 1..n : b[i] = b[j] => i = j
        /\ \A i \in 1..n : b[i] \in S
        /\ \A sq : (sq \in [1..n -> Nat] /\ \A i \in 1..n : Len(kv[b[i]]) < sq[i])
                      => BatchOf(kv, n, b, Pre(b), sq, LastLoc(b))
  <2> HIDE DEF S
  <2>1. S \in SUBSET Owners
    BY DEF S
  <2> QED
    BY <1>1, <2>1, BatchesAre, Zenon
<1>5. RowsOK'
  <2>1. \A i \in 1..n : row[b[i]] = -1
    BY <1>4
  <2>2. /\ row' = [o \in Owners |-> IF \E i \in 1..n : b[i] = o
                    THEN free_slots[CHOOSE i \in 1..n : b[i] = o] ELSE row[o]]
        /\ free_slots' = SubSeq(free_slots, n + 1, Len(free_slots))
        /\ n <= Len(free_slots)
    BY <1>3, <1>4
  <2>3. b \in [1..n -> Owners] /\ \A i, j \in 1..n : b[i] = b[j] => i = j
    BY <1>4
  <2> QED
    BY <1>1, <2>1, <2>2, <2>3, RowsTaken, Zenon
<1>6. seq \in [1..n -> Nat] /\ \A i \in 1..n : Len(kv[b[i]]) < seq[i]
  <2>1. seq \in [1..n -> 1..MaxLen] /\ \A i \in 1..n : seq[i] > Len(kv[b[i]])
    BY <1>4 DEF Lengths
  <2>2. MaxLen \in Nat
    BY AllocatorConstants DEF IInv, MaxLen
  <2>3. \A i \in 1..n : Len(kv[b[i]]) \in Nat
    BY <1>1, <1>4
  <2> QED
    BY <2>1, <2>2, <2>3
<1> DEFINE pre == Pre(b)
           last == LastLoc(b)
           l == ExtendLists(Lists, pre, seq)
           f == [i \in 1..n |-> NewPages(pre, seq, i)]
           out == [i \in 1..n |-> ExtendKernel(pre, seq, last, l.free, i)]
<1>7. BatchOf(kv, n, b, pre, seq, last)
  BY <1>4, <1>6, Zenon
<1>8. Counts(n, pre, seq, f)
  BY <1>1, <1>7, CountsIs
<1>9. DOMAIN pre = 1..n
  BY <1>4 DEF Pre
<1>10. Start(l)
  BY DEF Start, ExtendLists
<1>11. ExtendPages(pre, seq) = Total(f)
  BY <1>9 DEF ExtendPages
<1>12. Appends(kv, n, b, out, kv')
  BY <1>3, <1>4 DEF Appends, ExtendOut, Appended
<1>13. TakeLists(l, Total(f))
  BY <1>3, <1>11
<1>14. \A i \in 1..n : out[i] = ExtendKernel(pre, seq, last, l.free, i)
  OBVIOUS
<1>15. f = [j \in DOMAIN pre |-> NewPages(pre, seq, j)]
  BY <1>9
<1> HIDE DEF pre, last, l, f, out
<1>16. \A i \in 1..n : Served(kv, b, pre, seq, last, l.free, f, out, i)
  <2> SUFFICES ASSUME NEW i \in 1..n, NEW g,
                      Share(kv[b[i]], g, pre, seq, last, l.free, Before(f, i), i)
               PROVE  out[i] = [x \in 1..(seq[i] - Len(kv[b[i]])) |->
                                  Filled(Longer(g, pre, seq, l.free, Before(f, i), i),
                                         Len(kv[b[i]]) + x - 1)]
    BY Zenon DEF Served
  <2>1. StartsAt(Before(f, i), pre, seq, i)
    BY <1>15 DEF StartsAt
  <2>2. FilledTo(ExtendKernel(pre, seq, last, l.free, i), kv[b[i]], seq[i],
                 Longer(g, pre, seq, l.free, Before(f, i), i))
    BY <1>1, <2>1, ExtendFills
  <2> QED
    BY <1>14, <2>2 DEF FilledTo
<1>17. TakesPages
  BY <1>2, <1>7, <1>8, <1>10, <1>12, <1>13, <1>16, Taken
<1>18. PagesInv(kv, Lists, free_group, in_group)' /\ Pool!Take
  BY <1>2, <1>17, SameConf DEF TakesPages
<1> QED
  BY <1>2, <1>5, <1>18 DEF IInv

\* alloc_for_decode.
LEMMA DecodeStep ==
  ASSUME IInv, Decode
  PROVE  IInv' /\ Pool!Take
<1>1. PageSize \in Nat \ {0} /\ kv \in [Owners -> Seq(Slots)] /\ RowsOK
  BY AllocatorConstants DEF IInv, PageSize, PagesInv, KvInv
<1>2. ~in_group /\ UNCHANGED <<conf, free_group, in_group, free_slots, row>>
  BY DEF Decode
<1> DEFINE S == {o \in Owners : row[o] # -1 /\ Len(kv[o]) < MaxLen}
<1>3. PICK b \in Batches(S) :
        /\ TakeLists(DecodeLists(Lists, DecodeSeq(b)), DecodePages(DecodeSeq(b)))
        /\ kv' = DecodeOut(b, DecodeLists(Lists, DecodeSeq(b)))
  BY Zenon DEF Decode
<1>4. PICK n \in Nat :
        /\ DOMAIN b = 1..n /\ Len(b) = n /\ b \in [1..n -> Owners]
        /\ \A i, j \in 1..n : b[i] = b[j] => i = j
        /\ \A i \in 1..n : b[i] \in S
        /\ \A sq : (sq \in [1..n -> Nat] /\ \A i \in 1..n : Len(kv[b[i]]) < sq[i])
                      => BatchOf(kv, n, b, Pre(b), sq, LastLoc(b))
  <2> HIDE DEF S
  <2>1. S \in SUBSET Owners
    BY DEF S
  <2> QED
    BY <1>1, <2>1, BatchesAre, Zenon
<1> DEFINE pre == Pre(b)
           seq == DecodeSeq(b)
           last == LastLoc(b)
           l == DecodeLists(Lists, seq)
           f == [i \in 1..n |-> NewPages(pre, seq, i)]
           out == [i \in 1..n |-> DecodeKernel(seq, last, l.free, i)]
<1>5. \A i \in 1..n : Len(kv[b[i]]) \in Nat
  BY <1>1, <1>4
<1>6. /\ seq \in [1..n -> Nat] /\ \A i \in 1..n : Len(kv[b[i]]) < seq[i]
      /\ \A i \in 1..n : seq[i] = pre[i] + 1 /\ seq[i] = Len(kv[b[i]]) + 1
      /\ OneLess(pre, seq)
  BY <1>4, <1>5 DEF DecodeSeq, Pre, OneLess
<1>7. BatchOf(kv, n, b, pre, seq, last)
  BY <1>4, <1>6, Zenon
<1>8. Counts(n, pre, seq, f)
  BY <1>1, <1>7, CountsIs
<1>9. DOMAIN pre = 1..n
  BY <1>4 DEF Pre
<1>10. Start(l)
  BY DEF Start, DecodeLists
<1>12. Appends(kv, n, b, out, kv')
  BY <1>3, <1>4 DEF Appends, DecodeOut, Appended
<1>14. \A i \in 1..n : out[i] = DecodeKernel(seq, last, l.free, i)
  OBVIOUS
<1>15. f = [j \in DOMAIN pre |-> NewPages(pre, seq, j)]
  BY <1>9
<1>11. TakeLists(l, DecodePages(seq))
  BY <1>3
<1> HIDE DEF pre, last, l, f, out, seq
<1>13. TakeLists(l, Total(f))
  <2>1. DecodePages(seq) = Total(f)
    BY <1>1, <1>6, <1>7, <1>8, DecodeCount
  <2> QED
    BY <1>11, <2>1
<1>16. \A i \in 1..n : Served(kv, b, pre, seq, last, l.free, f, out, i)
  <2> SUFFICES ASSUME NEW i \in 1..n, NEW g,
                      Share(kv[b[i]], g, pre, seq, last, l.free, Before(f, i), i)
               PROVE  out[i] = [x \in 1..(seq[i] - Len(kv[b[i]])) |->
                                  Filled(Longer(g, pre, seq, l.free, Before(f, i), i),
                                         Len(kv[b[i]]) + x - 1)]
    BY Zenon DEF Served
  <2>1. StartsAt(Before(f, i), pre, seq, i) /\ OneLess(pre, seq) /\ seq[i] = Len(kv[b[i]]) + 1
    BY <1>6, <1>15 DEF StartsAt
  <2>2. FilledTo(DecodeKernel(seq, last, l.free, i), kv[b[i]], seq[i],
                 Longer(g, pre, seq, l.free, Before(f, i), i))
    BY <1>1, <2>1, DecodeFills
  <2> QED
    BY <1>14, <2>2 DEF FilledTo
<1>17. TakesPages
  BY <1>2, <1>7, <1>8, <1>10, <1>12, <1>13, <1>16, Taken
<1>18. PagesInv(kv, Lists, free_group, in_group)' /\ Pool!Take
  BY <1>2, <1>17, SameConf DEF TakesPages
<1>19. RowsOK'
  BY <1>1, <1>2 DEF RowsOK
<1> QED
  BY <1>2, <1>18, <1>19 DEF IInv
-----------------------------------------------------------------------------
(* Giving back.                                                            *)

\* A request without tokens.
LEMMA NoSlots ==
  /\ <<>> \in Seq(Slots) /\ IsInjective(<<>>) /\ PagesOf(<<>>) = {}
  /\ PageSize \in Nat \ {0} => \E g \in Seq(Pages) : BlockTable(<<>>, g)
<1>1. <<>> \in Seq(Slots)
  OBVIOUS
<1>2. IsInjective(<<>>)
  BY DEF IsInjective
<1>3. PagesOf(<<>>) = {}
  BY DEF PagesOf
<1>4. ASSUME PageSize \in Nat \ {0}
      PROVE  \E g \in Seq(Pages) : BlockTable(<<>>, g)
  <2>1. 0 % PageSize = 0 /\ 0 \div PageSize = 0
    <3>1. (0 * PageSize + 0) \div PageSize = 0 /\ (0 * PageSize + 0) % PageSize = 0
      BY <1>4, DivIs
    <3>2. 0 * PageSize + 0 = 0
      BY <1>4
    <3> QED
      BY <3>1, <3>2, Zenon
  <2>2. Ceil(0) = 0
    BY <1>4, <2>1, CeilIs
  <2>3. BlockTable(<<>>, <<>>) /\ <<>> \in Seq(Pages)
    BY <2>2 DEF BlockTable, IsInjective
  <2> QED
    BY <2>3, Zenon
<1> QED
  BY <1>1, <1>2, <1>3, <1>4

\* Slots of different pages, one list after the other.
LEMMA JoinedPages ==
  ASSUME NEW s \in Seq(Slots), NEW t \in Seq(Slots), IsInjective(s), IsInjective(t),
         Apart(PagesOf(s), PagesOf(t))
  PROVE  /\ s \o t \in Seq(Slots) /\ IsInjective(s \o t)
         /\ PagesOf(s \o t) = PagesOf(s) \cup PagesOf(t)
<1>1. \A u \in Seq(Slots) : PagesOf(u) = {Page(x) : x \in ToSet(u)}
  BY DEF PagesOf, ToSet
<1>2. /\ s \o t \in Seq(Slots)
      /\ ToSet(s \o t) = ToSet(s) \cup ToSet(t)
      /\ (IsInjective(s) /\ IsInjective(t) /\ ToSet(s) \cap ToSet(t) = {})
              => IsInjective(s \o t)
  BY Joined
<1>3. ToSet(s) \cap ToSet(t) = {}
  <2> SUFFICES ASSUME NEW x, x \in ToSet(s), x \in ToSet(t)
               PROVE  FALSE
    OBVIOUS
  <2>1. Page(x) \in PagesOf(s) /\ Page(x) \in PagesOf(t)
    BY <1>1
  <2> QED
    BY <2>1 DEF Apart
<1> QED
  BY <1>1, <1>2, <1>3, Zenon

\* A request without KV: its pages go to the lists or to the group.
Empties(k, kn, o) == kn = [k EXCEPT ![o] = <<>>]
HasEmptied(k, kn, G, o) ==
  /\ KvInv(kn, G) /\ KvInv(kn, G \cup PagesOf(k[o]))
  /\ Pages \ (UsedBy(kn) \cup G) = (Pages \ (UsedBy(k) \cup G)) \cup PagesOf(k[o])
  /\ Pages \ (UsedBy(kn) \cup (G \cup PagesOf(k[o]))) = Pages \ (UsedBy(k) \cup G)
  /\ PagesOf(kn[o]) = {} /\ \A p \in Owners : p # o => kn[p] = k[p]

\* One request gives all its slots up, the others keep theirs.
LEMMA Emptied ==
  ASSUME PageSize \in Nat \ {0}, NEW k, NEW G, KvInv(k, G), NEW o \in Owners,
         NEW kn, Empties(k, kn, o)
  PROVE  HasEmptied(k, kn, G, o)
<1>1. /\ k \in [Owners -> Seq(Slots)] /\ \A p \in Owners : \E g \in Seq(Pages) : BlockTable(k[p], g)
      /\ \A p, q \in Owners : p # q => PagesOf(k[p]) \cap PagesOf(k[q]) = {}
      /\ \A p \in Owners : PagesOf(k[p]) \cap G = {}
  BY DEF KvInv
<1>2. kn \in [Owners -> Seq(Slots)] /\ kn[o] = <<>> /\ \A p \in Owners : p # o => kn[p] = k[p]
  BY <1>1 DEF Empties
<1>3. PagesOf(kn[o]) = {} /\ PagesOf(k[o]) \in SUBSET Pages
  BY <1>1, <1>2, PagesOfIs
<1>4. \E g \in Seq(Pages) : BlockTable(kn[o], g)
  BY <1>2, NoSlots
<1>5. \A p \in Owners : \E g \in Seq(Pages) : BlockTable(kn[p], g)
  BY <1>1, <1>2, <1>4, Zenon
<1>6. \A p \in Owners : PagesOf(kn[p]) = IF p = o THEN {} ELSE PagesOf(k[p])
  BY <1>2, <1>3
<1>7. UsedBy(k) = UsedBy(kn) \cup PagesOf(k[o])
  BY <1>6 DEF UsedBy
<1>8. UsedBy(kn) \cap PagesOf(k[o]) = {}
  BY <1>1, <1>6 DEF UsedBy
<1>9. \A p, q \in Owners : p # q => PagesOf(kn[p]) \cap PagesOf(kn[q]) = {}
  BY <1>1, <1>6
<1>10. \A p \in Owners : PagesOf(kn[p]) \cap (G \cup PagesOf(k[o])) = {}
  BY <1>1, <1>6
<1>11. KvInv(kn, G) /\ KvInv(kn, G \cup PagesOf(k[o]))
  BY <1>2, <1>5, <1>9, <1>10 DEF KvInv
<1>12. PagesOf(k[o]) \cap G = {}
  BY <1>1
<1> HIDE DEF UsedBy
<1> QED
  BY <1>2, <1>3, <1>7, <1>8, <1>11, <1>12 DEF HasEmptied

\* Seen from the pool, the owner gives up all its pages.
LEMMA GivesToPool ==
  ASSUME conf' = conf, NEW o \in Owners, kv \in [Owners -> Seq(Slots)],
         PagesOf(kv'[o]) = {}, \A p \in Owners : p # o => kv'[p] = kv[p],
         \/ /\ ToSet(free_pages') \cup ToSet(release_pages')
                 = (ToSet(free_pages) \cup ToSet(release_pages)) \cup PagesOf(kv[o])
            /\ GroupPages(free_group', in_group') = GroupPages(free_group, in_group)
         \/ /\ GroupPages(free_group', in_group')
                 = GroupPages(free_group, in_group) \cup PagesOf(kv[o])
            /\ UNCHANGED lists
  PROVE  Pool!Give(o)
<1> DEFINE held == [p \in Owners |-> PagesOf(kv[p])]
<1>1. /\ \A p \in Owners : PagesOf(kv[p])' = PagesOf(kv'[p])
      /\ Grouped' = GroupPages(free_group', in_group')
      /\ Grouped = GroupPages(free_group, in_group)
  BY SameConf DEF Grouped, GroupPages
<1>2. held' = [held EXCEPT ![o] = {}]
  BY <1>1, Zenon
<1>3. \/ /\ (ToSet(free_pages) \cup ToSet(release_pages))'
              = (ToSet(free_pages) \cup ToSet(release_pages)) \cup held[o]
         /\ UNCHANGED Grouped
      \/ /\ Grouped' = Grouped \cup held[o]
         /\ UNCHANGED (ToSet(free_pages) \cup ToSet(release_pages))
  BY <1>1, Zenon DEF ToSet, lists
<1> QED
  BY <1>2, <1>3 DEF Pool!Give

\* get_next_batch_to_run gives the row of a chunked request back.
LEMMA ReleaseRowStep ==
  ASSUME IInv, NEW o \in Owners, ReleaseRow(o)
  PROVE  IInv' /\ UNCHANGED Pool!poolvars
<1>1. /\ UNCHANGED <<conf, free_pages, release_pages, free_group, in_group, kv>>
      /\ row[o] # -1 /\ row' = [row EXCEPT ![o] = -1] /\ free_slots' = Append(free_slots, row[o])
  BY DEF ReleaseRow, lists
<1>2. RowsOK'
  BY <1>1, RowsReleased, Zenon DEF IInv
<1>3. PagesInv(kv, Lists, free_group, in_group)'
  BY <1>1, SameConf DEF IInv, Lists
<1>4. UNCHANGED Pool!poolvars
  BY <1>1 DEF Pool!poolvars, Grouped, PagesOf, Page, PageSize, ToSet
<1> QED
  BY <1>1, <1>2, <1>3, <1>4 DEF IInv

\* cache_finished_req outside a group: two frees, each of whole pages.
LEMMA ReleaseNow ==
  ASSUME IInv, NEW o \in Owners, Release(o), ~in_group
  PROVE  PagesInv(kv', Lists', free_group', in_group') /\ Pool!Give(o)
<1>1. PageSize \in Nat \ {0} /\ NeedSort \in BOOLEAN
  BY AllocatorConstants DEF IInv, PageSize, NeedSort
<1>2. PICK c \in 0..Len(kv[o]) :
        /\ c % PageSize = 0
        /\ LET l == Freed(Freed(Lists, SubSeq(kv[o], 1, c)), SubSeq(kv[o], c + 1, Len(kv[o])))
           IN  free_pages' = l.free /\ release_pages' = l.release
        /\ UNCHANGED free_group
  BY DEF Release
<1>3. conf' = conf /\ in_group = FALSE /\ in_group' = FALSE /\ kv' = [kv EXCEPT ![o] = <<>>]
  BY DEF Release, IInv
<1> DEFINE G == GroupPages(free_group, FALSE)
           S == Pages \ (UsedBy(kv) \cup G)
           P == PagesOf(kv[o])
<1>4. /\ KvInv(kv, G) /\ Holds(Lists, S) /\ (NeedSort \/ release_pages = <<>>)
      /\ free_group \in Seq(Slots)
  BY <1>3, Zenon DEF IInv, PagesInv, Lists
<1>5. PICK g \in Seq(Pages) : BlockTable(kv[o], g)
  BY <1>4 DEF KvInv
<1>6. kv \in [Owners -> Seq(Slots)] /\ kv[o] \in Seq(Slots)
  BY <1>4 DEF KvInv
<1> DEFINE head == SubSeq(kv[o], 1, c)
           tail == SubSeq(kv[o], c + 1, Len(kv[o]))
           l1 == Freed(Lists, head)
           l2 == Freed(l1, tail)
<1>7. /\ head \in Seq(Slots) /\ IsInjective(head)
      /\ tail \in Seq(Slots) /\ IsInjective(tail)
      /\ PagesOf(head) \cap PagesOf(tail) = {}
      /\ P = PagesOf(head) \cup PagesOf(tail)
  BY <1>1, <1>2, <1>5, <1>6, CutTable
<1>8. P \subseteq UsedBy(kv)
  BY DEF UsedBy
<1>9. /\ KvInv(kv', G)
      /\ Pages \ (UsedBy(kv') \cup G) = S \cup P
      /\ PagesOf(kv'[o]) = {} /\ \A p \in Owners : p # o => kv'[p] = kv[p]
  <2> HIDE DEF G
  <2>1. Empties(kv, kv', o)
    BY <1>3 DEF Empties
  <2>2. HasEmptied(kv, kv', G, o)
    BY <1>1, <1>4, <2>1, Emptied
  <2> QED
    BY <2>2 DEF HasEmptied
<1>10. PagesOf(head) \cap S = {} /\ PagesOf(tail) \cap (S \cup PagesOf(head)) = {}
  <2> HIDE DEF P, head, tail, G
  <2> QED
    BY <1>7, <1>8
<1>11. free_pages' = l2.free /\ release_pages' = l2.release
  BY <1>2
<1> HIDE DEF G, S, P, head, tail
<1>12. /\ Holds(l1, S \cup PagesOf(head))
       /\ NeedSort \/ l1.release = Lists.release
  BY <1>1, <1>4, <1>7, <1>10, FreedHolds
<1> HIDE DEF l1
<1>13. /\ Holds(l2, (S \cup PagesOf(head)) \cup PagesOf(tail))
       /\ NeedSort \/ l2.release = l1.release
  BY <1>1, <1>7, <1>10, <1>12, FreedHolds
<1> HIDE DEF l2
<1>14. Holds(l2, S \cup P)
  <2>1. (S \cup PagesOf(head)) \cup PagesOf(tail) = S \cup P
    BY <1>7
  <2> QED
    BY <1>13, <2>1, Zenon
<1>15. Lists' = l2
  <2>1. l2 \in [free : Seq(Pages), release : Seq(Pages)]
    BY <1>14 DEF Holds
  <2> QED
    BY <1>11, <2>1 DEF Lists
<1>16. NeedSort \/ l2.release = <<>>
  BY <1>4, <1>12, <1>13 DEF Lists
<1>17. PagesInv(kv', Lists', free_group', in_group')
  <2>1. GroupPages(free_group, FALSE) = G
    BY DEF G
  <2>2. PagesInv(kv', l2, free_group, FALSE)
    BY <1>4, <1>9, <1>14, <1>16, <2>1, Zenon DEF PagesInv
  <2> QED
    BY <1>2, <1>3, <1>15, <2>2, Zenon
<1>18. ToSet(free_pages') \cup ToSet(release_pages')
         = (ToSet(free_pages) \cup ToSet(release_pages)) \cup PagesOf(kv[o])
  <2>1. S = ToSet(free_pages) \cup ToSet(release_pages)
    BY <1>4 DEF Holds, Lists
  <2>2. S \cup P = ToSet(free_pages') \cup ToSet(release_pages')
    BY <1>11, <1>14 DEF Holds
  <2> QED
    BY <2>1, <2>2 DEF P
<1>19. GroupPages(free_group', in_group') = GroupPages(free_group, in_group)
  BY <1>2, <1>3, Zenon
<1>20. Pool!Give(o)
  BY <1>3, <1>6, <1>9, <1>18, <1>19, GivesToPool
<1> QED
  BY <1>17, <1>20

\* cache_finished_req inside a group: the slots wait in free_group.
LEMMA ReleaseLater ==
  ASSUME IInv, NEW o \in Owners, Release(o), in_group
  PROVE  PagesInv(kv', Lists', free_group', in_group') /\ Pool!Give(o)
<1>1. PageSize \in Nat \ {0} /\ NeedSort \in BOOLEAN
  BY AllocatorConstants DEF IInv, PageSize, NeedSort
<1>2. PICK c \in 0..Len(kv[o]) :
        /\ c % PageSize = 0
        /\ free_group' = free_group \o SubSeq(kv[o], 1, c) \o SubSeq(kv[o], c + 1, Len(kv[o]))
        /\ UNCHANGED lists
  BY Zenon DEF Release
<1>3. conf' = conf /\ in_group = TRUE /\ in_group' = TRUE /\ kv' = [kv EXCEPT ![o] = <<>>]
  BY DEF Release, IInv
<1> DEFINE G == PagesOf(free_group)
           S == Pages \ (UsedBy(kv) \cup G)
           P == PagesOf(kv[o])
<1>4. /\ KvInv(kv, G) /\ Holds(Lists, S) /\ (NeedSort \/ Lists.release = <<>>)
      /\ free_group \in Seq(Slots) /\ IsInjective(free_group)
  BY <1>3 DEF IInv, PagesInv, GroupPages
<1>5. PICK g \in Seq(Pages) : BlockTable(kv[o], g)
  BY <1>4 DEF KvInv
<1>6. kv \in [Owners -> Seq(Slots)] /\ kv[o] \in Seq(Slots) /\ P \cap G = {}
  BY <1>4 DEF KvInv
<1> DEFINE head == SubSeq(kv[o], 1, c)
           tail == SubSeq(kv[o], c + 1, Len(kv[o]))
           fg == (free_group \o head) \o tail
<1>7. /\ head \in Seq(Slots) /\ IsInjective(head)
      /\ tail \in Seq(Slots) /\ IsInjective(tail)
      /\ PagesOf(head) \cap PagesOf(tail) = {}
      /\ P = PagesOf(head) \cup PagesOf(tail)
  BY <1>1, <1>2, <1>5, <1>6, CutTable
<1>8. /\ KvInv(kv', G \cup P)
      /\ Pages \ (UsedBy(kv') \cup (G \cup P)) = S
      /\ PagesOf(kv'[o]) = {} /\ \A p \in Owners : p # o => kv'[p] = kv[p]
  <2> HIDE DEF G
  <2>1. Empties(kv, kv', o)
    BY <1>3 DEF Empties
  <2>2. HasEmptied(kv, kv', G, o)
    BY <1>1, <1>4, <2>1, Emptied
  <2> QED
    BY <2>2 DEF HasEmptied
<1>9. free_group' = fg
  BY <1>2
<1> HIDE DEF S, P, head, tail
<1>10. Apart(PagesOf(free_group), PagesOf(head))
  BY <1>6, <1>7 DEF Apart
<1>11. /\ free_group \o head \in Seq(Slots) /\ IsInjective(free_group \o head)
       /\ PagesOf(free_group \o head) = G \cup PagesOf(head)
  BY <1>4, <1>7, <1>10, JoinedPages
<1>12. Apart(PagesOf(free_group \o head), PagesOf(tail))
  BY <1>6, <1>7, <1>11 DEF Apart
<1>13. /\ fg \in Seq(Slots) /\ IsInjective(fg)
       /\ PagesOf(fg) = PagesOf(free_group \o head) \cup PagesOf(tail)
  BY <1>7, <1>11, <1>12, JoinedPages, Zenon
<1> HIDE DEF G, fg
<1>14. PagesOf(fg) = G \cup P
  BY <1>7, <1>11, <1>13
<1>15. PagesInv(kv', Lists', free_group', in_group')
  <2>1. Lists' = Lists
    BY <1>2 DEF Lists, lists
  <2>2. GroupPages(fg, TRUE) = G \cup P
    BY <1>14 DEF GroupPages
  <2>3. Holds(Lists, Pages \ (UsedBy(kv') \cup GroupPages(fg, TRUE))) /\ KvInv(kv', GroupPages(fg, TRUE))
    BY <1>4, <1>8, <2>2, Zenon
  <2>4. PagesInv(kv', Lists, fg, TRUE)
    BY <1>4, <1>13, <2>3, Zenon DEF PagesInv
  <2> QED
    BY <1>3, <1>9, <2>1, <2>4, Zenon
<1>16. GroupPages(free_group', in_group') = GroupPages(free_group, in_group) \cup PagesOf(kv[o])
  BY <1>3, <1>9, <1>14 DEF GroupPages, G, P
<1>17. Pool!Give(o)
  BY <1>2, <1>3, <1>6, <1>8, <1>16, GivesToPool, Zenon
<1> QED
  BY <1>15, <1>17

\* cache_finished_req gives the pages of one request back, at once or to the group.
LEMMA ReleaseStep ==
  ASSUME IInv, NEW o \in Owners, Release(o)
  PROVE  IInv' /\ Pool!Give(o)
<1>1. /\ UNCHANGED <<conf, in_group>>
      /\ row[o] # -1 /\ row' = [row EXCEPT ![o] = -1] /\ free_slots' = Append(free_slots, row[o])
  BY DEF Release
<1>2. RowsOK'
  BY <1>1, RowsReleased, Zenon DEF IInv
<1>3. PagesInv(kv', Lists', free_group', in_group') /\ Pool!Give(o)
  BY ReleaseNow, ReleaseLater
<1>4. PagesInv(kv, Lists, free_group, in_group)'
  BY <1>1, <1>3, SameConf
<1> QED
  BY <1>1, <1>2, <1>3, <1>4 DEF IInv

\* free_group_begin: nothing waits yet.
LEMMA BeginStep ==
  ASSUME IInv, free_group_begin
  PROVE  IInv' /\ UNCHANGED Pool!poolvars
<1>1. /\ UNCHANGED <<conf, free_pages, release_pages, free_slots, kv, row>>
      /\ in_group = FALSE /\ in_group' = TRUE /\ free_group' = <<>>
  BY DEF free_group_begin, lists, IInv
<1>2. PageSize \in Nat \ {0}
  BY AllocatorConstants DEF IInv, PageSize
<1>3. <<>> \in Seq(Slots) /\ IsInjective(<<>>) /\ PagesOf(<<>>) = {}
  BY NoSlots
<1>4. GroupPages(free_group, FALSE) = {} /\ GroupPages(<<>>, TRUE) = {}
  BY <1>3 DEF GroupPages
<1>5. PagesInv(kv, Lists, <<>>, TRUE)
  <2>1. PagesInv(kv, Lists, free_group, FALSE)
    BY <1>1, Zenon DEF IInv
  <2>2. /\ Holds(Lists, Pages \ (UsedBy(kv) \cup GroupPages(<<>>, TRUE)))
        /\ NeedSort \/ Lists.release = <<>>
        /\ KvInv(kv, GroupPages(<<>>, TRUE))
    BY <1>4, <2>1, Zenon DEF PagesInv
  <2> QED
    BY <1>3, <2>2, Zenon DEF PagesInv
<1>6. PagesInv(kv, Lists, free_group, in_group)'
  BY <1>1, <1>5, SameConf, Zenon DEF Lists
<1>7. RowsOK'
  BY <1>1 DEF IInv, RowsOK
<1>8. UNCHANGED Pool!poolvars
  <2>1. Grouped = {} /\ Grouped' = {}
    BY <1>1, <1>4, SameConf, Zenon DEF Grouped
  <2> QED
    BY <1>1, <2>1 DEF Pool!poolvars, PagesOf, Page, PageSize, ToSet
<1> QED
  BY <1>1, <1>6, <1>7, <1>8, Zenon DEF IInv

\* free_group_end: one free for all the slots that waited.
LEMMA EndStep ==
  ASSUME IInv, free_group_end
  PROVE  IInv' /\ Pool!Settle
<1> DEFINE l == Freed(Lists, free_group)
           G == PagesOf(free_group)
           S == Pages \ (UsedBy(kv) \cup G)
<1>1. /\ UNCHANGED <<conf, free_group, free_slots, kv, row>>
      /\ in_group = TRUE /\ in_group' = FALSE
      /\ free_pages' = l.free /\ release_pages' = l.release
  BY DEF free_group_end, IInv
<1>2. PageSize \in Nat \ {0} /\ NeedSort \in BOOLEAN
  BY AllocatorConstants DEF IInv, PageSize, NeedSort
<1>3. /\ KvInv(kv, G) /\ Holds(Lists, S) /\ (NeedSort \/ Lists.release = <<>>)
      /\ free_group \in Seq(Slots) /\ IsInjective(free_group)
  BY <1>1 DEF IInv, PagesInv, GroupPages
<1>4. G \cap S = {} /\ S \cup G = Pages \ UsedBy(kv)
  <2>1. G \in SUBSET Pages
    BY <1>2, <1>3, PagesOfIs
  <2>2. UsedBy(kv) \cap G = {}
    BY <1>3 DEF KvInv, UsedBy
  <2> HIDE DEF G
  <2> QED
    BY <2>1, <2>2
<1> HIDE DEF S
<1>5. Holds(l, S \cup G) /\ (NeedSort \/ l.release = Lists.release)
  BY <1>2, <1>3, <1>4, FreedHolds
<1> HIDE DEF l, G
<1>6. Lists' = l
  <2>1. l \in [free : Seq(Pages), release : Seq(Pages)]
    BY <1>5 DEF Holds
  <2> QED
    BY <1>1, <2>1 DEF Lists
<1>7. PagesInv(kv, l, free_group, FALSE)
  <2>1. GroupPages(free_group, FALSE) = {}
    BY DEF GroupPages
  <2>2. KvInv(kv, {})
    BY <1>3 DEF KvInv
  <2>3. Pages \ (UsedBy(kv) \cup {}) = S \cup G
    BY <1>4
  <2> QED
    BY <1>3, <1>5, <2>1, <2>2, <2>3, Zenon DEF PagesInv
<1>8. PagesInv(kv, Lists, free_group, in_group)'
  BY <1>1, <1>6, <1>7, SameConf, Zenon
<1>9. RowsOK'
  BY <1>1 DEF IInv, RowsOK
<1>10. Pool!Settle
  <2>1. Grouped = G /\ Grouped' = {}
    BY <1>1, SameConf DEF Grouped, GroupPages, G
  <2>2. S = ToSet(free_pages) \cup ToSet(release_pages)
    BY <1>3 DEF Holds, Lists
  <2>3. S \cup G = ToSet(free_pages') \cup ToSet(release_pages')
    BY <1>1, <1>5 DEF Holds
  <2>4. (ToSet(free_pages) \cup ToSet(release_pages))'
          = (ToSet(free_pages) \cup ToSet(release_pages)) \cup Grouped
    BY <2>1, <2>2, <2>3 DEF ToSet
  <2>5. UNCHANGED [o \in Owners |-> PagesOf(kv[o])]
    BY <1>1 DEF PagesOf, Page, PageSize
  <2> QED
    BY <2>1, <2>4, <2>5 DEF Pool!Settle
<1> QED
  BY <1>1, <1>8, <1>9, <1>10, Zenon DEF IInv

\* clear() leaves every page and every row free.
LEMMA FreshLists ==
  Holds([free |-> [i \in 1..NumPages |-> i], release |-> <<>>], Pages)
<1> DEFINE s == [i \in 1..NumPages |-> i]
<1>1. NumPages \in Nat /\ s \in [1..NumPages -> Pages]
  BY AllocatorConstants DEF Pages
<1>2. s \in Seq(Pages) /\ DOMAIN s = 1..NumPages
  BY <1>1
<1>3. ToSet(s) = Pages /\ IsInjective(s)
  BY <1>2 DEF ToSet, IsInjective, Pages
<1>4. <<>> \in Seq(Pages) /\ IsInjective(<<>>) /\ ToSet(<<>>) = {}
  BY DEF ToSet, IsInjective
<1> HIDE DEF s
<1>5. Holds([free |-> s, release |-> <<>>], Pages)
  BY <1>2, <1>3, <1>4 DEF Holds
<1> QED
  BY <1>5 DEF s

\* The rows after clear: all of them, once.
LEMMA FreshRows ==
  LET fs == [i \in 1..NumRows |-> i - 1]
  IN  fs \in Seq(0..(NumRows - 1)) /\ IsInjective(fs) /\ ToSet(fs) = 0..(NumRows - 1)
<1> DEFINE fs == [i \in 1..NumRows |-> i - 1]
<1>1. NumRows \in Nat /\ fs \in [1..NumRows -> 0..(NumRows - 1)]
  BY AllocatorConstants
<1>2. fs \in Seq(0..(NumRows - 1)) /\ IsInjective(fs)
  BY <1>1 DEF IsInjective
<1>3. \A x \in 0..(NumRows - 1) : x + 1 \in DOMAIN fs /\ fs[x + 1] = x
  BY <1>1
<1>4. ToSet(fs) = 0..(NumRows - 1)
  BY <1>1, <1>3 DEF ToSet
<1> QED
  BY <1>2, <1>4

\* Without requests no page is used.
LEMMA NoneUsed ==
  ASSUME PageSize \in Nat \ {0}, NEW k, \A o \in Owners : k[o] = <<>>
  PROVE  UsedBy(k) = {} /\ \A o \in Owners : PagesOf(k[o]) = {}
<1>1. PagesOf(<<>>) = {}
  BY NoSlots
<1> QED
  BY <1>1 DEF UsedBy

\* flush_cache with no request: the pool was and is full.
LEMMA ClearStep ==
  ASSUME IInv, Clear
  PROVE  IInv' /\ UNCHANGED Pool!poolvars
<1>1. /\ UNCHANGED <<conf, kv, row>> /\ \A o \in Owners : kv[o] = <<>> /\ row[o] = -1
      /\ in_group = FALSE /\ in_group' = FALSE /\ free_group' = <<>>
      /\ free_pages' = [i \in 1..NumPages |-> i] /\ release_pages' = <<>>
      /\ free_slots' = [i \in 1..NumRows |-> i - 1]
  BY DEF Clear, IInv
<1>2. PageSize \in Nat \ {0}
  BY AllocatorConstants DEF IInv, PageSize
<1>3. UsedBy(kv) = {}
  BY <1>1, <1>2, NoneUsed
<1>4. GroupPages(free_group, FALSE) = {} /\ GroupPages(<<>>, FALSE) = {}
  BY DEF GroupPages
<1>5. PagesInv(kv, Lists, free_group, FALSE)
  BY <1>1, Zenon DEF IInv
<1>6. Lists' = [free |-> [i \in 1..NumPages |-> i], release |-> <<>>]
  BY <1>1 DEF Lists
<1>7. Holds(Lists', Pages) /\ Lists'.release = <<>>
  BY <1>6, FreshLists
<1>8. Pages \ (UsedBy(kv) \cup {}) = Pages
  BY <1>3
<1>9. PagesInv(kv, Lists', <<>>, FALSE)
  <2>1. KvInv(kv, {}) /\ <<>> \in Seq(Slots)
    BY <1>4, <1>5, NoSlots, Zenon DEF PagesInv
  <2> QED
    BY <1>4, <1>7, <1>8, <2>1, Zenon DEF PagesInv
<1>10. PagesInv(kv, Lists, free_group, in_group)'
  BY <1>1, <1>9, SameConf, Zenon
<1>11. RowsOK'
  <2>1. \A x \in 0..(NumRows - 1) : x \notin {row[o] : o \in Owners}
    BY <1>1, AllocatorConstants
  <2>2. (0..(NumRows - 1)) \ {row[o] : o \in Owners} = 0..(NumRows - 1)
    BY <2>1
  <2> QED
    BY <1>1, <2>2, FreshRows, Zenon DEF IInv, RowsOK
<1>12. UNCHANGED Pool!poolvars
  <2>1. Grouped = {} /\ Grouped' = {}
    BY <1>1 DEF Grouped
  <2>2. Pages = ToSet(free_pages) \cup ToSet(release_pages)
    BY <1>4, <1>5, <1>8, Zenon DEF PagesInv, Holds, Lists
  <2>3. Pages = ToSet(free_pages') \cup ToSet(release_pages')
    BY <1>7 DEF Holds, Lists
  <2>4. UNCHANGED (ToSet(free_pages) \cup ToSet(release_pages))
    BY <2>2, <2>3 DEF ToSet
  <2> QED
    BY <1>1, <2>1, <2>4 DEF Pool!poolvars, PagesOf, Page, PageSize
<1> QED
  BY <1>1, <1>10, <1>11, <1>12, Zenon DEF IInv

\* The invariant holds at the start, and the pool starts full.
LEMMA InitInv ==
  ASSUME Init
  PROVE  IInv /\ Pool!Init
<1>1. /\ conf \in Configs /\ free_group = <<>> /\ in_group = FALSE
      /\ kv = [o \in Owners |-> <<>>] /\ row = [o \in Owners |-> -1]
      /\ free_pages = [i \in 1..NumPages |-> i] /\ release_pages = <<>>
      /\ free_slots = [i \in 1..NumRows |-> i - 1]
  BY DEF Init
<1>2. PageSize \in Nat \ {0}
  BY <1>1, AllocatorConstants DEF PageSize
<1>3. UsedBy(kv) = {} /\ \A o \in Owners : PagesOf(kv[o]) = {}
  BY <1>1, <1>2, NoneUsed
<1>4. GroupPages(<<>>, FALSE) = {}
  BY DEF GroupPages
<1>5. Holds(Lists, Pages) /\ Lists.release = <<>>
  BY <1>1, FreshLists DEF Lists
<1>6. KvInv(kv, {})
  <2>3. \A o \in Owners : \E g \in Seq(Pages) : BlockTable(kv[o], g)
    BY <1>1, <1>2, NoSlots
  <2>4. kv \in [Owners -> Seq(Slots)]
    BY <1>1
  <2> QED
    BY <1>3, <2>3, <2>4 DEF KvInv
<1>7. PagesInv(kv, Lists, free_group, in_group)
  <2>1. Pages \ (UsedBy(kv) \cup {}) = Pages
    BY <1>3
  <2>2. PagesInv(kv, Lists, <<>>, FALSE)
    BY <1>4, <1>5, <1>6, <2>1, NoSlots, Zenon DEF PagesInv
  <2> QED
    BY <1>1, <2>2, Zenon
<1>8. RowsOK
  <2>1. \A o \in Owners : row[o] = -1
    BY <1>1
  <2>2. \A x \in 0..(NumRows - 1) : x \notin {row[o] : o \in Owners}
    BY <2>1, AllocatorConstants
  <2>3. (0..(NumRows - 1)) \ {row[o] : o \in Owners} = 0..(NumRows - 1)
    BY <2>2
  <2>4. row \in [Owners -> -1..(NumRows - 1)]
    BY <1>1, AllocatorConstants
  <2> QED
    BY <1>1, <2>1, <2>3, <2>4, FreshRows, Zenon DEF RowsOK
<1>9. Pool!Init
  <2>1. ToSet(free_pages) \cup ToSet(release_pages) = Pages
    BY <1>5 DEF Holds, Lists
  <2>2. Grouped = {}
    BY <1>1 DEF Grouped
  <2>3. [o \in Owners |-> PagesOf(kv[o])] = [o \in Owners |-> {}]
    BY <1>3
  <2> QED
    BY <2>1, <2>2, <2>3 DEF Pool!Init
<1> QED
  BY <1>1, <1>7, <1>8, <1>9, Zenon DEF IInv
-----------------------------------------------------------------------------
(* The theorems.                                                           *)

\* Every step keeps the invariant and is a step of the pool, or none.
LEMMA StepInv ==
  ASSUME IInv, [Next]_vars
  PROVE  IInv' /\ [Pool!Next]_(Pool!poolvars)
<1>1. CASE Extend
  BY <1>1, ExtendStep DEF Pool!Next
<1>2. CASE Decode
  BY <1>2, DecodeStep DEF Pool!Next
<1>3. CASE free_group_begin
  BY <1>3, BeginStep
<1>4. CASE free_group_end
  BY <1>4, EndStep DEF Pool!Next
<1>5. CASE Clear
  BY <1>5, ClearStep
<1>6. CASE \E o \in Owners : ReleaseRow(o)
  BY <1>6, ReleaseRowStep
<1>7. CASE \E o \in Owners : Release(o)
  BY <1>7, ReleaseStep DEF Pool!Next
<1>8. CASE UNCHANGED vars
  <2>1. UNCHANGED <<conf, free_pages, release_pages, free_group, in_group, free_slots, kv, row>>
    BY <1>8 DEF vars
  <2>2. PagesInv(kv, Lists, free_group, in_group)'
    BY <2>1, SameConf DEF IInv, Lists
  <2>3. RowsOK'
    BY <2>1 DEF IInv, RowsOK
  <2>4. UNCHANGED Pool!poolvars
    BY <2>1 DEF Pool!poolvars, Grouped, PagesOf, Page, PageSize, ToSet
  <2> QED
    BY <2>1, <2>2, <2>3, <2>4 DEF IInv
<1> QED
  BY <1>1, <1>2, <1>3, <1>4, <1>5, <1>6, <1>7, <1>8 DEF Next

\* Every reachable state satisfies the inductive invariant: the lists hold exactly the
\* pages no request and no group has, and every request has a table of whole pages.
THEOREM AllocatorInv == Spec => []IInv
<1>1. Init => IInv
  BY InitInv
<1>2. IInv /\ [Next]_vars => IInv'
  BY StepInv
<1> QED
  BY <1>1, <1>2, PTL DEF Spec

\* alloc, alloc_extend, alloc_decode, free, the free groups, merging and clear together
\* are a pool of pages: a batch takes pages nobody has, and a page given back is
\* available at once or when its group ends.
THEOREM AllocatorIsPool == Spec => PoolSpec
<1>1. Init => Pool!Init
  BY InitInv
<1>2. IInv /\ [Next]_vars => [Pool!Next]_(Pool!poolvars)
  BY StepInv
<1> QED
  BY <1>1, <1>2, AllocatorInv, PTL DEF Spec, PoolSpec, Pool!Spec

\* The lists never hold the dummy page 0 or a page past the end, and no request has a
\* slot outside the pool.
THEOREM AllocatorTypes == Spec => []TypeOK
<1>1. IInv => TypeOK
  BY DEF IInv, TypeOK, PagesInv, Holds, Lists, KvInv, RowsOK, Slots
<1> QED
  BY <1>1, AllocatorInv, PTL

\* A list without repetitions has an element once or not at all.
LEMMA Occurs ==
  ASSUME NEW S, NEW s \in Seq(S), IsInjective(s), NEW p
  PROVE  Cardinality({i \in DOMAIN s : s[i] = p}) = IF p \in ToSet(s) THEN 1 ELSE 0
<1>1. CASE p \in ToSet(s)
  <2>1. PICK j \in DOMAIN s : s[j] = p
    BY <1>1 DEF ToSet
  <2>2. {i \in DOMAIN s : s[i] = p} = {j}
    BY <2>1 DEF IsInjective
  <2> QED
    BY <1>1, <2>2, FS_Singleton, Zenon
<1>2. CASE p \notin ToSet(s)
  <2>1. {i \in DOMAIN s : s[i] = p} = {}
    BY <1>2 DEF ToSet
  <2> QED
    BY <1>2, <2>1, FS_EmptySet, Zenon
<1> QED
  BY <1>1, <1>2

\* At most one request has a page.
LEMMA OneHolder ==
  ASSUME NEW G, KvInv(kv, G), NEW p
  PROVE  Cardinality({o \in Owners : p \in PagesOf(kv[o])}) = IF p \in UsedBy(kv) THEN 1 ELSE 0
<1>1. CASE p \in UsedBy(kv)
  <2>1. PICK q \in Owners : p \in PagesOf(kv[q])
    BY <1>1 DEF UsedBy
  <2>2. {o \in Owners : p \in PagesOf(kv[o])} = {q}
    BY <2>1 DEF KvInv
  <2> QED
    BY <1>1, <2>2, FS_Singleton
<1>2. CASE p \notin UsedBy(kv)
  <2>1. {o \in Owners : p \in PagesOf(kv[o])} = {}
    BY <1>2 DEF UsedBy
  <2> QED
    BY <1>2, <2>1, FS_EmptySet
<1> QED
  BY <1>1, <1>2

\* A row belongs to one request or to none.
LEMMA OneRow ==
  ASSUME RowsOK, NEW s \in 0..(NumRows - 1)
  PROVE  Cardinality({o \in Owners : row[o] = s})
           = IF s \in {row[o] : o \in Owners} THEN 1 ELSE 0
<1>1. s # -1
  BY AllocatorConstants
<1>2. CASE s \in {row[o] : o \in Owners}
  <2>1. PICK q \in Owners : row[q] = s
    BY <1>2
  <2>2. {o \in Owners : row[o] = s} = {q}
    BY <1>1, <2>1 DEF RowsOK
  <2> QED
    BY <1>2, <2>2, FS_Singleton
<1>3. CASE s \notin {row[o] : o \in Owners}
  <2>1. {o \in Owners : row[o] = s} = {}
    BY <1>3
  <2> QED
    BY <1>3, <2>1, FS_EmptySet
<1> QED
  BY <1>2, <1>3

\* No allocation, free, grouped free or merge loses a page or has it in two places, and
\* no row of req_to_token is lost or shared.
THEOREM NoPageLost == Spec => []PagesPartitioned
<1>1. IInv => PagesPartitioned
  <2> SUFFICES ASSUME IInv PROVE PagesPartitioned
    OBVIOUS
  <2> DEFINE G == GroupPages(free_group, in_group)
  <2>1. PageSize \in Nat \ {0} /\ RowsOK
    BY AllocatorConstants DEF IInv, PageSize
  <2>2. Holds(Lists, Pages \ (UsedBy(kv) \cup G)) /\ KvInv(kv, G)
    BY DEF IInv, PagesInv
  <2>3. Grouped = G
    BY DEF Grouped, GroupPages
  <2> HIDE DEF G
  <2>4. /\ free_pages \in Seq(Pages) /\ IsInjective(free_pages)
        /\ release_pages \in Seq(Pages) /\ IsInjective(release_pages)
        /\ ToSet(free_pages) \cap ToSet(release_pages) = {}
        /\ Pages \ (UsedBy(kv) \cup G) = ToSet(free_pages) \cup ToSet(release_pages)
    BY <2>2 DEF Holds, Lists
  <2>5. UsedBy(kv) \cap G = {}
    BY <2>2 DEF KvInv, UsedBy
  <2>6. ASSUME NEW p \in Pages
        PROVE  Cardinality({i \in DOMAIN free_pages : free_pages[i] = p})
                 + Cardinality({i \in DOMAIN release_pages : release_pages[i] = p})
                 + Cardinality({o \in Owners : p \in PagesOf(kv[o])})
                 + (IF p \in Grouped THEN 1 ELSE 0) = 1
    <3> DEFINE nf == Cardinality({i \in DOMAIN free_pages : free_pages[i] = p})
               nr == Cardinality({i \in DOMAIN release_pages : release_pages[i] = p})
               no == Cardinality({o \in Owners : p \in PagesOf(kv[o])})
               ng == IF p \in Grouped THEN 1 ELSE 0
    <3>1. nf = IF p \in ToSet(free_pages) THEN 1 ELSE 0
      BY <2>4, Occurs
    <3>2. nr = IF p \in ToSet(release_pages) THEN 1 ELSE 0
      BY <2>4, Occurs
    <3>3. no = IF p \in UsedBy(kv) THEN 1 ELSE 0
      BY <2>2, OneHolder
    <3>4. ng = IF p \in G THEN 1 ELSE 0
      BY <2>3
    <3> HIDE DEF nf, nr, no, ng
    <3>5. nf + nr + no + ng = 1
      <4>1. CASE p \in ToSet(free_pages)
        <5>1. p \notin ToSet(release_pages) /\ p \notin UsedBy(kv) /\ p \notin G
          BY <2>4, <4>1
        <5> QED
          BY <3>1, <3>2, <3>3, <3>4, <4>1, <5>1
      <4>2. CASE p \in ToSet(release_pages)
        <5>1. p \notin ToSet(free_pages) /\ p \notin UsedBy(kv) /\ p \notin G
          BY <2>4, <4>2
        <5> QED
          BY <3>1, <3>2, <3>3, <3>4, <4>2, <5>1
      <4>3. CASE p \notin ToSet(free_pages) /\ p \notin ToSet(release_pages)
        <5>1. p \in UsedBy(kv) <=> p \notin G
          BY <2>4, <2>5, <4>3
        <5> QED
          BY <3>1, <3>2, <3>3, <3>4, <4>3, <5>1
      <4> QED
        BY <4>1, <4>2, <4>3
    <3> QED
      BY <3>5 DEF nf, nr, no, ng
  <2>7. \A o \in Owners : IsInjective(kv[o])
    <3> TAKE o \in Owners
    <3>1. kv[o] \in Seq(Slots) /\ \E g \in Seq(Pages) : BlockTable(kv[o], g)
      BY <2>2 DEF KvInv
    <3> QED
      BY <2>1, <3>1, TableOf
  <2>8. ASSUME NEW s \in 0..(NumRows - 1)
        PROVE  Cardinality({i \in DOMAIN free_slots : free_slots[i] = s})
                 + Cardinality({o \in Owners : row[o] = s}) = 1
    <3>1. /\ free_slots \in Seq(0..(NumRows - 1)) /\ IsInjective(free_slots)
          /\ s \in ToSet(free_slots) <=> s \notin {row[o] : o \in Owners}
      BY <2>1 DEF RowsOK
    <3>2. Cardinality({i \in DOMAIN free_slots : free_slots[i] = s})
            = IF s \in ToSet(free_slots) THEN 1 ELSE 0
      BY <3>1, Occurs
    <3>3. Cardinality({o \in Owners : row[o] = s})
            = IF s \in {row[o] : o \in Owners} THEN 1 ELSE 0
      BY <2>1, OneRow
    <3> QED
      BY <3>1, <3>2, <3>3
  <2> QED
    BY <2>6, <2>7, <2>8 DEF PagesPartitioned
<1> QED
  BY <1>1, AllocatorInv, PTL

\* The kernels and the partial frees keep every request paged: token i is at offset i of
\* its page and next to token i - 1, as the assertions on last_loc require.
THEOREM KvStaysPaged == Spec => []KvPaged
<1>1. IInv => KvPaged
  <2> SUFFICES ASSUME IInv, NEW o \in Owners, NEW i \in DOMAIN kv[o]
               PROVE  /\ kv[o][i] % PageSize = (i - 1) % PageSize
                      /\ i > 1 /\ (i - 1) % PageSize # 0 => kv[o][i] = kv[o][i - 1] + 1
    BY DEF KvPaged
  <2> DEFINE d == PageSize
             s == kv[o]
  <2>1. d \in Nat \ {0}
    BY AllocatorConstants DEF IInv, PageSize
  <2>2. s \in Seq(Slots) /\ \E g \in Seq(Pages) : BlockTable(s, g)
    BY DEF IInv, PagesInv, KvInv
  <2>3. PICK g \in Seq(Pages) : BlockTable(s, g)
    BY <2>2
  <2>4. i \in 1..Len(s)
    BY <2>2
  <2>5. s[i] % d = (i - 1) % d /\ (i - 1) \div d + 1 \in 1..Len(g)
    BY <2>1, <2>2, <2>3, <2>4, TableOf, Zenon
  <2>6. ASSUME i > 1, (i - 1) % d # 0
        PROVE  s[i] = s[i - 1] + 1
    <3> DEFINE q == (i - 1) \div d
               r == (i - 1) % d
    <3>1. q \in Nat /\ r \in 0..(d - 1) /\ i - 1 = q * d + r /\ i - 1 \in Nat
      <4>1. i - 1 \in Nat
        BY <2>4
      <4> QED
        BY <2>1, <4>1, DivMod, Zenon
    <3>2. r - 1 \in 0..(d - 1)
      <4>1. r # 0
        BY <2>6
      <4> HIDE DEF r, d
      <4> QED
        BY <2>1, <3>1, <4>1
    <3>3. (q * d + (r - 1)) \div d = q /\ (q * d + (r - 1)) % d = r - 1
      <4> HIDE DEF q, r, d
      <4> QED
        BY <2>1, <3>1, <3>2, DivIs, Zenon
    <3>4. (i - 1) - 1 = q * d + (r - 1)
      <4> DEFINE m == q * d
      <4>1. m \in Int
        BY <2>1, <3>1
      <4> HIDE DEF m
      <4> QED
        BY <2>1, <3>1, <3>2, <4>1 DEF m
    <3>5. ((i - 1) - 1) \div d = q /\ ((i - 1) - 1) % d = r - 1
      BY <3>3, <3>4, Zenon
    <3>6. i - 1 \in 1..Len(s)
      BY <2>4, <2>6
    <3>7. \A j \in 1..Len(s) : s[j] = g[(j - 1) \div d + 1] * d + ((j - 1) % d)
      BY <2>3 DEF BlockTable
    <3>8. s[i] = g[q + 1] * d + r
      BY <2>4, <3>7
    <3>9. s[i - 1] = g[q + 1] * d + (r - 1)
      BY <3>5, <3>6, <3>7, Zenon
    <3>10. g[q + 1] * d \in Int
      <4>1. g[q + 1] \in Pages
        BY <2>3, <2>5
      <4>2. g[q + 1] \in Nat
        BY <4>1, AllocatorConstants DEF Pages
      <4> QED
        BY <2>1, <4>2
    <3> DEFINE m == g[q + 1] * d
    <3>11. s[i] = m + r /\ s[i - 1] = m + (r - 1) /\ m \in Int /\ r \in Int
      BY <2>1, <3>1, <3>8, <3>9, <3>10
    <3> HIDE DEF m, r, s
    <3> QED
      BY <3>11
  <2> QED
    BY <2>5, <2>6
<1> QED
  BY <1>1, AllocatorInv, PTL

\* A test for merging that asks for at least the pages needed leaves none behind.
LEMMA MergesInTime ==
  ASSUME IInv, NEW want \in Nat, NEW need \in Nat, need <= want, NEW l,
         l = (IF NeedSort /\ want > Len(Lists.free) THEN merge_and_sort_free(Lists) ELSE Lists),
         need > Len(l.free)
  PROVE  need > Len(free_pages) + Len(release_pages)
<1>1. PICK S : Holds(Lists, S)
  BY DEF IInv, PagesInv
<1>2. NeedSort \/ release_pages = <<>>
  BY DEF IInv, PagesInv, Lists
<1>3. Lists.free = free_pages /\ Lists.release = release_pages
  BY DEF Lists
<1>4. Len(free_pages) \in Nat /\ Len(release_pages) \in Nat
  BY <1>1, <1>3 DEF Holds
<1>5. CASE NeedSort /\ want > Len(Lists.free)
  <2>1. Len(merge_and_sort_free(Lists).free) = Len(Lists.free) + Len(Lists.release)
    BY <1>1, MergeHolds, Zenon
  <2> QED
    BY <1>3, <1>5, <2>1
<1>6. CASE NeedSort /\ ~(want > Len(Lists.free))
  BY <1>3, <1>4, <1>6
<1>7. CASE ~NeedSort
  <2>1. release_pages = <<>> /\ l = Lists
    BY <1>2, <1>7
  <2> QED
    BY <1>3, <1>4, <2>1
<1> QED
  BY <1>5, <1>6, <1>7

\* alloc_extend merges whenever the pages of the free list alone might not do.
LEMMA ExtendInTime ==
  ASSUME IInv, NEW b \in Batches(Owners), NEW seq \in Lengths(b),
         ExtendPages(Pre(b), seq) > Len(ExtendLists(Lists, Pre(b), seq).free)
  PROVE  ExtendPages(Pre(b), seq) > Len(free_pages) + Len(release_pages)
<1>1. PageSize \in Nat \ {0} /\ kv \in [Owners -> Seq(Slots)] /\ MaxLen \in Nat
  BY AllocatorConstants DEF IInv, PageSize, MaxLen, PagesInv, KvInv
<1>2. PICK n \in Nat :
        /\ DOMAIN b = 1..n /\ Len(b) = n /\ b \in [1..n -> Owners]
        /\ \A sq : (sq \in [1..n -> Nat] /\ \A i \in 1..n : Len(kv[b[i]]) < sq[i])
                      => BatchOf(kv, n, b, Pre(b), sq, LastLoc(b))
  BY <1>1, BatchesAre, Zenon
<1>3. seq \in [1..n -> Nat] /\ \A i \in 1..n : Len(kv[b[i]]) < seq[i]
  <2>1. seq \in [1..n -> 1..MaxLen] /\ \A i \in 1..n : seq[i] > Len(kv[b[i]])
    BY <1>2 DEF Lengths
  <2>2. \A i \in 1..n : Len(kv[b[i]]) \in Nat
    BY <1>1, <1>2
  <2> QED
    BY <1>1, <2>1, <2>2
<1> DEFINE pre == Pre(b)
           last == LastLoc(b)
           l == ExtendLists(Lists, pre, seq)
           f == [i \in 1..n |-> NewPages(pre, seq, i)]
           e == [i \in 1..n |-> seq[i] - pre[i]]
           want == IF PageSize = 1 THEN Total(e) ELSE Total(e) \div PageSize + n + 1
<1>4. BatchOf(kv, n, b, pre, seq, last)
  BY <1>2, <1>3, Zenon
<1>5. Counts(n, pre, seq, f)
  BY <1>1, <1>4, CountsIs
<1>6. DOMAIN pre = 1..n /\ Len(pre) = n
  BY <1>2 DEF Pre
<1>7. ExtendPages(pre, seq) = Total(f)
  BY <1>6 DEF ExtendPages
<1>8. l = IF NeedSort /\ want > Len(Lists.free) THEN merge_and_sort_free(Lists) ELSE Lists
  BY <1>6 DEF ExtendLists
<1>9. e = [i \in 1..n |-> seq[i] - pre[i]]
  OBVIOUS
<1>10. Total(f) > Len(l.free)
  BY <1>7
<1> HIDE DEF pre, last, l, f, e
<1>11. /\ Total(e) \in Nat /\ Total(f) \in Nat
       /\ PageSize = 1 => Total(f) = Total(e)
       /\ Total(f) <= Total(e) \div PageSize + n + 1
  BY <1>1, <1>4, <1>5, <1>9, ExtendCount
<1>12. want \in Nat /\ Total(f) <= want
  <2>1. Total(e) \div PageSize \in Nat
    BY <1>1, <1>11, DivMod, Zenon
  <2> QED
    BY <1>11, <2>1
<1> HIDE DEF want
<1>13. Total(f) > Len(free_pages) + Len(release_pages)
  BY <1>8, <1>10, <1>11, <1>12, MergesInTime
<1> QED
  BY <1>7, <1>13 DEF pre

\* alloc_decode merges whenever the pages of the free list alone might not do.
LEMMA DecodeInTime ==
  ASSUME IInv, NEW b \in Batches({o \in Owners : kv[o] # <<>>}),
         DecodePages(DecodeSeq(b)) > Len(DecodeLists(Lists, DecodeSeq(b)).free)
  PROVE  DecodePages(DecodeSeq(b)) > Len(free_pages) + Len(release_pages)
<1>1. PageSize \in Nat \ {0} /\ kv \in [Owners -> Seq(Slots)]
  BY AllocatorConstants DEF IInv, PageSize, PagesInv, KvInv
<1>2. PICK n \in Nat :
        /\ DOMAIN b = 1..n /\ Len(b) = n /\ b \in [1..n -> Owners]
        /\ \A sq : (sq \in [1..n -> Nat] /\ \A i \in 1..n : Len(kv[b[i]]) < sq[i])
                      => BatchOf(kv, n, b, Pre(b), sq, LastLoc(b))
  <2> DEFINE S == {o \in Owners : kv[o] # <<>>}
  <2>1. S \in SUBSET Owners /\ b \in Batches(S)
    OBVIOUS
  <2> HIDE DEF S
  <2> QED
    BY <1>1, <2>1, BatchesAre
<1> DEFINE pre == Pre(b)
           seq == DecodeSeq(b)
           last == LastLoc(b)
           l == DecodeLists(Lists, seq)
           f == [i \in 1..n |-> NewPages(pre, seq, i)]
<1>3. \A i \in 1..n : Len(kv[b[i]]) \in Nat
  BY <1>1, <1>2
<1>4. /\ seq \in [1..n -> Nat] /\ \A i \in 1..n : Len(kv[b[i]]) < seq[i]
      /\ \A i \in 1..n : seq[i] = pre[i] + 1
      /\ Len(seq) = n
  BY <1>2, <1>3 DEF DecodeSeq, Pre
<1>5. BatchOf(kv, n, b, pre, seq, last)
  BY <1>2, <1>4, Zenon
<1>6. Counts(n, pre, seq, f)
  BY <1>1, <1>5, CountsIs
<1>7. l = IF NeedSort /\ Len(seq) > Len(Lists.free) THEN merge_and_sort_free(Lists) ELSE Lists
  BY DEF DecodeLists
<1>8. DecodePages(seq) > Len(l.free)
  OBVIOUS
<1> HIDE DEF pre, last, l, f, seq
<1>9. DecodePages(seq) <= Len(seq) /\ DecodePages(seq) \in Nat
  BY <1>1, <1>4, <1>5, <1>6, DecodeCount
<1>10. Len(seq) \in Nat
  BY <1>4
<1>11. DecodePages(seq) > Len(free_pages) + Len(release_pages)
  BY <1>7, <1>8, <1>9, <1>10, MergesInTime
<1> QED
  BY <1>11 DEF seq

\* alloc_extend and alloc_decode return None only when the two lists together have too
\* few pages: the estimates that decide on merging are never too small.
THEOREM NoneIsShort == Spec => []NoneOnlyWhenShort
<1>1. IInv => NoneOnlyWhenShort
  BY ExtendInTime, DecodeInTime DEF NoneOnlyWhenShort
<1> QED
  BY <1>1, AllocatorInv, PTL
=============================================================================
