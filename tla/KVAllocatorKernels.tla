------------------------ MODULE KVAllocatorKernels --------------------------
(***************************************************************************)
(* What the functions of the allocator compute, for every number of pages, *)
(* page size and batch: sorting and merging the free lists keeps their     *)
(* pages, the extend and decode kernels fill the last page of a request    *)
(* and open new ones, and the requests of a batch get disjoint pages.      *)
(***************************************************************************)
EXTENDS KVAllocator, FiniteSetTheorems, NaturalsInduction, TLAPS

USE SMTT(30)

Slots == PageSize..(PageSize * (NumPages + 1) - 1)

\* The lists l hold the pages S, each once.
Holds(l, S) ==
  /\ l \in [free : Seq(Pages), release : Seq(Pages)]
  /\ IsInjective(l.free) /\ IsInjective(l.release)
  /\ ToSet(l.free) \cap ToSet(l.release) = {}
  /\ S = ToSet(l.free) \cup ToSet(l.release)

\* The slots s fill the pages g one after the other.
BlockTable(s, g) ==
  /\ g \in Seq(Pages) /\ IsInjective(g) /\ Len(g) = Ceil(Len(s))
  /\ \A i \in 1..Len(s) : s[i] = g[(i - 1) \div PageSize + 1] * PageSize + ((i - 1) % PageSize)

Apart(S, T) == S \cap T = {}
Pairs(f, S) == UNION {{j} \X (1..f[j]) : j \in S}
Seg(s, m, n) == {s[i] : i \in (m + 1)..n}

\* Every request of k has a table, and no page belongs to two requests or to G.
UsedBy(k) == UNION {PagesOf(k[o]) : o \in Owners}
KvInv(k, G) ==
  /\ k \in [Owners -> Seq(Slots)]
  /\ \A o \in Owners : \E g \in Seq(Pages) : BlockTable(k[o], g)
  /\ \A o, p \in Owners : o # p => PagesOf(k[o]) \cap PagesOf(k[p]) = {}
  /\ \A o \in Owners : PagesOf(k[o]) \cap G = {}

-----------------------------------------------------------------------------
(* Quotients, and induction over the naturals by sets.                     *)

\* Induction on a set: one that has 0 and every successor has all the naturals.
LEMMA NatSet ==
  ASSUME NEW S \in SUBSET Nat, 0 \in S, \A n \in S : n + 1 \in S
  PROVE  S = Nat
<1> DEFINE R == OpToRel(<, Nat)
<1>1. IsWellFoundedOn(R, Nat)
  BY NatLessThanWellFounded, Zenon
<1>2. \A x, y \in Nat : y < x => <<y, x>> \in R
  BY Zenon DEF OpToRel
<1> HIDE DEF R
<1> SUFFICES ASSUME Nat \ S # {} PROVE FALSE
  BY Zenon
<1>3. PICK m \in Nat \ S : \A y \in Nat \ S : ~(<<y, m>> \in R)
  BY <1>1, WFMin, Zenon
<1>4. \A y \in Nat \ S : ~(y < m)
  BY <1>2, <1>3, Zenon
<1>5. m - 1 \in Nat /\ m - 1 < m
  BY <1>3
<1>6. m - 1 \in S
  BY <1>4, <1>5
<1> QED
  BY <1>3, <1>6

\* Dividing by a page size, and back.
LEMMA DivMod ==
  ASSUME NEW d \in Nat \ {0}, NEW a \in Nat
  PROVE  /\ a \div d \in Nat /\ a % d \in 0..(d - 1)
         /\ a = (a \div d) * d + (a % d)
OBVIOUS

\* The quotient and what is left.
LEMMA DivIs ==
  ASSUME NEW d \in Nat \ {0}, NEW q \in Nat, NEW r \in 0..(d - 1)
  PROVE  (q * d + r) \div d = q /\ (q * d + r) % d = r /\ q * d + r \in Nat
OBVIOUS

\* Multiples of the page size are a page apart.
LEMMA Times ==
  ASSUME NEW d \in Nat \ {0}, NEW p \in Nat, NEW q \in Nat, p < q
  PROVE  p * d + d <= q * d /\ p * d \in Nat /\ q * d \in Nat
<1>1. PICK k \in Nat : q = p + 1 + k
  <2>1. q - p - 1 \in Nat /\ q = p + 1 + (q - p - 1)
    OBVIOUS
  <2> QED
    BY <2>1
<1>2. q * d = p * d + d + k * d
  BY <1>1
<1>3. k * d \in Nat /\ p * d \in Nat
  OBVIOUS
<1> QED
  BY <1>2, <1>3

\* Positions in order are in pages in order.
LEMMA DivOrder ==
  ASSUME NEW d \in Nat \ {0}, NEW a \in Nat, NEW q \in Nat
  PROVE  a \div d < q <=> a < q * d
<1>1. /\ a \div d \in Nat /\ a % d \in 0..(d - 1)
      /\ a = (a \div d) * d + (a % d)
  BY DivMod, Zenon
<1>2. CASE a \div d < q
  BY <1>1, <1>2, Times
<1>3. CASE q <= a \div d
  <2>1. q * d \in Nat /\ (a \div d) * d \in Nat /\ q * d <= (a \div d) * d
    BY <1>1, <1>3, Times
  <2> QED
    BY <1>1, <1>3, <2>1
<1> QED
  BY <1>1, <1>2, <1>3

\* The number of pages n tokens fill, the last one perhaps in part.
LEMMA CeilIs ==
  ASSUME PageSize \in Nat \ {0}, NEW n \in Nat
  PROVE  /\ Ceil(n) \in Nat
         /\ n <= Ceil(n) * PageSize /\ Ceil(n) * PageSize < n + PageSize
         /\ n % PageSize = 0 => Ceil(n) = n \div PageSize
         /\ n % PageSize # 0 => Ceil(n) = n \div PageSize + 1
<1> DEFINE d == PageSize
           q == n \div d
           r == n % d
<1>1. d \in Nat \ {0}
  OBVIOUS
<1>2. Ceil(n) = (n + d - 1) \div d
  BY DEF Ceil
<1> HIDE DEF d
<1>3. q \in Nat /\ r \in 0..(d - 1) /\ n = q * d + r
  BY <1>1, DivMod, Zenon
<1> HIDE DEF q, r
<1>4. CASE r = 0
  <2>1. n + d - 1 = q * d + (d - 1)
    BY <1>1, <1>3, <1>4
  <2>2. Ceil(n) = q
    BY <1>1, <1>2, <1>3, <2>1, DivIs
  <2> QED
    BY <1>1, <1>3, <1>4, <2>2 DEF q, r, d
<1>5. CASE r # 0
  <2>1. (q + 1) * d = q * d + d
    BY <1>1, <1>3
  <2>2. n + d - 1 = (q + 1) * d + (r - 1) /\ r - 1 \in 0..(d - 1)
    BY <1>1, <1>3, <1>5, <2>1
  <2>3. ((q + 1) * d + (r - 1)) \div d = q + 1
    <3>1. q + 1 \in Nat
      BY <1>3
    <3> QED
      BY <1>1, <2>2, <3>1, DivIs, Zenon
  <2>4. Ceil(n) = q + 1
    BY <1>2, <2>2, <2>3, Zenon
  <2> QED
    BY <1>1, <1>3, <1>5, <2>1, <2>4 DEF q, r, d
<1> QED
  BY <1>4, <1>5
-----------------------------------------------------------------------------
(* Sorting.                                                                *)

\* Numbering n things by different numbers of 1..n leaves no number out.
LEMMA Numbering ==
  ASSUME NEW D, IsFiniteSet(D), NEW r \in [D -> 1..Cardinality(D)],
         \A x, y \in D : r[x] = r[y] => x = y
  PROVE  \A i \in 1..Cardinality(D) : \E x \in D : r[x] = i
<1> DEFINE n == Cardinality(D)
<1>1. n \in Nat
  BY FS_CardinalityType
<1>2. IsFiniteSet(1..n) /\ Cardinality(1..n) = n
  BY <1>1, FS_Interval
<1>3. r \in Injection(D, 1..n)
  BY Zenon DEF Injection, IsInjective
<1> HIDE DEF n
<1>4. Cardinality(D) = n
  BY DEF n
<1>5. r \in Surjection(D, 1..n)
  BY <1>2, <1>3, <1>4, FS_Injection, Zenon
<1> QED
  BY <1>4, <1>5, Zenon DEF Surjection

\* torch.unique: each member of the set once.
LEMMA SortedSeqIs ==
  ASSUME NEW S \in SUBSET Int, IsFiniteSet(S)
  PROVE  /\ SortedSeq(S) \in Seq(S) /\ IsInjective(SortedSeq(S))
         /\ ToSet(SortedSeq(S)) = S
<1> DEFINE n == Cardinality(S)
           Upto(x) == {y \in S : y <= x}
           r == [x \in S |-> Cardinality(Upto(x))]
<1>1. n \in Nat
  BY FS_CardinalityType
<1>2. \A x \in S : IsFiniteSet(Upto(x)) /\ Cardinality(Upto(x)) \in 1..n
  <2> TAKE x \in S
  <2>1. Upto(x) \in SUBSET S /\ {x} \in SUBSET Upto(x)
    OBVIOUS
  <2>2. IsFiniteSet(Upto(x)) /\ Cardinality(Upto(x)) <= n
    BY <2>1, FS_Subset, Zenon
  <2>3. Cardinality({x}) <= Cardinality(Upto(x)) /\ Cardinality({x}) = 1
    BY <2>1, <2>2, FS_Subset, FS_Singleton, Zenon
  <2>4. Cardinality(Upto(x)) \in Nat
    BY <2>2, FS_CardinalityType
  <2> QED
    BY <1>1, <2>2, <2>3, <2>4
<1>3. r \in [S -> 1..n]
  BY <1>2
<1>4. \A x, y \in S : x < y => Cardinality(Upto(x)) # Cardinality(Upto(y))
  <2> SUFFICES ASSUME NEW x \in S, NEW y \in S, x < y,
                      Cardinality(Upto(x)) = Cardinality(Upto(y))
               PROVE  FALSE
    OBVIOUS
  <2>1. y \in Upto(y) /\ y \notin Upto(x)
    OBVIOUS
  <2>0. Upto(x) \in SUBSET Upto(y)
    <3> SUFFICES ASSUME NEW z \in S, z <= x PROVE z <= y
      BY Zenon
    <3>1. x \in Int /\ y \in Int /\ z \in Int
      OBVIOUS
    <3> QED
      BY <3>1
  <2>2. Upto(y) = Upto(x)
    BY <1>2, <2>0, FS_Subset, Zenon
  <2> QED
    BY <2>1, <2>2, Zenon
<1>5. \A x, y \in S : r[x] = r[y] => x = y
  BY <1>4
<1>6. \A i \in 1..n : \E x \in S : r[x] = i
  <2> HIDE DEF r
  <2> QED
    BY <1>3, <1>5, Numbering, Zenon
<1>7. \A i \in 1..n : SortedSeq(S)[i] \in S /\ r[SortedSeq(S)[i]] = i
  <2> TAKE i \in 1..n
  <2>1. SortedSeq(S)[i] = CHOOSE x \in S : Cardinality(Upto(x)) = i
    BY Zenon DEF SortedSeq
  <2>2. \E x \in S : Cardinality(Upto(x)) = i
    BY <1>6
  <2>3. SortedSeq(S)[i] \in S /\ Cardinality(Upto(SortedSeq(S)[i])) = i
    <3> HIDE DEF Upto
    <3> QED
      BY <2>1, <2>2, Zenon
  <2> QED
    BY <2>3
<1>8. DOMAIN SortedSeq(S) = 1..n
  BY DEF SortedSeq
<1>9. SortedSeq(S) \in [1..n -> S]
  BY <1>7, Zenon DEF SortedSeq
<1> HIDE DEF r, n
<1>10. SortedSeq(S) \in Seq(S)
  BY <1>1, <1>9
<1>11. IsInjective(SortedSeq(S))
  <2> SUFFICES ASSUME NEW i \in 1..n, NEW j \in 1..n, SortedSeq(S)[i] = SortedSeq(S)[j]
               PROVE  i = j
    BY <1>8, Zenon DEF IsInjective
  <2> QED
    BY <1>7, Zenon
<1>12. \A x \in S : r[x] \in 1..n /\ SortedSeq(S)[r[x]] = x
  BY <1>3, <1>5, <1>7, Zenon
<1> QED
  BY <1>7, <1>8, <1>10, <1>11, <1>12, Zenon DEF ToSet

\* torch.sort: the same elements, each as often as before.
LEMMA SortedIs ==
  ASSUME NEW s \in Seq(Int), IsInjective(s)
  PROVE  /\ DOMAIN Sorted(s) = DOMAIN s /\ IsInjective(Sorted(s))
         /\ ToSet(Sorted(s)) = ToSet(s)
<1> DEFINE D == DOMAIN s
           Upto(p) == {q \in D : s[q] < s[p] \/ (s[q] = s[p] /\ q <= p)}
           r == [p \in D |-> Cardinality(Upto(p))]
<1>1. /\ Len(s) \in Nat /\ D = 1..Len(s)
      /\ IsFiniteSet(D) /\ Cardinality(D) = Len(s)
  <2>1. Len(s) \in Nat /\ D = 1..Len(s)
    OBVIOUS
  <2> QED
    BY <2>1, FS_Interval
<1>2. \A p \in D : IsFiniteSet(Upto(p)) /\ Cardinality(Upto(p)) \in 1..Len(s)
  <2> TAKE p \in D
  <2>1. Upto(p) \in SUBSET D /\ {p} \in SUBSET Upto(p)
    OBVIOUS
  <2>2. IsFiniteSet(Upto(p)) /\ Cardinality(Upto(p)) <= Cardinality(D)
    BY <1>1, <2>1, FS_Subset, Zenon
  <2>3. Cardinality({p}) <= Cardinality(Upto(p)) /\ Cardinality({p}) = 1
    BY <2>1, <2>2, FS_Subset, FS_Singleton, Zenon
  <2>4. Cardinality(Upto(p)) \in Nat
    BY <2>2, FS_CardinalityType
  <2> QED
    BY <1>1, <2>2, <2>3, <2>4
<1>3. r \in [D -> 1..Cardinality(D)]
  BY <1>1, <1>2, Zenon
<1>4. \A p, q \in D : s[p] < s[q] => Cardinality(Upto(p)) # Cardinality(Upto(q))
  <2> SUFFICES ASSUME NEW p \in D, NEW q \in D, s[p] < s[q],
                      Cardinality(Upto(p)) = Cardinality(Upto(q))
               PROVE  FALSE
    OBVIOUS
  <2>1. Upto(p) \in SUBSET Upto(q) /\ q \in Upto(q) /\ q \notin Upto(p)
    OBVIOUS
  <2>2. Upto(q) = Upto(p)
    BY <1>2, <2>1, FS_Subset, Zenon
  <2> QED
    BY <2>1, <2>2, Zenon
<1>5. \A p, q \in D : r[p] = r[q] => p = q
  <2> SUFFICES ASSUME NEW p \in D, NEW q \in D, r[p] = r[q] PROVE p = q
    OBVIOUS
  <2>1. ~(s[p] < s[q]) /\ ~(s[q] < s[p])
    BY <1>4
  <2>2. s[p] \in Int /\ s[q] \in Int
    OBVIOUS
  <2>3. s[p] = s[q]
    BY <2>1, <2>2
  <2> QED
    BY <2>3, Zenon DEF IsInjective
<1>6. \A i \in D : \E p \in D : r[p] = i
  <2> HIDE DEF r, D
  <2>0. IsFiniteSet(D)
    BY <1>1
  <2>1. \A i \in 1..Cardinality(D) : \E p \in D : r[p] = i
    BY <1>3, <1>5, <2>0, Numbering
  <2> QED
    BY <1>1, <2>1
<1>7. \A i \in D : \E p \in D : r[p] = i /\ Sorted(s)[i] = s[p]
  <2> TAKE i \in D
  <2> DEFINE p == CHOOSE p \in D : Cardinality(Upto(p)) = i
  <2>1. Sorted(s)[i] = s[p]
    BY DEF Sorted
  <2>2. \E x \in D : Cardinality(Upto(x)) = i
    BY <1>6
  <2>3. p \in D /\ Cardinality(Upto(p)) = i
    <3> HIDE DEF Upto, D
    <3> QED
      BY <2>2, Zenon
  <2> QED
    BY <2>1, <2>3, Zenon
<1>8. DOMAIN Sorted(s) = D
  BY DEF Sorted
<1> HIDE DEF r
<1>9. IsInjective(Sorted(s))
  <2> SUFFICES ASSUME NEW i \in D, NEW j \in D, Sorted(s)[i] = Sorted(s)[j] PROVE i = j
    BY <1>8, Zenon DEF IsInjective
  <2>1. PICK p \in D : r[p] = i /\ Sorted(s)[i] = s[p]
    BY <1>7, Zenon
  <2>2. PICK q \in D : r[q] = j /\ Sorted(s)[j] = s[q]
    BY <1>7, Zenon
  <2>3. p = q
    BY <2>1, <2>2, Zenon DEF IsInjective
  <2> QED
    BY <2>1, <2>2, <2>3, Zenon
<1>10. \A p \in D : r[p] \in D /\ Sorted(s)[r[p]] = s[p]
  <2> TAKE p \in D
  <2>1. r[p] \in D
    BY <1>1, <1>3
  <2>2. PICK q \in D : r[q] = r[p] /\ Sorted(s)[r[p]] = s[q]
    BY <1>7, <2>1, Zenon
  <2> QED
    BY <1>5, <2>1, <2>2, Zenon
<1>11. ToSet(Sorted(s)) \subseteq ToSet(s)
  <2> SUFFICES ASSUME NEW i \in D PROVE Sorted(s)[i] \in ToSet(s)
    BY <1>8, Zenon DEF ToSet
  <2> QED
    BY <1>7, Zenon DEF ToSet
<1>12. ToSet(s) \subseteq ToSet(Sorted(s))
  <2> SUFFICES ASSUME NEW p \in D PROVE s[p] \in ToSet(Sorted(s))
    BY Zenon DEF ToSet
  <2> QED
    BY <1>8, <1>10, Zenon DEF ToSet
<1> QED
  BY <1>8, <1>9, <1>11, <1>12, Zenon
-----------------------------------------------------------------------------
(* Sums over a batch, and pieces of a list.                                *)

\* The sum over the first i requests grows by the number of request i.
LEMMA SumStep ==
  ASSUME NEW n \in Nat, NEW f \in [1..n -> Nat]
  PROVE  /\ Sum(f, 1..0) = 0
         /\ \A i \in 0..n : Sum(f, 1..i) \in Nat
         /\ \A i \in 1..n : Sum(f, 1..i) = Sum(f, 1..(i - 1)) + f[i]
         /\ \A i, j \in 0..n : i <= j => Sum(f, 1..i) <= Sum(f, 1..j)
<1> DEFINE P(i) == Pairs(f, 1..i)
           New(i) == {i} \X (1..f[i])
           T == {i \in Nat : i <= n => IsFiniteSet(P(i))}
<1>1. \A i \in Nat : Sum(f, 1..i) = Cardinality(P(i))
  BY Zenon DEF Sum, Pairs
<1>2. P(0) = {}
  BY DEF Pairs
<1>3. \A i \in 1..n : P(i) = P(i - 1) \cup New(i) /\ P(i - 1) \cap New(i) = {}
  <2> TAKE i \in 1..n
  <2>1. 1..i = (1..(i - 1)) \cup {i} /\ i \notin 1..(i - 1)
    OBVIOUS
  <2>2. P(i) = P(i - 1) \cup New(i)
    <3> HIDE DEF New
    <3>1. Pairs(f, (1..(i - 1)) \cup {i}) = Pairs(f, 1..(i - 1)) \cup New(i)
      BY Zenon DEF Pairs, New
    <3> QED
      BY <2>1, <3>1, Zenon
  <2>3. \A x \in P(i - 1) : \E j \in 1..(i - 1) : x \in {j} \X (1..f[j])
    BY Zenon DEF Pairs
  <2>4. P(i - 1) \cap New(i) = {}
    <3> SUFFICES ASSUME NEW x \in P(i - 1), x \in New(i) PROVE FALSE
      OBVIOUS
    <3>1. PICK j \in 1..(i - 1) : x \in {j} \X (1..f[j])
      BY <2>3, Zenon
    <3>2. x[1] = j /\ x[1] = i
      BY <3>1
    <3> QED
      BY <2>1, <3>2
  <2> QED
    BY <2>2, <2>4
<1>4. \A i \in 1..n : IsFiniteSet(New(i)) /\ Cardinality(New(i)) = f[i]
  <2> TAKE i \in 1..n
  <2>1. f[i] \in Nat
    OBVIOUS
  <2>2. IsFiniteSet(1..f[i]) /\ Cardinality(1..f[i]) = f[i]
    <3>1. 1 \in Int /\ f[i] \in Int
      BY <2>1
    <3>2. /\ IsFiniteSet(1..f[i])
          /\ Cardinality(1..f[i]) = IF 1 > f[i] THEN 0 ELSE f[i] - 1 + 1
      BY <3>1, FS_Interval, Zenon
    <3> QED
      BY <2>1, <3>2
  <2>3. IsFiniteSet({i}) /\ Cardinality({i}) = 1
    BY FS_Singleton, Zenon
  <2>4. IsFiniteSet(New(i)) /\ Cardinality(New(i)) = 1 * f[i]
    BY <2>2, <2>3, FS_Product
  <2> QED
    BY <2>1, <2>4
<1> HIDE DEF P, New
<1>5. T = Nat
  <2>1. 0 \in T
    BY <1>2, FS_EmptySet
  <2>2. \A i \in T : i + 1 \in T
    <3> SUFFICES ASSUME NEW i \in Nat, i <= n => IsFiniteSet(P(i)), i + 1 <= n
                 PROVE  IsFiniteSet(P(i + 1))
      OBVIOUS
    <3>1. i + 1 \in 1..n /\ (i + 1) - 1 = i
      OBVIOUS
    <3>2. IsFiniteSet(P(i)) /\ IsFiniteSet(New(i + 1)) /\ P(i + 1) = P(i) \cup New(i + 1)
      BY <1>3, <1>4, <3>1
    <3>3. IsFiniteSet(P(i) \cup New(i + 1))
      BY <3>2, FS_Union, Zenon
    <3> QED
      BY <3>2, <3>3, Zenon
  <2> HIDE DEF T
  <2>3. T \in SUBSET Nat
    BY DEF T
  <2> QED
    BY <2>1, <2>2, <2>3, NatSet, Zenon
<1>6. \A i \in 0..n : i \in Nat /\ IsFiniteSet(P(i)) /\ Cardinality(P(i)) \in Nat
  <2> TAKE i \in 0..n
  <2>1. i \in T /\ i <= n
    BY <1>5
  <2>2. IsFiniteSet(P(i))
    BY <2>1
  <2> QED
    BY <2>2, FS_CardinalityType
<1>7. \A i \in 1..n : Cardinality(P(i)) = Cardinality(P(i - 1)) + f[i]
  <2> TAKE i \in 1..n
  <2>1. i - 1 \in 0..n /\ f[i] \in Nat
    OBVIOUS
  <2>2. /\ P(i) = P(i - 1) \cup New(i) /\ P(i - 1) \cap New(i) = {}
        /\ IsFiniteSet(P(i - 1)) /\ Cardinality(P(i - 1)) \in Nat
        /\ IsFiniteSet(New(i)) /\ Cardinality(New(i)) = f[i]
    BY <1>3, <1>4, <1>6, <2>1
  <2>3. Cardinality(P(i)) = Cardinality(P(i - 1)) + f[i] - Cardinality({})
    <3>1. Cardinality(P(i - 1) \cup New(i)) =
            Cardinality(P(i - 1)) + Cardinality(New(i)) - Cardinality(P(i - 1) \cap New(i))
      BY <2>2, FS_Union, Zenon
    <3> QED
      BY <2>2, <3>1, Zenon
  <2> QED
    BY <2>1, <2>2, <2>3, FS_EmptySet
<1>8. \A i, j \in 0..n : i <= j => Cardinality(P(i)) <= Cardinality(P(j))
  <2> SUFFICES ASSUME NEW i \in 0..n, NEW j \in 0..n, i <= j
               PROVE  Cardinality(P(i)) <= Cardinality(P(j))
    OBVIOUS
  <2>1. 1..i \subseteq 1..j
    OBVIOUS
  <2>2. P(i) \in SUBSET P(j)
    BY <2>1, Zenon DEF P, Pairs
  <2> QED
    BY <1>6, <2>2, FS_Subset, Zenon
<1>9. Cardinality(P(0)) = 0 /\ 0 \in Nat
  BY <1>2, FS_EmptySet
<1>10. \A i \in 1..n : i \in Nat /\ i - 1 \in Nat
  OBVIOUS
<1> HIDE DEF T
<1> QED
  BY <1>1, <1>6, <1>7, <1>8, <1>9, <1>10, Zenon

\* Two lists without a common element, one after the other.
LEMMA Joined ==
  ASSUME NEW S, NEW s \in Seq(S), NEW t \in Seq(S)
  PROVE  /\ s \o t \in Seq(S) /\ Len(s \o t) = Len(s) + Len(t)
         /\ ToSet(s \o t) = ToSet(s) \cup ToSet(t)
         /\ (IsInjective(s) /\ IsInjective(t) /\ ToSet(s) \cap ToSet(t) = {})
              => IsInjective(s \o t)
<1>1. s \o t \in Seq(S) /\ Len(s \o t) = Len(s) + Len(t)
  OBVIOUS
<1>2. /\ \A i \in 1..Len(s) : (s \o t)[i] = s[i]
      /\ \A i \in 1..Len(t) : (s \o t)[Len(s) + i] = t[i]
  OBVIOUS
<1>3. /\ DOMAIN (s \o t) = 1..(Len(s) + Len(t)) /\ DOMAIN s = 1..Len(s) /\ DOMAIN t = 1..Len(t)
      /\ Len(s) \in Nat /\ Len(t) \in Nat
  BY <1>1
<1>4. \A i \in 1..(Len(s) + Len(t)) :
        \/ i \in 1..Len(s)
        \/ (\E j \in 1..Len(t) : i = Len(s) + j)
  <2> TAKE i \in 1..(Len(s) + Len(t))
  <2>1. i \in 1..Len(s) \/ (i - Len(s) \in 1..Len(t) /\ i = Len(s) + (i - Len(s)))
    BY <1>3
  <2> QED
    BY <2>1, Zenon
<1>5. ToSet(s \o t) = ToSet(s) \cup ToSet(t)
  <2>1. \A i \in 1..Len(s) : i \in 1..(Len(s) + Len(t))
    BY <1>3
  <2>2. \A i \in 1..Len(t) : Len(s) + i \in 1..(Len(s) + Len(t))
    BY <1>3
  <2>3. \A i \in 1..(Len(s) + Len(t)) : (s \o t)[i] \in ToSet(s) \cup ToSet(t)
    <3> TAKE i \in 1..(Len(s) + Len(t))
    <3>1. CASE i \in 1..Len(s)
      BY <1>2, <1>3, <3>1 DEF ToSet
    <3>2. CASE \E j \in 1..Len(t) : i = Len(s) + j
      BY <1>2, <1>3, <3>2 DEF ToSet
    <3> QED
      BY <1>4, <3>1, <3>2, Zenon
  <2>4. \A i \in 1..Len(s) : s[i] \in ToSet(s \o t)
    BY <1>2, <1>3, <2>1 DEF ToSet
  <2>5. \A i \in 1..Len(t) : t[i] \in ToSet(s \o t)
    BY <1>2, <1>3, <2>2, Zenon DEF ToSet
  <2>6. ToSet(s \o t) \subseteq ToSet(s) \cup ToSet(t)
    BY <1>3, <2>3 DEF ToSet
  <2>7. ToSet(s) \subseteq ToSet(s \o t) /\ ToSet(t) \subseteq ToSet(s \o t)
    BY <1>3, <2>4, <2>5, Zenon DEF ToSet
  <2> QED
    BY <2>6, <2>7
<1>6. ASSUME IsInjective(s), IsInjective(t), ToSet(s) \cap ToSet(t) = {}
      PROVE  IsInjective(s \o t)
  <2> SUFFICES ASSUME NEW i \in 1..(Len(s) + Len(t)), NEW j \in 1..(Len(s) + Len(t)),
                      (s \o t)[i] = (s \o t)[j]
               PROVE  i = j
    BY <1>3, Zenon DEF IsInjective
  <2>1. \A a \in 1..Len(s), c \in 1..Len(t) : s[a] # t[c]
    BY <1>3, <1>6, Zenon DEF ToSet
  <2>2. \A a, c \in 1..Len(s) : s[a] = s[c] => a = c
    BY <1>3, <1>6, Zenon DEF IsInjective
  <2>3. \A a, c \in 1..Len(t) : t[a] = t[c] => a = c
    BY <1>3, <1>6, Zenon DEF IsInjective
  <2>4. CASE i \in 1..Len(s) /\ j \in 1..Len(s)
    BY <1>2, <2>2, <2>4, Zenon
  <2>5. ASSUME NEW a \in 1..Len(t), i = Len(s) + a, j \in 1..Len(s) PROVE FALSE
    BY <1>2, <2>1, <2>5, Zenon
  <2>6. ASSUME NEW a \in 1..Len(t), j = Len(s) + a, i \in 1..Len(s) PROVE FALSE
    BY <1>2, <2>1, <2>6, Zenon
  <2>7. ASSUME NEW a \in 1..Len(t), i = Len(s) + a, NEW c \in 1..Len(t), j = Len(s) + c
        PROVE  i = j
    <3>1. t[a] = t[c]
      BY <1>2, <2>7
    <3> QED
      BY <2>3, <2>7, <3>1, Zenon
  <2> QED
    BY <1>4, <2>4, <2>5, <2>6, <2>7, Zenon
<1> QED
  BY <1>1, <1>5, <1>6

\* A function on 1..n is a sequence of length n.
LEMMA FunIsSeq ==
  ASSUME NEW S, NEW m \in Nat, NEW t \in [1..m -> S]
  PROVE  t \in Seq(S) /\ Len(t) = m
OBVIOUS

\* A piece of a list.
Pieced(S, s, m, n) ==
  /\ SubSeq(s, m + 1, n) \in Seq(S) /\ Len(SubSeq(s, m + 1, n)) = n - m
  /\ \A i \in 1..(n - m) : SubSeq(s, m + 1, n)[i] = s[m + i]
  /\ ToSet(SubSeq(s, m + 1, n)) = Seg(s, m, n)
  /\ IsInjective(s) => IsInjective(SubSeq(s, m + 1, n))
\* A piece of a sequence and its elements.
LEMMA Piece ==
  ASSUME NEW S, NEW s \in Seq(S), NEW m \in 0..Len(s), NEW n \in m..Len(s)
  PROVE  Pieced(S, s, m, n)
<1> DEFINE u == SubSeq(s, m + 1, n)
<1>1. /\ u \in Seq(S) /\ Len(u) = n - m /\ \A i \in 1..(n - m) : u[i] = s[m + i]
  OBVIOUS
<1>2. DOMAIN u = 1..(n - m) /\ DOMAIN s = 1..Len(s)
  BY <1>1
<1>3. /\ \A i \in 1..(n - m) : m + i \in (m + 1)..n /\ m + i \in 1..Len(s)
      /\ \A j \in (m + 1)..n : j - m \in 1..(n - m) /\ m + (j - m) = j
  OBVIOUS
<1> HIDE DEF u
<1>4. ToSet(u) = Seg(s, m, n)
  <2>1. \A j \in (m + 1)..n : u[j - m] = s[j]
    BY <1>1, <1>3, Zenon
  <2>2. \A i \in 1..(n - m) : u[i] \in Seg(s, m, n)
    BY <1>1, <1>3, Zenon DEF Seg
  <2>3. \A j \in (m + 1)..n : s[j] \in ToSet(u)
    BY <1>2, <1>3, <2>1 DEF ToSet
  <2>4. ToSet(u) \subseteq Seg(s, m, n)
    BY <1>2, <2>2 DEF ToSet
  <2>5. Seg(s, m, n) \subseteq ToSet(u)
    BY <2>3 DEF Seg
  <2> QED
    BY <2>4, <2>5, Zenon
<1>5. ASSUME IsInjective(s) PROVE IsInjective(u)
  <2> SUFFICES ASSUME NEW i \in 1..(n - m), NEW j \in 1..(n - m), u[i] = u[j] PROVE i = j
    BY <1>2, Zenon DEF IsInjective
  <2>1. m + i = m + j
    BY <1>1, <1>2, <1>3, <1>5, Zenon DEF IsInjective
  <2> QED
    BY <2>1
<1> QED
  BY <1>1, <1>4, <1>5, Zenon DEF u, Pieced

\* Cutting a list without repetitions in two.
LEMMA Cut ==
  ASSUME NEW S, NEW s \in Seq(S), IsInjective(s), NEW n \in 0..Len(s)
  PROVE  Seg(s, n, Len(s)) = ToSet(s) \ Seg(s, 0, n) /\ Seg(s, 0, n) \subseteq ToSet(s)
<1>1. DOMAIN s = 1..Len(s)
  OBVIOUS
<1>2. \A i \in 1..Len(s) : \/ i \in 1..n /\ i \notin (n + 1)..Len(s)
                           \/ i \notin 1..n /\ i \in (n + 1)..Len(s)
  OBVIOUS
<1>3. (\A i \in 1..n : i \in 1..Len(s)) /\ (\A i \in (n + 1)..Len(s) : i \in 1..Len(s))
  OBVIOUS
<1>4. Seg(s, 0, n) = {s[i] : i \in 1..n}
  BY DEF Seg
<1> QED
  BY <1>1, <1>2, <1>3, <1>4 DEF ToSet, Seg, IsInjective
-----------------------------------------------------------------------------
(* Slots and pages, and what merging and freeing do to the lists.          *)

\* The slot at an offset of a page, its page and its offset.
LEMMA SlotIs ==
  ASSUME PageSize \in Nat \ {0}, NEW p \in Pages, NEW r \in 0..(PageSize - 1)
  PROVE  p * PageSize + r \in Slots /\ Page(p * PageSize + r) = p
         /\ (p * PageSize + r) % PageSize = r
<1> DEFINE d == PageSize
<1>1. d \in Nat \ {0} /\ r \in 0..(d - 1) /\ p \in Nat /\ 0 < p /\ p < NumPages + 1
      /\ NumPages + 1 \in Nat
  BY AllocatorConstants DEF Pages
<1>2. Page(p * d + r) = (p * d + r) \div d /\ Slots = d..(d * (NumPages + 1) - 1)
  BY DEF Page, Slots
<1> HIDE DEF d
<1>3. p * d + d <= (NumPages + 1) * d /\ 0 * d + d <= p * d /\ p * d \in Nat
  BY <1>1, Times
<1>4. (NumPages + 1) * d = d * (NumPages + 1) /\ d * (NumPages + 1) \in Nat
  BY <1>1
<1>5. p * d + r \in Slots
  BY <1>1, <1>2, <1>3, <1>4
<1> QED
  BY <1>1, <1>2, <1>5, DivIs, Zenon DEF d

\* The page of a slot is a page, never the dummy page.
LEMMA PageIs ==
  ASSUME PageSize \in Nat \ {0}, NEW s \in Slots
  PROVE  Page(s) \in Pages /\ s \in Nat
<1> DEFINE d == PageSize
           N == NumPages + 1
<1>1. d \in Nat \ {0} /\ N \in Nat /\ NumPages \in Nat
  BY AllocatorConstants
<1>2. Page(s) = s \div d /\ Slots = d..(d * N - 1)
  BY DEF Page, Slots
<1> HIDE DEF d, N
<1>3. s \in Nat /\ d <= s /\ s < N * d
  BY <1>1, <1>2
<1>4. s \div d < N /\ ~(s \div d < 1) /\ s \div d \in Nat
  <2>1. s \div d < N
    BY <1>1, <1>3, DivOrder
  <2>2. 1 * d = d /\ 1 \in Nat
    BY <1>1
  <2>3. s \div d < 1 <=> s < 1 * d
    BY <1>1, <1>3, <2>2, DivOrder
  <2>4. s \div d \in Nat
    BY <1>1, <1>3, DivMod, Zenon
  <2> QED
    BY <1>1, <1>3, <2>1, <2>2, <2>3, <2>4
<1>5. s \div d \in Pages
  BY <1>1, <1>4 DEF Pages, N
<1> QED
  BY <1>2, <1>3, <1>5

\* The pages of a sequence of slots; with single slots they are the slots.
LEMMA PagesOfIs ==
  ASSUME PageSize \in Nat \ {0}, NEW s \in Seq(Slots)
  PROVE  /\ PagesOf(s) \in SUBSET Pages /\ PagesOf(s) \in SUBSET Int /\ IsFiniteSet(PagesOf(s))
         /\ PagesOf(<<>>) = {}
         /\ PageSize = 1 => PagesOf(s) = ToSet(s) /\ s \in Seq(Pages)
<1>1. \A i \in DOMAIN s : Page(s[i]) \in Pages /\ s[i] \in Slots
  <2> TAKE i \in DOMAIN s
  <2>1. s[i] \in Slots
    OBVIOUS
  <2> QED
    BY <2>1, PageIs
<1>2. PagesOf(s) \in SUBSET Pages
  BY <1>1 DEF PagesOf
<1>3. IsFiniteSet(Pages) /\ Pages \in SUBSET Int
  BY FS_Interval, AllocatorConstants DEF Pages
<1>4. IsFiniteSet(PagesOf(s))
  BY <1>2, <1>3, FS_Subset
<1>5. PagesOf(<<>>) = {}
  BY DEF PagesOf
<1>6. ASSUME PageSize = 1 PROVE PagesOf(s) = ToSet(s) /\ s \in Seq(Pages)
  <2>1. Slots = Pages /\ Slots \subseteq Int
    BY <1>6, AllocatorConstants DEF Slots, Pages
  <2>2. \A x \in Int : x \div 1 = x
    OBVIOUS
  <2>3. \A i \in DOMAIN s : Page(s[i]) = s[i]
    BY <1>1, <1>6, <2>1, <2>2, Zenon DEF Page
  <2> QED
    BY <2>1, <2>3 DEF PagesOf, ToSet
<1> QED
  BY <1>2, <1>3, <1>4, <1>5, <1>6, Zenon

\* Merging moves every page of the release list and none else.
LEMMA MergeHolds ==
  ASSUME NEW S, NEW l, Holds(l, S)
  PROVE  /\ Holds(merge_and_sort_free(l), S)
         /\ merge_and_sort_free(l).release = <<>>
         /\ Len(merge_and_sort_free(l).free) = Len(l.free) + Len(l.release)
<1> DEFINE m == merge_and_sort_free(l)
           c == l.free \o l.release
<1>1. /\ l.free \in Seq(Pages) /\ l.release \in Seq(Pages)
      /\ IsInjective(l.free) /\ IsInjective(l.release)
      /\ ToSet(l.free) \cap ToSet(l.release) = {}
      /\ S = ToSet(l.free) \cup ToSet(l.release)
  BY DEF Holds
<1>2. CASE l.release = <<>>
  <2>1. m = l
    BY <1>2 DEF merge_and_sort_free
  <2> QED
    BY <1>1, <1>2, <2>1
<1>3. CASE l.release # <<>>
  <2>1. m = [free |-> Sorted(c), release |-> <<>>]
    BY <1>3 DEF merge_and_sort_free
  <2>2. c \in Seq(Pages) /\ Len(c) = Len(l.free) + Len(l.release) /\ IsInjective(c) /\ ToSet(c) = S
    BY <1>1, Joined
  <2> HIDE DEF c, m
  <2>3. c \in Seq(Int)
    BY <2>2, AllocatorConstants DEF Pages
  <2>4. DOMAIN Sorted(c) = DOMAIN c /\ IsInjective(Sorted(c)) /\ ToSet(Sorted(c)) = ToSet(c)
    BY <2>2, <2>3, SortedIs, Zenon
  <2>5. Sorted(c) \in Seq(Pages) /\ Len(Sorted(c)) = Len(c)
    <3>0. DOMAIN c = 1..Len(c) /\ Len(c) \in Nat /\ \A i \in 1..Len(c) : c[i] \in Pages
      <4>1. c \in Seq(Pages)
        BY <2>2
      <4> QED
        BY <4>1
    <3>1. DOMAIN c = 1..Len(c) /\ Len(c) \in Nat /\ ToSet(c) \subseteq Pages
      BY <3>0, Zenon DEF ToSet
    <3>2. \A i \in 1..Len(c) : Sorted(c)[i] \in Pages
      BY <2>4, <3>1, Zenon DEF ToSet
    <3>3. Sorted(c) = [i \in 1..Len(c) |-> Sorted(c)[i]]
      BY <3>1 DEF Sorted
    <3> QED
      BY <3>1, <3>2, <3>3
  <2>6. m.free = Sorted(c) /\ m.release = <<>> /\ m \in [free : Seq(Pages), release : Seq(Pages)]
    BY <2>1, <2>5
  <2>7. IsInjective(m.release) /\ ToSet(m.release) = {}
    BY <2>6 DEF IsInjective, ToSet
  <2> QED
    BY <2>2, <2>4, <2>5, <2>6, <2>7 DEF Holds, m
<1> QED
  BY <1>2, <1>3, Zenon

\* Freeing slots gives back their pages, each once, and touches one list only.
LEMMA FreedHolds ==
  ASSUME PageSize \in Nat \ {0}, NeedSort \in BOOLEAN, NEW S, NEW l, Holds(l, S),
         NEW s \in Seq(Slots), IsInjective(s), PagesOf(s) \cap S = {}
  PROVE  /\ Holds(Freed(l, s), S \cup PagesOf(s))
         /\ NeedSort \/ Freed(l, s).release = l.release
<1> DEFINE pages == SortedSeq(PagesOf(s))
           into(list) == IF PageSize = 1 THEN list \o s ELSE pages \o list
<1>1. /\ l \in [free : Seq(Pages), release : Seq(Pages)]
      /\ l.free \in Seq(Pages) /\ l.release \in Seq(Pages)
      /\ IsInjective(l.free) /\ IsInjective(l.release)
      /\ ToSet(l.free) \cap ToSet(l.release) = {}
      /\ S = ToSet(l.free) \cup ToSet(l.release)
  BY DEF Holds
<1>2. /\ PagesOf(s) \in SUBSET Pages /\ PagesOf(s) \in SUBSET Int /\ IsFiniteSet(PagesOf(s))
      /\ PagesOf(<<>>) = {}
      /\ PageSize = 1 => PagesOf(s) = ToSet(s) /\ s \in Seq(Pages)
  BY PagesOfIs
<1>3. pages \in Seq(Pages) /\ IsInjective(pages) /\ ToSet(pages) = PagesOf(s)
  <2>1. pages \in Seq(PagesOf(s)) /\ IsInjective(pages) /\ ToSet(pages) = PagesOf(s)
    BY <1>2, SortedSeqIs
  <2>2. pages \in Seq(Pages)
    BY <1>2, <2>1
  <2> QED
    BY <2>1, <2>2
<1>4. Freed(l, s) = IF s = <<>> THEN l
                    ELSE IF NeedSort THEN [l EXCEPT !.release = into(l.release)]
                    ELSE [l EXCEPT !.free = into(l.free)]
  BY DEF Freed, PagesOf
<1> HIDE DEF pages
<1>5. ASSUME NEW t \in Seq(Pages), IsInjective(t), ToSet(t) \subseteq S
      PROVE  into(t) \in Seq(Pages) /\ IsInjective(into(t))
             /\ ToSet(into(t)) = ToSet(t) \cup PagesOf(s)
  <2>1. ToSet(t) \cap PagesOf(s) = {}
    BY <1>5
  <2>2. CASE PageSize = 1
    <3>1. into(t) = t \o s /\ ToSet(s) = PagesOf(s) /\ s \in Seq(Pages)
      BY <1>2, <2>2
    <3>2. t \o s \in Seq(Pages) /\ IsInjective(t \o s) /\ ToSet(t \o s) = ToSet(t) \cup ToSet(s)
      BY <1>5, <2>1, <3>1, Joined
    <3> QED
      BY <3>1, <3>2, Zenon
  <2>3. CASE PageSize # 1
    <3>1. into(t) = pages \o t
      BY <2>3
    <3>2. ToSet(pages) \cap ToSet(t) = {}
      BY <1>3, <2>1
    <3>3. /\ pages \o t \in Seq(Pages) /\ IsInjective(pages \o t)
          /\ ToSet(pages \o t) = ToSet(pages) \cup ToSet(t)
      BY <1>3, <1>5, <3>2, Joined
    <3> QED
      BY <1>3, <3>1, <3>3, Zenon
  <2> QED
    BY <2>2, <2>3
<1> HIDE DEF into
<1>6. CASE s = <<>>
  <2>1. Freed(l, s) = l /\ PagesOf(s) = {}
    BY <1>2, <1>4, <1>6
  <2> QED
    BY <2>1
<1>7. CASE s # <<>> /\ NeedSort
  <2>1. Freed(l, s) = [l EXCEPT !.release = into(l.release)]
    BY <1>4, <1>7, Zenon
  <2>2. /\ into(l.release) \in Seq(Pages) /\ IsInjective(into(l.release))
        /\ ToSet(into(l.release)) = ToSet(l.release) \cup PagesOf(s)
    BY <1>1, <1>5
  <2>3. /\ Freed(l, s) \in [free : Seq(Pages), release : Seq(Pages)]
        /\ Freed(l, s).free = l.free /\ Freed(l, s).release = into(l.release)
    BY <1>1, <2>1, <2>2
  <2>4. ToSet(l.free) \cap ToSet(into(l.release)) = {}
        /\ S \cup PagesOf(s) = ToSet(l.free) \cup ToSet(into(l.release))
    BY <1>1, <2>2
  <2> QED
    BY <1>1, <1>7, <2>2, <2>3, <2>4, Zenon DEF Holds
<1>8. CASE s # <<>> /\ ~NeedSort
  <2>1. Freed(l, s) = [l EXCEPT !.free = into(l.free)]
    BY <1>4, <1>8, Zenon
  <2>2. /\ into(l.free) \in Seq(Pages) /\ IsInjective(into(l.free))
        /\ ToSet(into(l.free)) = ToSet(l.free) \cup PagesOf(s)
    BY <1>1, <1>5
  <2>3. /\ Freed(l, s) \in [free : Seq(Pages), release : Seq(Pages)]
        /\ Freed(l, s).release = l.release /\ Freed(l, s).free = into(l.free)
    BY <1>1, <2>1, <2>2
  <2>4. ToSet(into(l.free)) \cap ToSet(l.release) = {}
        /\ S \cup PagesOf(s) = ToSet(into(l.free)) \cup ToSet(l.release)
    BY <1>1, <2>2
  <2> QED
    BY <1>1, <2>2, <2>3, <2>4, Zenon DEF Holds
<1> QED
  BY <1>6, <1>7, <1>8
-----------------------------------------------------------------------------
(* Block tables.                                                           *)

\* The pages of a request are those of its table, and no slot repeats.
LEMMA TableOf ==
  ASSUME PageSize \in Nat \ {0}, NEW s \in Seq(Slots), NEW g, BlockTable(s, g)
  PROVE  /\ \A i \in 1..Len(s) : /\ (i - 1) \div PageSize + 1 \in 1..Len(g)
                                 /\ Page(s[i]) = g[(i - 1) \div PageSize + 1]
                                 /\ s[i] % PageSize = (i - 1) % PageSize
         /\ PagesOf(s) = ToSet(g) /\ IsInjective(s)
<1> DEFINE d == PageSize
           at(i) == (i - 1) \div d + 1
<1>1. d \in Nat \ {0}
  OBVIOUS
<1>2. /\ g \in Seq(Pages) /\ IsInjective(g) /\ Len(g) = Ceil(Len(s))
      /\ \A i \in 1..Len(s) : s[i] = g[at(i)] * d + ((i - 1) % d)
  BY DEF BlockTable
<1>3. Len(s) \in Nat /\ DOMAIN s = 1..Len(s) /\ DOMAIN g = 1..Len(g)
  BY <1>2
<1>4. Len(g) \in Nat /\ Len(s) <= Len(g) * d /\ Len(g) * d < Len(s) + d
  BY <1>2, <1>3, CeilIs
<1> HIDE DEF d
<1>5. ASSUME NEW i \in 1..Len(s)
      PROVE  /\ i - 1 \in Nat /\ (i - 1) \div d \in Nat /\ (i - 1) % d \in 0..(d - 1)
             /\ i - 1 = ((i - 1) \div d) * d + ((i - 1) % d)
             /\ at(i) \in 1..Len(g)
  <2>1. i - 1 \in Nat /\ i - 1 < Len(g) * d
    BY <1>1, <1>3, <1>4
  <2>2. /\ (i - 1) \div d \in Nat /\ (i - 1) % d \in 0..(d - 1)
        /\ i - 1 = ((i - 1) \div d) * d + ((i - 1) % d)
    BY <1>1, <2>1, DivMod, Zenon
  <2>3. (i - 1) \div d < Len(g)
    BY <1>1, <1>4, <2>1, DivOrder, Zenon
  <2> QED
    BY <1>4, <2>1, <2>2, <2>3
<1> HIDE DEF at
<1>6. ASSUME NEW i \in 1..Len(s) PROVE Page(s[i]) = g[at(i)] /\ s[i] % d = (i - 1) % d
  <2>1. g[at(i)] \in Pages /\ (i - 1) % d \in 0..(d - 1)
    BY <1>2, <1>5
  <2>2. s[i] = g[at(i)] * d + ((i - 1) % d)
    BY <1>2
  <2> QED
    BY <1>1, <2>1, <2>2, SlotIs DEF d
<1>7. ASSUME NEW k \in 1..Len(g) PROVE \E i \in 1..Len(s) : at(i) = k
  <2> DEFINE i == (k - 1) * d + 1
  <2>1. k - 1 \in Nat /\ k \in Nat /\ k - 1 < k /\ (k <= Len(g) - 1 \/ k = Len(g))
    BY <1>4
  <2>2. (k - 1) * d + d <= k * d /\ (k - 1) * d \in Nat /\ k * d \in Nat
    BY <1>1, <2>1, Times
  <2>3. k * d <= Len(g) * d
    <3>1. CASE k = Len(g)
      BY <1>1, <1>4, <3>1
    <3>2. CASE k < Len(g)
      BY <1>1, <1>4, <2>1, <2>2, <3>2, Times
    <3> QED
      BY <1>4, <2>1, <3>1, <3>2
  <2>4. i \in 1..Len(s)
    BY <1>1, <1>3, <1>4, <2>2, <2>3
  <2>5. i - 1 = (k - 1) * d + 0 /\ 0 \in 0..(d - 1)
    BY <1>1, <2>2
  <2>6. (i - 1) \div d = k - 1
    BY <1>1, <2>1, <2>5, DivIs
  <2> HIDE DEF i
  <2>7. at(i) = k
    BY <2>1, <2>6 DEF at
  <2> QED
    BY <2>4, <2>7
<1>8. PagesOf(s) = ToSet(g)
  <2>1. \A i \in 1..Len(s) : Page(s[i]) \in ToSet(g)
    BY <1>3, <1>5, <1>6 DEF ToSet
  <2>2. \A k \in 1..Len(g) : g[k] \in PagesOf(s)
    BY <1>3, <1>6, <1>7, Zenon DEF PagesOf
  <2>3. PagesOf(s) \subseteq ToSet(g)
    BY <1>3, <2>1 DEF PagesOf
  <2>4. ToSet(g) \subseteq PagesOf(s)
    BY <1>3, <2>2 DEF ToSet
  <2> QED
    BY <2>3, <2>4, Zenon
<1>9. IsInjective(s)
  <2> SUFFICES ASSUME NEW i \in 1..Len(s), NEW j \in 1..Len(s), s[i] = s[j] PROVE i = j
    BY <1>3, Zenon DEF IsInjective
  <2>1. g[at(i)] = g[at(j)] /\ (i - 1) % d = (j - 1) % d
    BY <1>6
  <2>2. at(i) = at(j)
    BY <1>2, <1>3, <1>5, <2>1, Zenon DEF IsInjective
  <2>3. (i - 1) \div d = (j - 1) \div d
    BY <1>5, <2>2 DEF at
  <2>4. i - 1 = j - 1
    BY <1>5, <2>1, <2>3, Zenon
  <2> QED
    BY <1>3, <2>4
<1> QED
  BY <1>5, <1>6, <1>8, <1>9 DEF d, at

\* Slots up to a page boundary and those after it share no page.
LEMMA CutTable ==
  ASSUME PageSize \in Nat \ {0}, NEW s \in Seq(Slots), NEW g, BlockTable(s, g),
         NEW c \in 0..Len(s), c % PageSize = 0
  PROVE  LET head == SubSeq(s, 1, c)
             tail == SubSeq(s, c + 1, Len(s))
         IN  /\ head \in Seq(Slots) /\ IsInjective(head)
             /\ tail \in Seq(Slots) /\ IsInjective(tail)
             /\ PagesOf(head) \cap PagesOf(tail) = {}
             /\ ToSet(head) \cap ToSet(tail) = {}
             /\ PagesOf(s) = PagesOf(head) \cup PagesOf(tail)
<1> DEFINE d == PageSize
           q == c \div d
           head == SubSeq(s, 1, c)
           tail == SubSeq(s, c + 1, Len(s))
<1>1. d \in Nat \ {0} /\ c \in Nat /\ Len(s) \in Nat /\ DOMAIN s = 1..Len(s) /\ c % d = 0
  OBVIOUS
<1>2. /\ g \in Seq(Pages) /\ IsInjective(g)
      /\ \A i \in 1..Len(s) : /\ (i - 1) \div d + 1 \in 1..Len(g)
                              /\ Page(s[i]) = g[(i - 1) \div d + 1]
      /\ IsInjective(s)
  <2>1. g \in Seq(Pages) /\ IsInjective(g)
    BY DEF BlockTable
  <2>2. /\ \A i \in 1..Len(s) : /\ (i - 1) \div d + 1 \in 1..Len(g)
                                /\ Page(s[i]) = g[(i - 1) \div d + 1]
        /\ IsInjective(s)
    BY TableOf, SMTT(30)
  <2> QED
    BY <2>1, <2>2, Zenon
<1>3. q \in Nat /\ c = q * d
  <2>1. q \in Nat /\ c = q * d + 0
    BY <1>1, DivMod, Zenon
  <2> QED
    BY <1>1, <2>1
<1>4. /\ head \in Seq(Slots) /\ Len(head) = c /\ \A i \in 1..c : head[i] = s[i]
      /\ IsInjective(head)
  <2> DEFINE z == 0
  <2>1. z \in 0..Len(s) /\ c \in z..Len(s) /\ z + 1 = 1 /\ c - z = c
    BY <1>1
  <2>2. \A i \in 1..c : z + i = i
    OBVIOUS
  <2> HIDE DEF z
  <2>3. /\ SubSeq(s, z + 1, c) \in Seq(Slots) /\ Len(SubSeq(s, z + 1, c)) = c - z
        /\ \A i \in 1..(c - z) : SubSeq(s, z + 1, c)[i] = s[z + i]
        /\ IsInjective(s) => IsInjective(SubSeq(s, z + 1, c))
    <3>1. Pieced(Slots, s, z, c)
      BY <2>1, Piece, Zenon
    <3> QED
      BY <3>1, Zenon DEF Pieced
  <2> QED
    BY <1>2, <2>1, <2>2, <2>3
<1>5. /\ tail \in Seq(Slots) /\ Len(tail) = Len(s) - c
      /\ \A i \in 1..(Len(s) - c) : tail[i] = s[c + i]
      /\ IsInjective(tail)
  <2>1. Len(s) \in c..Len(s)
    BY <1>1
  <2>2. Pieced(Slots, s, c, Len(s))
    BY <2>1, Piece, Zenon
  <2> QED
    BY <1>2, <2>2, Zenon DEF Pieced
<1>6. DOMAIN head = 1..c /\ DOMAIN tail = 1..(Len(s) - c)
  BY <1>4, <1>5
<1> HIDE DEF head, tail, d, q
<1>7. ASSUME NEW i \in 1..c, NEW j \in 1..(Len(s) - c) PROVE Page(s[i]) # Page(s[c + j])
  <2>1. i \in 1..Len(s) /\ c + j \in 1..Len(s) /\ i - 1 \in Nat /\ (c + j) - 1 \in Nat
        /\ i - 1 < q * d /\ ~((c + j) - 1 < q * d)
    BY <1>1, <1>3
  <2>2. (i - 1) \div d < q /\ ~(((c + j) - 1) \div d < q)
    BY <1>1, <1>3, <2>1, DivOrder, Zenon
  <2>3. (i - 1) \div d \in Nat /\ ((c + j) - 1) \div d \in Nat
    BY <1>1, <2>1, DivMod, Zenon
  <2>4. (i - 1) \div d + 1 # ((c + j) - 1) \div d + 1
    BY <1>3, <2>2, <2>3
  <2>5. g[(i - 1) \div d + 1] # g[((c + j) - 1) \div d + 1]
    <3>1. DOMAIN g = 1..Len(g)
      BY <1>2
    <3> QED
      BY <1>2, <2>1, <2>4, <3>1, Zenon DEF IsInjective
  <2> QED
    BY <1>2, <2>1, <2>5
<1>8. PagesOf(head) \cap PagesOf(tail) = {} /\ ToSet(head) \cap ToSet(tail) = {}
  <2>1. \A i \in 1..c, j \in 1..(Len(s) - c) : Page(head[i]) # Page(tail[j])
    <3> TAKE i \in 1..c, j \in 1..(Len(s) - c)
    <3>1. head[i] = s[i] /\ tail[j] = s[c + j]
      BY <1>4, <1>5
    <3> QED
      BY <1>7, <3>1, Zenon
  <2>2. \A i \in 1..c, j \in 1..(Len(s) - c) : head[i] # tail[j]
    BY <2>1, Zenon
  <2>3. PagesOf(head) \cap PagesOf(tail) = {}
    BY <1>6, <2>1 DEF PagesOf
  <2>4. ToSet(head) \cap ToSet(tail) = {}
    BY <1>6, <2>2 DEF ToSet
  <2> QED
    BY <2>3, <2>4
<1>9. PagesOf(s) = PagesOf(head) \cup PagesOf(tail)
  <2>1. \A i \in 1..Len(s) : i \in 1..c \/ (\E j \in 1..(Len(s) - c) : i = c + j)
    <3> TAKE i \in 1..Len(s)
    <3>1. i \in 1..c \/ (i - c \in 1..(Len(s) - c) /\ i = c + (i - c))
      BY <1>1
    <3> QED
      BY <3>1, Zenon
  <2>2. \A i \in 1..Len(s) : Page(s[i]) \in PagesOf(head) \cup PagesOf(tail)
    <3> TAKE i \in 1..Len(s)
    <3>1. CASE i \in 1..c
      BY <1>4, <1>6, <3>1 DEF PagesOf
    <3>2. CASE \E j \in 1..(Len(s) - c) : i = c + j
      BY <1>5, <1>6, <3>2 DEF PagesOf
    <3> QED
      BY <2>1, <3>1, <3>2, Zenon
  <2>3. /\ \A i \in 1..c : i \in DOMAIN s
        /\ \A j \in 1..(Len(s) - c) : c + j \in DOMAIN s
    BY <1>1
  <2>4. PagesOf(head) \subseteq PagesOf(s)
    BY <1>4, <1>6, <2>3 DEF PagesOf
  <2>5. PagesOf(tail) \subseteq PagesOf(s)
    BY <1>5, <1>6, <2>3, Zenon DEF PagesOf
  <2>6. PagesOf(s) \subseteq PagesOf(head) \cup PagesOf(tail)
    BY <1>1, <2>2 DEF PagesOf
  <2> QED
    BY <2>4, <2>5, <2>6
<1> QED
  BY <1>4, <1>5, <1>8, <1>9 DEF head, tail

\* Where token x of a request with the table h is.
Filled(h, x) == h[x \div PageSize + 1] * PageSize + (x % PageSize)

\* Slots t appended to s as the table with the pages u besides says.
Growth(s, g, n, u, t) ==
  /\ s \in Seq(Slots) /\ BlockTable(s, g)
  /\ n \in Nat /\ Len(s) <= n /\ u \in Seq(Pages) /\ IsInjective(u)
  /\ ToSet(u) \cap PagesOf(s) = {} /\ Len(u) = Ceil(n) - Ceil(Len(s))
  /\ t = [k \in 1..(n - Len(s)) |-> Filled(g \o u, Len(s) + k - 1)]

\* A request that grows to n tokens has the longer table.
LEMMA GrowTable ==
  ASSUME PageSize \in Nat \ {0}, NEW s, NEW g, NEW n, NEW u, NEW t, Growth(s, g, n, u, t)
  PROVE  /\ s \o t \in Seq(Slots) /\ BlockTable(s \o t, g \o u)
         /\ PagesOf(s \o t) = PagesOf(s) \cup ToSet(u) /\ Len(s \o t) = n
<1> DEFINE d == PageSize
           h == g \o u
           p == Len(s)
<1> USE DEF Growth
<1>1. d \in Nat \ {0} /\ p \in Nat /\ n \in Nat /\ p <= n
  OBVIOUS
<1>2. g \in Seq(Pages) /\ IsInjective(g) /\ Len(g) = Ceil(p)
  BY DEF BlockTable
<1>3. /\ \A i \in 1..p : /\ (i - 1) \div d + 1 \in 1..Len(g)
                         /\ s[i] = g[(i - 1) \div d + 1] * d + ((i - 1) % d)
      /\ PagesOf(s) = ToSet(g)
  BY TableOf, Zenon DEF BlockTable
<1>4. /\ h \in Seq(Pages) /\ IsInjective(h) /\ ToSet(h) = PagesOf(s) \cup ToSet(u)
      /\ Len(h) = Len(g) + Len(u)
  BY <1>2, <1>3, Joined
<1>5. /\ Ceil(n) \in Nat /\ n <= Ceil(n) * d /\ Ceil(p) \in Nat
  BY <1>1, CeilIs
<1>6. Len(h) = Ceil(n)
  BY <1>2, <1>4, <1>5
<1>7. \A k \in 1..Len(g) : h[k] = g[k]
  BY <1>2
<1>8. \A k \in 1..(n - p) : t[k] = h[(p + k - 1) \div d + 1] * d + ((p + k - 1) % d)
  BY Zenon DEF Filled
<1> HIDE DEF d, h
<1>9. \A x \in 0..(n - 1) : /\ x \div d + 1 \in 1..Len(h) /\ x % d \in 0..(d - 1)
                            /\ h[x \div d + 1] * d + (x % d) \in Slots
  <2> TAKE x \in 0..(n - 1)
  <2>1. x \in Nat /\ x < Ceil(n) * d
    BY <1>1, <1>5
  <2>2. x \div d < Ceil(n)
    BY <1>1, <1>5, <2>1, DivOrder, Zenon
  <2>3. x \div d \in Nat /\ x % d \in 0..(d - 1)
    BY <1>1, <2>1, DivMod, Zenon
  <2>4. x \div d + 1 \in 1..Len(h)
    BY <1>5, <1>6, <2>2, <2>3
  <2>5. h[x \div d + 1] \in Pages
    BY <1>4, <2>4
  <2>6. h[x \div d + 1] * d + (x % d) \in Slots
    BY <1>1, <2>3, <2>5, SlotIs DEF d
  <2> QED
    BY <2>3, <2>4, <2>6
<1>10. t \in Seq(Slots) /\ Len(t) = n - p
  <2>1. \A k \in 1..(n - p) : t[k] \in Slots
    <3> TAKE k \in 1..(n - p)
    <3>1. p + k - 1 \in 0..(n - 1)
      BY <1>1
    <3> QED
      BY <1>8, <1>9, <3>1, Zenon
  <2>2. t \in [1..(n - p) -> Slots]
    BY <2>1, Zenon
  <2>3. n - p \in Nat
    BY <1>1
  <2> QED
    BY <2>2, <2>3, FunIsSeq, Zenon
<1>11. s \o t \in Seq(Slots) /\ Len(s \o t) = n
  BY <1>1, <1>10
<1>12. \A i \in 1..n : (s \o t)[i] = h[(i - 1) \div d + 1] * d + ((i - 1) % d)
  <2> TAKE i \in 1..n
  <2>1. CASE i \in 1..p
    <3>1. (s \o t)[i] = s[i]
      BY <1>10, <2>1
    <3>2. s[i] = g[(i - 1) \div d + 1] * d + ((i - 1) % d) /\ (i - 1) \div d + 1 \in 1..Len(g)
      BY <1>3, <2>1
    <3>3. h[(i - 1) \div d + 1] = g[(i - 1) \div d + 1]
      BY <1>7, <3>2
    <3> QED
      BY <3>1, <3>2, <3>3
  <2>2. CASE ~(i \in 1..p)
    <3>1. i - p \in 1..(n - p) /\ p + (i - p) - 1 = i - 1
      BY <1>1, <2>2
    <3>2. (s \o t)[i] = t[i - p]
      BY <1>10, <3>1
    <3> QED
      BY <1>8, <3>1, <3>2, Zenon
  <2> QED
    BY <2>1, <2>2
<1>13. BlockTable(s \o t, h)
  BY <1>4, <1>6, <1>11, <1>12, Zenon DEF BlockTable, d
<1>14. PagesOf(s \o t) = ToSet(h)
  <2> HIDE DEF p
  <2> QED
    BY <1>11, <1>13, TableOf, Zenon
<1> QED
  BY <1>4, <1>11, <1>13, <1>14 DEF h
-----------------------------------------------------------------------------
(* The kernels.                                                            *)

\* Token x of a request that has p tokens: in the last page of these, or in a new one.
LEMMA Position ==
  ASSUME PageSize \in Nat \ {0}, NEW p \in Nat, NEW x \in Nat, p <= x
  PROVE  /\ x < Ceil(p) * PageSize <=> x \div PageSize < Ceil(p)
         /\ x < Ceil(p) * PageSize =>
              /\ p > 0 /\ (p - 1) \div PageSize = x \div PageSize
              /\ ((p - 1) % PageSize) + 1 + (x - p) = x % PageSize
         /\ ~(x < Ceil(p) * PageSize) =>
              /\ (x - Ceil(p) * PageSize) \div PageSize = x \div PageSize - Ceil(p)
              /\ (x - Ceil(p) * PageSize) % PageSize = x % PageSize
<1> DEFINE d == PageSize
           c == Ceil(p)
           q == p \div d
           r == p % d
<1>1. d \in Nat \ {0}
  OBVIOUS
<1>2. /\ c \in Nat /\ p <= c * d
      /\ r = 0 => c = q
      /\ r # 0 => c = q + 1
  BY CeilIs, Zenon
<1> HIDE DEF d, c
<1>3. q \in Nat /\ r \in 0..(d - 1) /\ p = q * d + r
  BY <1>1, DivMod, Zenon
<1>4. /\ x \div d \in Nat /\ x % d \in 0..(d - 1)
      /\ x = (x \div d) * d + (x % d)
  BY <1>1, DivMod, Zenon
<1>5. x < c * d <=> x \div d < c
  BY <1>1, <1>2, DivOrder
<1> HIDE DEF q, r
<1>6. ASSUME x < c * d
      PROVE  p > 0 /\ (p - 1) \div d = x \div d /\ ((p - 1) % d) + 1 + (x - p) = x % d
  <2>1. r # 0
    <3> SUFFICES ASSUME r = 0 PROVE FALSE
      OBVIOUS
    <3>1. p = c * d
      BY <1>1, <1>2, <1>3
    <3> QED
      BY <1>6, <3>1
  <2>2. p - 1 = q * d + (r - 1) /\ r - 1 \in 0..(d - 1) /\ p > 0 /\ q * d \in Nat
    BY <1>1, <1>3, <2>1
  <2>3. (p - 1) \div d = q /\ (p - 1) % d = r - 1
    BY <1>1, <1>3, <2>2, DivIs
  <2>4. ~(x < q * d) /\ (x \div d < q <=> x < q * d)
    BY <1>1, <1>3, <2>2, DivOrder
  <2>5. x \div d = q
    BY <1>2, <1>3, <1>4, <1>5, <1>6, <2>1, <2>4
  <2>6. x = q * d + (x % d)
    BY <1>4, <2>5
  <2> QED
    BY <1>1, <1>3, <1>4, <2>2, <2>3, <2>5, <2>6
<1>7. ASSUME ~(x < c * d)
      PROVE  (x - c * d) \div d = x \div d - c /\ (x - c * d) % d = x % d
  <2>1. x \div d - c \in Nat
    BY <1>2, <1>4, <1>5, <1>7
  <2>2. (x \div d - c) * d = (x \div d) * d - c * d
    BY <1>1, <1>2, <1>4
  <2>3. c * d \in Nat /\ (x \div d) * d \in Nat
    BY <1>1, <1>2, <1>4
  <2>4. x - c * d = (x \div d - c) * d + (x % d)
    BY <1>4, <2>2, <2>3
  <2>5. /\ ((x \div d - c) * d + (x % d)) \div d = x \div d - c
        /\ ((x \div d - c) * d + (x % d)) % d = x % d
    BY <1>1, <1>4, <2>1, DivIs, Zenon
  <2> QED
    BY <2>4, <2>5, Zenon
<1> QED
  BY <1>5, <1>6, <1>7 DEF d, c

\* Token x of a request that grows to q tokens, against the page that is not full.
LEMMA LastPage ==
  ASSUME PageSize \in Nat \ {0}, NEW q \in Nat, NEW x \in Nat, x < q
  PROVE  /\ x \div PageSize < Ceil(q)
         /\ ~(x < (q \div PageSize) * PageSize) =>
              /\ x \div PageSize + 1 = Ceil(q)
              /\ x - (q \div PageSize) * PageSize = x % PageSize
<1> DEFINE d == PageSize
           c == Ceil(q)
           e == q \div d
<1>1. d \in Nat \ {0}
  OBVIOUS
<1>2. /\ c \in Nat /\ q <= c * d
      /\ q % d = 0 => c = e
      /\ q % d # 0 => c = e + 1
  BY CeilIs, Zenon
<1> HIDE DEF d, c
<1>3. e \in Nat /\ q % d \in 0..(d - 1) /\ q = e * d + (q % d)
  BY <1>1, DivMod, Zenon
<1>4. x \div d \in Nat /\ x % d \in 0..(d - 1) /\ x = (x \div d) * d + (x % d)
  BY <1>1, DivMod, Zenon
<1> HIDE DEF e
<1>5. x \div d < c
  <2>1. x < c * d
    BY <1>1, <1>2
  <2> QED
    BY <1>1, <1>2, <2>1, DivOrder
<1>6. ASSUME ~(x < e * d) PROVE x \div d + 1 = c /\ x - e * d = x % d
  <2>1. ~(x \div d < e)
    BY <1>1, <1>3, <1>6, DivOrder
  <2>2. q % d # 0
    BY <1>1, <1>3, <1>6
  <2>3. x \div d = e
    BY <1>2, <1>3, <1>4, <1>5, <2>1, <2>2
  <2>4. x = e * d + (x % d) /\ e * d \in Nat
    BY <1>1, <1>3, <1>4, <2>3
  <2> QED
    BY <1>2, <1>3, <1>4, <2>2, <2>3, <2>4
<1> QED
  BY <1>5, <1>6 DEF d, c, e

\* What is known of request i of a batch: its slots s with the table g, its length pre[i],
\* the location of its last token, and its share of the list fr, from start + 1 on.
Share(s, g, pre, seq, last, fr, start, i) ==
  /\ s \in Seq(Slots) /\ BlockTable(s, g)
  /\ pre[i] = Len(s) /\ seq[i] \in Nat /\ Len(s) < seq[i]
  /\ s # <<>> => last[i] = s[Len(s)]
  /\ fr \in Seq(Pages) /\ start \in Nat
  /\ start + NewPages(pre, seq, i) <= Len(fr)
Longer(g, pre, seq, fr, start, i) ==
  g \o SubSeq(fr, start + 1, start + NewPages(pre, seq, i))

\* Request i opens a natural number of pages, and its longer table ends with them.
LEMMA ShareIs ==
  ASSUME PageSize \in Nat \ {0}, NEW s, NEW g, NEW pre, NEW seq, NEW last, NEW fr, NEW start,
         NEW i, Share(s, g, pre, seq, last, fr, start, i)
  PROVE  /\ NewPages(pre, seq, i) \in Nat
         /\ Ceil(seq[i]) = Ceil(Len(s)) + NewPages(pre, seq, i) /\ Ceil(Len(s)) \in Nat
         /\ \A k \in 1..Ceil(Len(s)) : Longer(g, pre, seq, fr, start, i)[k] = g[k]
         /\ \A k \in 1..NewPages(pre, seq, i) :
              Longer(g, pre, seq, fr, start, i)[Ceil(Len(s)) + k] = fr[start + k]
<1> DEFINE n == NewPages(pre, seq, i)
           c == Ceil(Len(s))
           e == Ceil(seq[i])
           u == SubSeq(fr, start + 1, start + n)
<1>1. /\ s \in Seq(Slots) /\ Len(s) \in Nat /\ seq[i] \in Nat /\ Len(s) < seq[i]
      /\ fr \in Seq(Pages) /\ start \in Nat /\ start + n <= Len(fr)
      /\ g \in Seq(Pages) /\ Len(g) = c
  BY DEF Share, BlockTable
<1>2. n = e - c
  BY DEF Share, NewPages
<1>3. /\ c \in Nat /\ c * PageSize < Len(s) + PageSize
      /\ e \in Nat /\ seq[i] <= e * PageSize
  BY <1>1, CeilIs, Zenon
<1>4. c <= e
  <2> SUFFICES ASSUME e < c PROVE FALSE
    BY <1>3
  <2>1. e * PageSize + PageSize <= c * PageSize /\ e * PageSize \in Nat /\ c * PageSize \in Nat
    BY <1>3, Times
  <2> QED
    BY <1>1, <1>3, <2>1
<1>5. n \in Nat /\ e = c + n
  BY <1>2, <1>3, <1>4
<1> HIDE DEF n, c, e
<1>6. /\ u \in Seq(Pages) /\ Len(u) = n /\ \A k \in 1..n : u[k] = fr[start + k]
  <2>1. start \in 0..Len(fr) /\ start + n \in start..Len(fr) /\ (start + n) - start = n
    BY <1>1, <1>5
  <2>2. /\ u \in Seq(Pages) /\ Len(u) = (start + n) - start
        /\ \A k \in 1..((start + n) - start) : u[k] = fr[start + k]
    <3>1. Pieced(Pages, fr, start, start + n)
      BY <1>1, <2>1, Piece, Zenon
    <3> QED
      BY <3>1, Zenon DEF Pieced
  <2> QED
    BY <2>1, <2>2
<1> HIDE DEF u
<1>7. /\ \A k \in 1..c : (g \o u)[k] = g[k]
      /\ \A k \in 1..n : (g \o u)[c + k] = u[k]
  <2>1. g \in Seq(Pages) /\ u \in Seq(Pages) /\ Len(g) = c /\ Len(u) = n
    BY <1>1, <1>6
  <2>2. /\ \A k \in 1..Len(g) : (g \o u)[k] = g[k]
        /\ \A k \in 1..Len(u) : (g \o u)[Len(g) + k] = u[k]
    <3>1. g \in Seq(Pages) /\ u \in Seq(Pages)
      BY <2>1
    <3> QED
      BY <3>1
  <2> QED
    BY <2>1, <2>2, Zenon
<1>8. Longer(g, pre, seq, fr, start, i) = g \o u
  BY DEF Longer, u, n
<1> QED
  BY <1>3, <1>5, <1>6, <1>7, <1>8, Zenon DEF n, c, e

\* The number of pages request i opens.
LEMMA ShareCount ==
  ASSUME PageSize \in Nat \ {0}, NEW s, NEW g, NEW pre, NEW seq, NEW last, NEW fr, NEW start,
         NEW i, Share(s, g, pre, seq, last, fr, start, i)
  PROVE  /\ NewPages(pre, seq, i) \in Nat
         /\ Ceil(seq[i]) = Ceil(Len(s)) + NewPages(pre, seq, i) /\ Ceil(Len(s)) \in Nat
BY ShareIs

\* The kernels find the start by a sum; t are the slots from the end of s to n tokens.
StartsAt(start, pre, seq, i) == start = Before([j \in DOMAIN pre |-> NewPages(pre, seq, j)], i)
OneLess(pre, seq) == pre = [j \in DOMAIN seq |-> seq[j] - 1]
FilledTo(t, s, n, h) == t = [k \in 1..(n - Len(s)) |-> Filled(h, Len(s) + k - 1)]

\* alloc_extend_kernel: the three parts fill the table of the longer request.
LEMMA ExtendFills ==
  ASSUME PageSize \in Nat \ {0}, NEW s, NEW g, NEW pre, NEW seq, NEW last, NEW fr, NEW i,
         NEW start, StartsAt(start, pre, seq, i),
         Share(s, g, pre, seq, last, fr, start, i)
  PROVE  FilledTo(ExtendKernel(pre, seq, last, fr, i), s, seq[i],
                  Longer(g, pre, seq, fr, start, i))
<1> DEFINE d == PageSize
           n == NewPages(pre, seq, i)
           p == Len(s)
           q == seq[i]
           c == Ceil(p)
           full == c * d
           part1 == (IF q < full THEN q ELSE full) - p
           part2 == (q \div d) * d - full
           h == Longer(g, pre, seq, fr, start, i)
           value(o) == IF o < part1 THEN last[i] + 1 + o
                       ELSE IF o < part1 + part2
                         THEN fr[start + (o - part1) \div d + 1] * d + ((o - part1) % d)
                       ELSE fr[start + n] * d + (o - part1 - part2)
<1>1. /\ d \in Nat \ {0} /\ s \in Seq(Slots) /\ BlockTable(s, g)
      /\ pre[i] = p /\ p \in Nat /\ q \in Nat /\ p < q
      /\ s # <<>> => last[i] = s[p]
      /\ fr \in Seq(Pages) /\ start \in Nat /\ start + n <= Len(fr)
  BY DEF Share
<1>2. ExtendKernel(pre, seq, last, fr, i) = [k \in 1..(q - p) |-> value(k - 1)]
  BY <1>1 DEF ExtendKernel, StartsAt
<1>3. /\ n \in Nat /\ Ceil(q) = c + n /\ c \in Nat
      /\ \A k \in 1..c : h[k] = g[k]
      /\ \A k \in 1..n : h[c + k] = fr[start + k]
  BY ShareIs
<1>4. /\ g \in Seq(Pages)
      /\ \A j \in 1..p : s[j] = g[(j - 1) \div d + 1] * d + ((j - 1) % d)
      /\ \A j \in 1..p : (j - 1) \div d + 1 \in 1..c
  BY <1>1, TableOf, Zenon DEF BlockTable
<1>5. \A x \in Nat : Filled(h, x) = h[x \div d + 1] * d + (x % d)
  BY DEF Filled
<1>6. \A x \in Nat : p <= x =>
         /\ x < c * d <=> x \div d < c
         /\ x < c * d =>
              p > 0 /\ (p - 1) \div d = x \div d /\ ((p - 1) % d) + 1 + (x - p) = x % d
         /\ ~(x < c * d) =>
              (x - c * d) \div d = x \div d - c /\ (x - c * d) % d = x % d
  BY <1>1, Position, Zenon
<1>7. \A x \in Nat : x < q =>
         /\ x \div d < Ceil(q)
         /\ ~(x < (q \div d) * d) => x \div d + 1 = Ceil(q) /\ x - (q \div d) * d = x % d
  BY <1>1, LastPage, Zenon
<1>8. \A x \in Nat : x \div d \in Nat /\ x % d \in 0..(d - 1)
  BY <1>1, DivMod, Zenon
<1> HIDE DEF d, n, c, h
<1>9. c * d \in Nat /\ (q \div d) * d \in Nat /\ d \in Nat
  <2>1. \A a, b \in Nat : a * b \in Nat
    OBVIOUS
  <2>2. c \in Nat /\ d \in Nat /\ q \div d \in Nat
    BY <1>1, <1>3, <1>8, Zenon
  <2> QED
    BY <2>1, <2>2, Zenon
<1>10. ASSUME NEW k \in 1..(q - p) PROVE value(k - 1) = Filled(h, p + k - 1)
  <2> DEFINE o == k - 1
             x == p + k - 1
  <2>1. x \in Nat /\ p <= x /\ x < q /\ o \in Nat /\ x = p + o /\ o = x - p
    BY <1>1
  <2> HIDE DEF o, x
  <2>2. x \div d \in Nat /\ x % d \in 0..(d - 1)
    BY <1>8, <2>1
  <2>3. CASE x < c * d
    <3>1. o < part1
      BY <1>1, <1>9, <2>1, <2>3
    <3>2. value(o) = last[i] + 1 + o
      <4> HIDE DEF part1, part2
      <4> QED
        BY <3>1
    <3>3. p > 0 /\ (p - 1) \div d = x \div d /\ ((p - 1) % d) + 1 + (x - p) = x % d
      BY <1>6, <2>1, <2>3
    <3>4. s # <<>> /\ p \in 1..p
      BY <1>1, <3>3
    <3>5. /\ last[i] = g[x \div d + 1] * d + ((p - 1) % d)
          /\ x \div d + 1 \in 1..c
      BY <1>1, <1>4, <3>3, <3>4, Zenon
    <3>6. h[x \div d + 1] = g[x \div d + 1] /\ g[x \div d + 1] * d \in Int
      <4>1. g[x \div d + 1] \in Pages
        <5>1. Len(g) = c
          BY <1>1 DEF BlockTable, c
        <5> QED
          BY <1>4, <3>5, <5>1
      <4> QED
        BY <1>3, <1>9, <3>5, <4>1, AllocatorConstants DEF Pages
    <3>7. (p - 1) % d \in 0..(d - 1)
      <4>1. p - 1 \in Nat
        BY <1>1, <3>3
      <4> QED
        BY <1>8, <4>1, Zenon
    <3>8. last[i] + 1 + o = h[x \div d + 1] * d + (x % d)
      <4> DEFINE u == g[x \div d + 1] * d
                 v == (p - 1) % d
                 w == x % d
      <4>1. u \in Int /\ v \in Int /\ w \in Int /\ p \in Int /\ x \in Int
        BY <1>1, <2>1, <2>2, <3>6, <3>7
      <4>2. last[i] = u + v /\ v + 1 + (x - p) = w /\ o = x - p
        BY <2>1, <3>3, <3>5, Zenon
      <4>3. h[x \div d + 1] * d = u
        BY <3>6, Zenon
      <4> HIDE DEF u, v, w
      <4>4. last[i] + 1 + o = u + w
        BY <4>1, <4>2
      <4> QED
        BY <4>3, <4>4, Zenon DEF w
    <3> QED
      BY <1>5, <2>1, <3>2, <3>8 DEF o, x
  <2>4. CASE ~(x < c * d)
    <3>1. part1 = c * d - p /\ ~(o < part1) /\ o - part1 = x - c * d
      BY <1>1, <1>9, <2>1, <2>4
    <3>2. (x - c * d) \div d = x \div d - c /\ (x - c * d) % d = x % d /\ ~(x \div d < c)
      BY <1>6, <2>1, <2>4
    <3>3. part1 + part2 = (q \div d) * d - p
      <4> DEFINE u == (q \div d) * d
                 v == c * d
      <4>1. u \in Int /\ v \in Int /\ p \in Int
        BY <1>1, <1>9
      <4>2. part1 = v - p /\ part2 = u - v
        BY <3>1, Zenon
      <4> HIDE DEF u, v, part1, part2
      <4>3. part1 + part2 = u - p
        BY <4>1, <4>2
      <4> QED
        BY <4>3, Zenon DEF u
    <3>4. o < part1 + part2 <=> x < (q \div d) * d
      <4> DEFINE u == (q \div d) * d
      <4>1. u \in Int /\ p \in Int /\ x \in Int /\ o = x - p
        BY <1>1, <1>9, <2>1
      <4>2. part1 + part2 = u - p
        BY <3>3, Zenon
      <4> HIDE DEF u, part1, part2
      <4>3. o < part1 + part2 <=> x < u
        BY <4>1, <4>2
      <4> QED
        BY <4>3, Zenon DEF u
    <3>5. x \div d < c + n
      BY <1>3, <1>7, <2>1
    <3>6. h[x \div d + 1] = fr[start + (x \div d - c) + 1]
      <4>1. (x \div d - c) + 1 \in 1..n /\ c + ((x \div d - c) + 1) = x \div d + 1
            /\ start + ((x \div d - c) + 1) = start + (x \div d - c) + 1
        <5> DEFINE y == x \div d
        <5>1. y \in Nat /\ c \in Nat /\ n \in Nat /\ start \in Nat /\ ~(y < c) /\ y < c + n
          BY <1>1, <1>3, <2>2, <3>2, <3>5
        <5> HIDE DEF y
        <5>2. (y - c) + 1 \in 1..n /\ c + ((y - c) + 1) = y + 1
              /\ start + ((y - c) + 1) = start + (y - c) + 1
          BY <5>1
        <5> QED
          BY <5>2 DEF y
      <4> QED
        BY <1>3, <4>1
    <3>7. CASE x < (q \div d) * d
      <4>1. value(o) = fr[start + (o - part1) \div d + 1] * d + ((o - part1) % d)
        <5> HIDE DEF part1, part2
        <5> QED
          BY <3>1, <3>4, <3>7
      <4> HIDE DEF value, part1, part2
      <4>2. value(o) = fr[start + (x \div d - c) + 1] * d + (x % d)
        BY <3>1, <3>2, <4>1
      <4> QED
        BY <1>5, <2>1, <3>6, <4>2 DEF o, x
    <3>8. CASE ~(x < (q \div d) * d)
      <4>1. value(o) = fr[start + n] * d + (o - part1 - part2)
        <5> HIDE DEF part1, part2
        <5> QED
          BY <3>1, <3>4, <3>8
      <4>2. x \div d + 1 = c + n /\ x - (q \div d) * d = x % d
        BY <1>3, <1>7, <2>1, <3>8
      <4>3. start + n = start + (x \div d - c) + 1
        <5> DEFINE y == x \div d
        <5>1. y \in Nat /\ c \in Nat /\ n \in Nat /\ start \in Nat /\ y + 1 = c + n
          BY <1>1, <1>3, <2>2, <4>2
        <5> HIDE DEF y
        <5>2. start + n = start + (y - c) + 1
          BY <5>1
        <5> QED
          BY <5>2 DEF y
      <4>4. o - part1 - part2 = x - (q \div d) * d
        BY <1>1, <1>9, <2>1, <3>1
      <4> HIDE DEF value, part1, part2
      <4>5. value(o) = fr[start + (x \div d - c) + 1] * d + (x % d)
        BY <4>1, <4>2, <4>3, <4>4
      <4> QED
        BY <1>5, <2>1, <3>6, <4>5 DEF o, x
    <3> QED
      BY <3>7, <3>8
  <2> QED
    BY <2>3, <2>4
<1> HIDE DEF value
<1>11. [k \in 1..(q - p) |-> value(k - 1)] = [k \in 1..(q - p) |-> Filled(h, p + k - 1)]
  BY <1>10
<1> QED
  BY <1>2, <1>11 DEF h, FilledTo

\* alloc_decode_kernel: the slot after the last one, or the first slot of a new page.
LEMMA DecodeFills ==
  ASSUME PageSize \in Nat \ {0}, NEW s, NEW g, NEW pre, NEW seq, NEW last, NEW fr, NEW i,
         OneLess(pre, seq), NEW start, StartsAt(start, pre, seq, i),
         Share(s, g, pre, seq, last, fr, start, i), seq[i] = Len(s) + 1
  PROVE  FilledTo(DecodeKernel(seq, last, fr, i), s, seq[i],
                  Longer(g, pre, seq, fr, start, i))
<1> DEFINE d == PageSize
           n == NewPages(pre, seq, i)
           p == Len(s)
           c == Ceil(p)
           h == Longer(g, pre, seq, fr, start, i)
           value == IF n = 0 THEN last[i] + 1 ELSE fr[start + 1] * d
<1>1. /\ d \in Nat \ {0} /\ s \in Seq(Slots) /\ BlockTable(s, g)
      /\ p \in Nat /\ seq[i] = p + 1
      /\ s # <<>> => last[i] = s[p]
      /\ fr \in Seq(Pages) /\ start \in Nat /\ start + n <= Len(fr)
  BY DEF Share
<1>2. DecodeKernel(seq, last, fr, i) = <<value>>
  <2>1. DOMAIN pre = DOMAIN seq
    BY DEF OneLess
  <2> QED
    BY <2>1 DEF DecodeKernel, OneLess, StartsAt
<1>3. /\ n \in Nat /\ Ceil(p + 1) = c + n /\ c \in Nat
      /\ \A k \in 1..c : h[k] = g[k]
      /\ \A k \in 1..n : h[c + k] = fr[start + k]
  <2>1. /\ n \in Nat /\ Ceil(seq[i]) = c + n /\ c \in Nat
        /\ \A k \in 1..c : h[k] = g[k]
        /\ \A k \in 1..n : h[c + k] = fr[start + k]
    BY ShareIs
  <2> QED
    BY <1>1, <2>1, Zenon
<1>4. /\ g \in Seq(Pages) /\ Len(g) = c
      /\ \A j \in 1..p : s[j] = g[(j - 1) \div d + 1] * d + ((j - 1) % d)
      /\ \A j \in 1..p : (j - 1) \div d + 1 \in 1..c
  BY <1>1, TableOf, Zenon DEF BlockTable
<1>5. Filled(h, p) = h[p \div d + 1] * d + (p % d)
  BY DEF Filled
<1>6. /\ p < c * d <=> p \div d < c
      /\ p < c * d =>
           p > 0 /\ (p - 1) \div d = p \div d /\ ((p - 1) % d) + 1 + (p - p) = p % d
      /\ ~(p < c * d) => (p - c * d) \div d = p \div d - c /\ (p - c * d) % d = p % d
  <2>1. p <= p
    BY <1>1
  <2> QED
    BY <1>1, <2>1, Position, Zenon
<1>7. p \div d < c + n
  <2>1. p + 1 \in Nat /\ p < p + 1
    BY <1>1
  <2> QED
    BY <1>1, <1>3, <2>1, LastPage, Zenon
<1>8. /\ p \div d \in Nat /\ p % d \in 0..(d - 1) /\ p = (p \div d) * d + (p % d)
  BY <1>1, DivMod, Zenon
<1>9. /\ p <= c * d
      /\ Ceil(p + 1) * d < (p + 1) + d
  <2>1. p + 1 \in Nat
    BY <1>1
  <2> QED
    BY <1>1, <2>1, CeilIs
<1> HIDE DEF d, n, c, h
<1>10. value = Filled(h, p)
  <2>1. CASE p < c * d
    <3>1. n = 0
      <4> SUFFICES ASSUME n # 0 PROVE FALSE
        OBVIOUS
      <4>1. c < c + n /\ c + n \in Nat
        BY <1>3
      <4>2. c * d + d <= (c + n) * d /\ c * d \in Nat /\ (c + n) * d \in Nat
        BY <1>1, <1>3, <4>1, Times
      <4> DEFINE x == c * d
                 y == (c + n) * d
      <4>3. x + d <= y /\ x \in Nat /\ y \in Nat /\ p < x /\ y < (p + 1) + d
        BY <1>3, <1>9, <2>1, <4>2
      <4> HIDE DEF x, y
      <4> QED
        BY <1>1, <4>3
    <3>2. p > 0 /\ (p - 1) \div d = p \div d /\ ((p - 1) % d) + 1 = p % d
      <4>1. (p - 1) % d \in Int
        BY <1>1
      <4> QED
        BY <1>1, <1>6, <2>1, <4>1
    <3>3. s # <<>> /\ p \in 1..p
      BY <1>1, <3>2
    <3>4. /\ last[i] = g[p \div d + 1] * d + ((p - 1) % d)
          /\ p \div d + 1 \in 1..c
      BY <1>1, <1>4, <3>2, <3>3
    <3>5. h[p \div d + 1] = g[p \div d + 1] /\ g[p \div d + 1] * d \in Int
      <4>1. g[p \div d + 1] \in Pages
        BY <1>4, <3>4
      <4> QED
        BY <1>1, <1>3, <3>4, <4>1, AllocatorConstants DEF Pages
    <3>6. (p - 1) % d \in Int
      BY <1>1
    <3> QED
      BY <1>5, <1>8, <3>1, <3>2, <3>4, <3>5, <3>6
  <2>2. CASE ~(p < c * d)
    <3>1. p = c * d + 0 /\ 0 \in 0..(d - 1)
      BY <1>1, <1>3, <1>9, <2>2
    <3>2. p \div d = c /\ p % d = 0
      <4>1. (c * d + 0) \div d = c /\ (c * d + 0) % d = 0
        BY <1>1, <1>3, <3>1, DivIs, Zenon
      <4> QED
        BY <3>1, <4>1, Zenon
    <3>3. n # 0 /\ 1 \in 1..n
      BY <1>3, <1>7, <3>2
    <3>4. h[p \div d + 1] = fr[start + 1]
      BY <1>3, <3>2, <3>3
    <3>5. fr[start + 1] * d \in Int
      <4>1. fr[start + 1] \in Pages
        BY <1>1, <1>3, <3>3
      <4> QED
        BY <1>1, <4>1, AllocatorConstants DEF Pages
    <3> QED
      BY <1>5, <3>2, <3>3, <3>4, <3>5
  <2> QED
    BY <2>1, <2>2
<1> HIDE DEF value
<1>11. seq[i] - p = 1 /\ p + 1 - 1 = p
  BY <1>1
<1>12. <<value>> = [k \in 1..1 |-> Filled(h, p + k - 1)]
  BY <1>10, <1>11
<1> QED
  BY <1>2, <1>11, <1>12 DEF h, FilledTo
-----------------------------------------------------------------------------
(* A batch.                                                                *)

\* The pages of the requests of a batch lie side by side in the list.
LEMMA SideBySide ==
  ASSUME NEW n \in Nat, NEW f \in [1..n -> Nat]
  PROVE  /\ Total(f) \in Nat
         /\ \A i \in 1..n : Before(f, i) \in Nat /\ Before(f, i) + f[i] <= Total(f)
         /\ \A i, j \in 1..n : i # j =>
              \A x \in 1..f[i], y \in 1..f[j] : Before(f, i) + x # Before(f, j) + y
         /\ \A p \in 1..Total(f) : \E i \in 1..n : \E x \in 1..f[i] : p = Before(f, i) + x
<1> DEFINE S(i) == Sum(f, 1..i)
<1>1. /\ S(0) = 0
      /\ \A i \in 0..n : S(i) \in Nat
      /\ \A i \in 1..n : S(i) = S(i - 1) + f[i]
      /\ \A i, j \in 0..n : i <= j => S(i) <= S(j)
  BY SumStep, Zenon
<1>2. Total(f) = S(n) /\ \A i \in 1..n : Before(f, i) = S(i - 1)
  BY DEF Total, Before
<1> HIDE DEF S
<1>3. \A i \in 1..n : f[i] \in Nat /\ i - 1 \in 0..n /\ i \in 0..n /\ n \in 0..n
  OBVIOUS
<1>4. \A i \in 1..n : S(i - 1) \in Nat /\ S(i - 1) + f[i] <= S(n)
  BY <1>1, <1>3
<1>5. \A i, j \in 1..n : i < j => \A x \in 1..f[i], y \in 1..f[j] : S(i - 1) + x # S(j - 1) + y
  <2> SUFFICES ASSUME NEW i \in 1..n, NEW j \in 1..n, i < j, NEW x \in 1..f[i], NEW y \in 1..f[j]
               PROVE  S(i - 1) + x # S(j - 1) + y
    OBVIOUS
  <2>1. S(i) <= S(j - 1)
    <3>1. i \in 0..n /\ j - 1 \in 0..n /\ i <= j - 1
      OBVIOUS
    <3> QED
      BY <1>1, <3>1
  <2>2. /\ S(i) = S(i - 1) + f[i] /\ S(i - 1) \in Nat /\ S(i) \in Nat /\ S(j - 1) \in Nat
        /\ f[i] \in Nat /\ f[j] \in Nat
    BY <1>1, <1>3
  <2> QED
    BY <2>1, <2>2
<1>6. \A i, j \in 1..n : i # j => \A x \in 1..f[i], y \in 1..f[j] : S(i - 1) + x # S(j - 1) + y
  <2> SUFFICES ASSUME NEW i \in 1..n, NEW j \in 1..n, i # j, NEW x \in 1..f[i], NEW y \in 1..f[j]
               PROVE  S(i - 1) + x # S(j - 1) + y
    OBVIOUS
  <2>1. i < j \/ j < i
    OBVIOUS
  <2> QED
    BY <1>5, <2>1
<1> DEFINE Found(p) == \E i \in 1..n : \E x \in 1..f[i] : p = S(i - 1) + x
           T == {m \in Nat : m <= n => \A p \in 1..S(m) : Found(p)}
<1>7. \A p \in 1..S(n) : Found(p)
  <2>1. 0 \in T
    BY <1>1
  <2>2. ASSUME NEW m \in T PROVE m + 1 \in T
    <3> HIDE DEF Found
    <3>1. m \in Nat /\ (m <= n => \A p \in 1..S(m) : Found(p))
      OBVIOUS
    <3> SUFFICES ASSUME m + 1 <= n, NEW p \in 1..S(m + 1) PROVE Found(p)
      BY <3>1
    <3> HIDE DEF T
    <3>2. m <= n /\ m \in 0..n /\ m + 1 \in 1..n /\ (m + 1) - 1 = m
      BY <3>1
    <3>3. S(m + 1) = S(m) + f[m + 1] /\ S(m) \in Nat /\ f[m + 1] \in Nat
      BY <1>1, <1>3, <3>2
    <3>4. CASE p \in 1..S(m)
      BY <3>1, <3>2, <3>4, Zenon
    <3>5. CASE p \notin 1..S(m)
      <4>1. p - S(m) \in 1..f[m + 1] /\ p = S((m + 1) - 1) + (p - S(m))
        BY <3>2, <3>3, <3>5
      <4> QED
        BY <3>2, <4>1, Zenon DEF Found
    <3> QED
      BY <3>4, <3>5
  <2> HIDE DEF T
  <2>3. T \in SUBSET Nat
    BY DEF T
  <2>4. T = Nat
    BY <2>1, <2>2, <2>3, NatSet, Zenon
  <2>5. n \in T /\ n <= n
    BY <2>4
  <2> QED
    BY <2>5 DEF T
<1> QED
  <2>1. S(n) \in Nat
    BY <1>1, <1>3
  <2> QED
    BY <1>2, <1>4, <1>6, <1>7, <2>1

\* A batch b of n requests of k, their lengths before and after, and their last slots.
BatchOf(k, n, b, pre, seq, last) ==
  /\ n \in Nat /\ b \in [1..n -> Owners]
  /\ \A i, j \in 1..n : b[i] = b[j] => i = j
  /\ pre \in [1..n -> Nat] /\ seq \in [1..n -> Nat]
  /\ \A i \in 1..n : /\ pre[i] = Len(k[b[i]]) /\ pre[i] < seq[i]
                     /\ k[b[i]] # <<>> => last[i] = k[b[i]][Len(k[b[i]])]

\* f counts the pages the requests open.
Counts(n, pre, seq, f) == f = [i \in 1..n |-> NewPages(pre, seq, i)] /\ f \in [1..n -> Nat]

\* kn is k with the slots out[i] appended for request i.
Appends(k, n, b, out, kn) ==
  kn = [o \in Owners |-> k[o] \o (IF \E i \in 1..n : b[i] = o
          THEN out[CHOOSE i \in 1..n : b[i] = o] ELSE <<>>)]

\* A kernel served request i its share of the list.
Served(k, b, pre, seq, last, fr, f, out, i) ==
  \A g : Share(k[b[i]], g, pre, seq, last, fr, Before(f, i), i) =>
           out[i] = [x \in 1..(seq[i] - Len(k[b[i]])) |->
                       Filled(Longer(g, pre, seq, fr, Before(f, i), i), Len(k[b[i]]) + x - 1)]

\* The requests of kn hold what they held in k, and each the pages got[o] besides.
Grows(k, kn, got, P) ==
  /\ got \in [Owners -> SUBSET P]
  /\ \A o, p \in Owners : o # p => got[o] \cap got[p] = {}
  /\ \A o \in Owners : PagesOf(kn[o]) = PagesOf(k[o]) \cup got[o]
  /\ UNION {got[o] : o \in Owners} = P

OneGrown(k, b, out, fr, f, i) ==
  /\ k[b[i]] \o out[i] \in Seq(Slots)
  /\ \E g \in Seq(Pages) : BlockTable(k[b[i]] \o out[i], g)
  /\ PagesOf(k[b[i]] \o out[i])
       = PagesOf(k[b[i]]) \cup Seg(fr, Before(f, i), Before(f, i) + f[i])

\* One request of a batch: its slots, its table and its pages grow by its share.
LEMMA OneGrows ==
  ASSUME PageSize \in Nat \ {0}, NEW k, NEW G, KvInv(k, G),
         NEW n, NEW b, NEW pre, NEW seq, NEW last, BatchOf(k, n, b, pre, seq, last),
         NEW fr \in Seq(Pages), IsInjective(fr), Apart(ToSet(fr), UsedBy(k)),
         NEW f, Counts(n, pre, seq, f), NEW out, NEW i \in 1..n,
         Served(k, b, pre, seq, last, fr, f, out, i),
         Before(f, i) \in Nat, Before(f, i) + f[i] <= Len(fr)
  PROVE  OneGrown(k, b, out, fr, f, i)
<1> DEFINE s == k[b[i]]
           start == Before(f, i)
           u == SubSeq(fr, start + 1, start + f[i])
<1>1. b[i] \in Owners /\ pre[i] = Len(s) /\ seq[i] \in Nat /\ Len(s) < seq[i]
      /\ (s # <<>> => last[i] = s[Len(s)])
  BY DEF BatchOf
<1>2. s \in Seq(Slots) /\ PagesOf(s) \subseteq UsedBy(k)
  BY <1>1, Zenon DEF KvInv, UsedBy
<1>3. PICK g \in Seq(Pages) : BlockTable(s, g)
  BY <1>1, Zenon DEF KvInv
<1>4. f[i] = NewPages(pre, seq, i)
  BY DEF Counts
<1> HIDE DEF s, start
<1>5. Share(s, g, pre, seq, last, fr, start, i)
  BY <1>1, <1>2, <1>3, <1>4 DEF Share, start
<1>6. f[i] \in Nat /\ Ceil(seq[i]) = Ceil(Len(s)) + f[i] /\ Ceil(Len(s)) \in Nat
  <2>1. /\ NewPages(pre, seq, i) \in Nat
        /\ Ceil(seq[i]) = Ceil(Len(s)) + NewPages(pre, seq, i) /\ Ceil(Len(s)) \in Nat
    BY <1>5, ShareCount
  <2> QED
    BY <1>4, <2>1, Zenon
<1>7. /\ u \in Seq(Pages) /\ IsInjective(u) /\ Len(u) = f[i]
      /\ ToSet(u) = Seg(fr, start, start + f[i])
  <2>1. start \in 0..Len(fr) /\ start + f[i] \in start..Len(fr) /\ (start + f[i]) - start = f[i]
    BY <1>6 DEF start
  <2>2. Pieced(Pages, fr, start, start + f[i])
    BY <2>1, Piece, Zenon
  <2> QED
    BY <2>1, <2>2 DEF Pieced
<1>8. ToSet(u) \cap PagesOf(s) = {}
  <2>1. Seg(fr, start, start + f[i]) \subseteq ToSet(fr)
    <3>1. \A x \in (start + 1)..(start + f[i]) : x \in DOMAIN fr
      BY <1>6 DEF start
    <3> QED
      BY <3>1 DEF Seg, ToSet
  <2> QED
    BY <1>2, <1>7, <2>1 DEF Apart
<1> HIDE DEF u
<1>9. out[i] = [x \in 1..(seq[i] - Len(s)) |-> Filled(g \o u, Len(s) + x - 1)]
  <2>1. Longer(g, pre, seq, fr, start, i) = g \o u
    BY <1>4 DEF Longer, u
  <2>2. out[i] = [x \in 1..(seq[i] - Len(s)) |->
                    Filled(Longer(g, pre, seq, fr, start, i), Len(s) + x - 1)]
    BY <1>5, Zenon DEF Served, s, start
  <2> QED
    BY <2>1, <2>2
<1>10. Len(u) = Ceil(seq[i]) - Ceil(Len(s)) /\ Len(s) <= seq[i]
  <2>1. Len(s) \in Nat
    BY <1>2
  <2> QED
    BY <1>1, <1>6, <1>7, <2>1
<1>11. /\ s \o out[i] \in Seq(Slots) /\ BlockTable(s \o out[i], g \o u)
       /\ PagesOf(s \o out[i]) = PagesOf(s) \cup ToSet(u)
  <2>1. u \in Seq(Pages) /\ IsInjective(u)
    BY <1>7
  <2>2. seq[i] \in Nat
    BY <1>1
  <2>3. Growth(s, g, seq[i], u, out[i])
    BY <1>2, <1>3, <1>8, <1>9, <1>10, <2>1, <2>2, Zenon DEF Growth
  <2> QED
    BY <2>3, GrowTable, Zenon
<1>12. g \o u \in Seq(Pages)
  BY <1>3, <1>7
<1> QED
  BY <1>7, <1>11, <1>12, Zenon DEF s, start, OneGrown

\* The batch: no page is handed to two requests, and none of those cut off is lost.
LEMMA BatchGrows ==
  ASSUME PageSize \in Nat \ {0}, NEW k, NEW G, KvInv(k, G),
         NEW n, NEW b, NEW pre, NEW seq, NEW last, BatchOf(k, n, b, pre, seq, last),
         NEW fr \in Seq(Pages), IsInjective(fr),
         Apart(ToSet(fr), UsedBy(k)), Apart(ToSet(fr), G),
         NEW f, Counts(n, pre, seq, f), Total(f) <= Len(fr),
         NEW out, \A i \in 1..n : Served(k, b, pre, seq, last, fr, f, out, i),
         NEW kn, Appends(k, n, b, out, kn)
  PROVE  KvInv(kn, G) /\ \E got : Grows(k, kn, got, Seg(fr, 0, Total(f)))
<1> DEFINE In(o) == \E i \in 1..n : b[i] = o
           at(o) == CHOOSE i \in 1..n : b[i] = o
           part(i) == Seg(fr, Before(f, i), Before(f, i) + f[i])
           got == [o \in Owners |-> IF In(o) THEN part(at(o)) ELSE {}]
           all == Seg(fr, 0, Total(f))
<1>1. n \in Nat /\ b \in [1..n -> Owners] /\ \A i, j \in 1..n : b[i] = b[j] => i = j
  BY DEF BatchOf
<1>0. f \in [1..n -> Nat]
  BY DEF Counts
<1>2. /\ Total(f) \in Nat
      /\ \A i \in 1..n : Before(f, i) \in Nat /\ Before(f, i) + f[i] <= Total(f)
      /\ \A i, j \in 1..n : i # j =>
           \A x \in 1..f[i], y \in 1..f[j] : Before(f, i) + x # Before(f, j) + y
      /\ \A p \in 1..Total(f) : \E i \in 1..n : \E x \in 1..f[i] : p = Before(f, i) + x
  BY <1>0, <1>1, SideBySide, Zenon
<1>3. \A i \in 1..n : f[i] \in Nat /\ Before(f, i) \in Nat /\ Before(f, i) + f[i] <= Len(fr)
  BY <1>0, <1>2
<1>4. \A i \in 1..n : \A y : y \in part(i) <=> \E x \in 1..f[i] : y = fr[Before(f, i) + x]
  <2> SUFFICES ASSUME NEW i \in 1..n, NEW y
               PROVE  y \in part(i) <=> \E x \in 1..f[i] : y = fr[Before(f, i) + x]
    BY Zenon
  <2> DEFINE B == Before(f, i)
             m == f[i]
  <2>1. B \in Nat /\ m \in Nat
    BY <1>3
  <2> HIDE DEF B, m
  <2>2. y \in Seg(fr, B, B + m) <=> \E z \in (B + 1)..(B + m) : y = fr[z]
    BY DEF Seg
  <2>3. (\E z \in (B + 1)..(B + m) : y = fr[z]) => \E x \in 1..m : y = fr[B + x]
    <3> SUFFICES ASSUME NEW z \in (B + 1)..(B + m), y = fr[z] PROVE \E x \in 1..m : y = fr[B + x]
      OBVIOUS
    <3>1. z - B \in 1..m /\ B + (z - B) = z
      BY <2>1
    <3> QED
      BY <3>1
  <2>4. \A x \in 1..m : B + x \in (B + 1)..(B + m)
    BY <2>1
  <2> QED
    BY <2>2, <2>3, <2>4, Zenon DEF B, m
<1> HIDE DEF part
<1>5. \A o \in Owners : In(o) => at(o) \in 1..n /\ b[at(o)] = o
  BY Zenon
<1>6. \A i \in 1..n : b[i] \in Owners /\ In(b[i]) /\ at(b[i]) = i
  <2> TAKE i \in 1..n
  <2>1. b[i] \in Owners /\ In(b[i])
    BY <1>1
  <2>2. at(b[i]) \in 1..n /\ b[at(b[i])] = b[i]
    BY <1>5, <2>1, Zenon
  <2> QED
    BY <1>1, <2>1, <2>2, Zenon
<1>7. \A o \in Owners : kn[o] = k[o] \o (IF In(o) THEN out[at(o)] ELSE <<>>)
  BY Zenon DEF Appends
<1> HIDE DEF In, at
<1>8. k \in [Owners -> Seq(Slots)]
  BY DEF KvInv
<1>9. ASSUME NEW o \in Owners
      PROVE  /\ kn[o] \in Seq(Slots)
             /\ \E g \in Seq(Pages) : BlockTable(kn[o], g)
             /\ PagesOf(kn[o]) = PagesOf(k[o]) \cup got[o]
  <2>1. CASE In(o)
    <3>1. at(o) \in 1..n /\ b[at(o)] = o /\ kn[o] = k[o] \o out[at(o)] /\ got[o] = part(at(o))
      BY <1>5, <1>7, <2>1, Zenon
    <3>2. PICK i \in 1..n : i = at(o)
      BY <3>1
    <3>3. /\ k[b[i]] \o out[i] \in Seq(Slots)
          /\ \E g \in Seq(Pages) : BlockTable(k[b[i]] \o out[i], g)
          /\ PagesOf(k[b[i]] \o out[i])
               = PagesOf(k[b[i]]) \cup Seg(fr, Before(f, i), Before(f, i) + f[i])
      <4>1. OneGrown(k, b, out, fr, f, i)
        BY <1>3, OneGrows, Zenon
      <4> QED
        BY <4>1, Zenon DEF OneGrown
    <3> QED
      BY <3>1, <3>2, <3>3, Zenon DEF part
  <2>2. CASE ~In(o)
    <3>1. kn[o] = k[o] \o <<>> /\ got[o] = {}
      BY <1>7, <2>2, Zenon
    <3>2. k[o] \in Seq(Slots)
      BY <1>8
    <3>3. k[o] \o <<>> = k[o]
      BY <3>2
    <3> QED
      BY <3>1, <3>2, <3>3, Zenon DEF KvInv
  <2> QED
    BY <2>1, <2>2, Zenon
<1>10. \A i \in 1..n : \A x \in 1..f[i] :
         Before(f, i) + x \in 1..Total(f) /\ Before(f, i) + x \in DOMAIN fr
  <2>1. Len(fr) \in Nat /\ DOMAIN fr = 1..Len(fr)
    OBVIOUS
  <2> TAKE i \in 1..n
  <2>2. f[i] \in Nat /\ Before(f, i) \in Nat /\ Before(f, i) + f[i] <= Total(f) /\ Total(f) \in Nat
    BY <1>2, <1>3
  <2> QED
    BY <2>1, <2>2
<1>11. \A y : y \in all <=> \E p \in 1..Total(f) : y = fr[p]
  <2>1. (0 + 1)..Total(f) = 1..Total(f)
    OBVIOUS
  <2> QED
    BY <2>1, Zenon DEF Seg
<1> HIDE DEF all
<1>12. \A i \in 1..n : part(i) \subseteq all
  <2> SUFFICES ASSUME NEW i \in 1..n, NEW y \in part(i) PROVE y \in all
    OBVIOUS
  <2>1. PICK x \in 1..f[i] : y = fr[Before(f, i) + x]
    BY <1>4, Zenon
  <2> QED
    BY <1>10, <1>11, <2>1, Zenon
<1>13. all \subseteq UNION {part(i) : i \in 1..n}
  <2> SUFFICES ASSUME NEW y \in all PROVE \E i \in 1..n : y \in part(i)
    OBVIOUS
  <2>1. PICK p \in 1..Total(f) : y = fr[p]
    BY <1>11, Zenon
  <2>2. PICK i \in 1..n : \E x \in 1..f[i] : p = Before(f, i) + x
    BY <1>2, Zenon
  <2> QED
    BY <1>4, <2>1, <2>2, Zenon
<1>14. \A i, j \in 1..n : i # j => part(i) \cap part(j) = {}
  <2> SUFFICES ASSUME NEW i \in 1..n, NEW j \in 1..n, i # j, NEW y \in part(i), y \in part(j)
               PROVE  FALSE
    OBVIOUS
  <2>1. PICK x \in 1..f[i] : y = fr[Before(f, i) + x]
    BY <1>4, Zenon
  <2>2. PICK z \in 1..f[j] : y = fr[Before(f, j) + z]
    BY <1>4, Zenon
  <2>3. Before(f, i) + x = Before(f, j) + z
    BY <1>10, <2>1, <2>2, Zenon DEF IsInjective
  <2> QED
    BY <1>2, <2>3
<1>15. \A o, p \in Owners : o # p => got[o] \cap got[p] = {}
  <2> SUFFICES ASSUME NEW o \in Owners, NEW p \in Owners, o # p, In(o), In(p)
               PROVE  part(at(o)) \cap part(at(p)) = {}
    BY Zenon
  <2>1. at(o) \in 1..n /\ at(p) \in 1..n /\ at(o) # at(p)
    BY <1>5, Zenon
  <2> QED
    BY <1>14, <2>1, Zenon
<1>16. \A o \in Owners : got[o] \subseteq all
  BY <1>5, <1>12
<1>17. got \in [Owners -> SUBSET all] /\ UNION {got[o] : o \in Owners} = all
  <2>1. got \in [Owners -> SUBSET all]
    BY <1>16
  <2>2. \A i \in 1..n : b[i] \in Owners /\ got[b[i]] = part(i)
    BY <1>6
  <2>3. \A y \in all : \E o \in Owners : y \in got[o]
    <3> TAKE y \in all
    <3>1. PICK i \in 1..n : y \in part(i)
      BY <1>13
    <3> QED
      BY <2>2, <3>1, Zenon
  <2> HIDE DEF got, all
  <2>4. UNION {got[o] : o \in Owners} \subseteq all
    BY <1>16
  <2>5. all \subseteq UNION {got[o] : o \in Owners}
    BY <2>3
  <2> QED
    BY <2>1, <2>4, <2>5
<1> HIDE DEF got
<1>18. all \subseteq ToSet(fr)
  <2>1. \A p \in 1..Total(f) : p \in DOMAIN fr
    <3>1. Len(fr) \in Nat /\ DOMAIN fr = 1..Len(fr)
      OBVIOUS
    <3> QED
      BY <1>2, <3>1
  <2> QED
    BY <1>11, <2>1, Zenon DEF ToSet
<1> HIDE DEF all
<1>19. \A o, p \in Owners : o # p => PagesOf(kn[o]) \cap PagesOf(kn[p]) = {}
  <2> SUFFICES ASSUME NEW o \in Owners, NEW p \in Owners, o # p
               PROVE  PagesOf(kn[o]) \cap PagesOf(kn[p]) = {}
    OBVIOUS
  <2>1. PagesOf(k[o]) \cap PagesOf(k[p]) = {} /\ got[o] \cap got[p] = {}
    BY <1>15, Zenon DEF KvInv
  <2>2. PagesOf(k[o]) \subseteq UsedBy(k) /\ PagesOf(k[p]) \subseteq UsedBy(k)
    BY DEF UsedBy
  <2>3. got[o] \cap UsedBy(k) = {} /\ got[p] \cap UsedBy(k) = {}
    BY <1>16, <1>18 DEF Apart
  <2>4. PagesOf(kn[o]) = PagesOf(k[o]) \cup got[o] /\ PagesOf(kn[p]) = PagesOf(k[p]) \cup got[p]
    BY <1>9, Zenon
  <2> QED
    BY <2>1, <2>2, <2>3, <2>4, Zenon
<1>20. \A o \in Owners : PagesOf(kn[o]) \cap G = {}
  <2> TAKE o \in Owners
  <2>1. PagesOf(k[o]) \cap G = {} /\ got[o] \cap G = {}
    BY <1>16, <1>18, Zenon DEF KvInv, Apart
  <2> QED
    BY <1>9, <2>1, Zenon
<1>21. kn \in [Owners -> Seq(Slots)]
  <2>1. kn = [o \in Owners |-> kn[o]]
    BY Zenon DEF Appends
  <2> QED
    BY <1>9, <2>1
<1>22. KvInv(kn, G)
  BY <1>9, <1>19, <1>20, <1>21, Zenon DEF KvInv
<1>23. Grows(k, kn, got, all)
  BY <1>9, <1>15, <1>17, Zenon DEF Grows
<1> QED
  BY <1>22, <1>23 DEF all

\* Cutting the first n pages off the free list.
LEMMA TakeHolds ==
  ASSUME NEW S, NEW l, Holds(l, S), NEW n \in 0..Len(l.free)
  PROVE  Holds([free |-> SubSeq(l.free, n + 1, Len(l.free)), release |-> l.release],
               S \ Seg(l.free, 0, n))
<1> DEFINE F == l.free
           u == SubSeq(F, n + 1, Len(F))
           m == [free |-> u, release |-> l.release]
<1>1. /\ F \in Seq(Pages) /\ l.release \in Seq(Pages)
      /\ IsInjective(F) /\ IsInjective(l.release)
      /\ ToSet(F) \cap ToSet(l.release) = {}
      /\ S = ToSet(F) \cup ToSet(l.release)
  BY DEF Holds
<1>2. n \in 0..Len(F) /\ Len(F) \in n..Len(F)
  BY <1>1
<1> HIDE DEF F
<1>3. u \in Seq(Pages) /\ IsInjective(u) /\ ToSet(u) = Seg(F, n, Len(F))
  <2>1. Pieced(Pages, F, n, Len(F))
    BY <1>1, <1>2, Piece, Zenon
  <2> QED
    BY <1>1, <2>1, Zenon DEF Pieced
<1>4. Seg(F, n, Len(F)) = ToSet(F) \ Seg(F, 0, n) /\ Seg(F, 0, n) \subseteq ToSet(F)
  BY <1>1, <1>2, Cut
<1> HIDE DEF u
<1>5. /\ m \in [free : Seq(Pages), release : Seq(Pages)] /\ m.free = u /\ m.release = l.release
  BY <1>1, <1>3
<1>6. /\ ToSet(u) \cap ToSet(l.release) = {}
      /\ S \ Seg(F, 0, n) = ToSet(u) \cup ToSet(l.release)
  BY <1>1, <1>3, <1>4
<1> HIDE DEF m
<1>7. Holds(m, S \ Seg(F, 0, n))
  BY <1>1, <1>3, <1>5, <1>6, Zenon DEF Holds
<1> QED
  BY <1>7 DEF m, u, F
=============================================================================
