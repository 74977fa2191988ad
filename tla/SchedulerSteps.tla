-------------------------- MODULE SchedulerSteps ----------------------------
(***************************************************************************)
(* Where the scheduler keeps its requests, for every set of requests and   *)
(* every configuration: the operations on its lists, the two invariants,   *)
(* and the steps up to the scan of the waiting queue.                      *)
(***************************************************************************)
EXTENDS Scheduler, FiniteSetTheorems, NaturalsInduction, TLAPS

USE SMTT(30)
-----------------------------------------------------------------------------
(* Induction and recursion.                                                *)

\* Induction on a set: one that has 0 and every successor has all the naturals.
LEMMA NatSet ==
  ASSUME NEW S \in SUBSET Nat, 0 \in S, \A n \in S : n + 1 \in S
  PROVE  S = Nat
<1> DEFINE R == OpToRel(<, Nat)
<1>1. IsWellFoundedOn(R, Nat)
  BY NatLessThanWellFounded, Zenon
<1>2. \A x, y \in Nat : y < x => <<y, x>> \in R
  BY Zenon DEF OpToRel
<1> HIDE DEF R
<1> SUFFICES ASSUME Nat \ S # {} PROVE FALSE
  BY Zenon
<1>3. PICK m \in Nat \ S : \A y \in Nat \ S : ~(<<y, m>> \in R)
  BY <1>1, WFMin, Zenon
<1>4. \A y \in Nat \ S : ~(y < m)
  BY <1>2, <1>3, Zenon
<1>5. m - 1 \in Nat /\ m - 1 < m
  BY <1>3
<1>6. m - 1 \in S
  BY <1>4, <1>5
<1> QED
  BY <1>3, <1>6

\* The same up to a bound.
LEMMA UpTo ==
  ASSUME NEW N \in Nat, NEW S, 0 \in S, \A i \in 1..N : i - 1 \in S => i \in S
  PROVE  0..N \subseteq S
<1> DEFINE T == {n \in Nat : n <= N => n \in S}
<1>1. 0 \in T
  OBVIOUS
<1>2. \A n \in T : n + 1 \in T
  <2> TAKE n \in T
  <2>1. CASE n + 1 <= N
    <3>1. n + 1 \in 1..N /\ n \in S /\ n = (n + 1) - 1
      BY <2>1
    <3> QED
      BY <3>1
  <2>2. CASE ~(n + 1 <= N)
    BY <2>2
  <2> QED
    BY <2>1, <2>2
<1>3. T \in SUBSET Nat
  OBVIOUS
<1> HIDE DEF T
<1>4. T = Nat
  BY <1>1, <1>2, <1>3, NatSet, Zenon
<1> QED
  BY <1>4 DEF T

\* A function given by its value at 0 and by steps.
Steps(n, V, base, step, f) ==
  f \in [0..n -> V] /\ f[0] = base /\ \A i \in 1..n : f[i] = step[<<i, f[i - 1]>>]

\* Such a function exists.
LEMMA Recursion ==
  ASSUME NEW N \in Nat, NEW V, NEW base \in V, NEW step \in [(1..N) \X V -> V]
  PROVE  \E f : Steps(N, V, base, step, f)
<1> DEFINE G(n, f) == Steps(n, V, base, step, f)
           S == {n \in 0..N : \E f : G(n, f)}
<1>1. 0 \in S
  <2>1. G(0, [i \in 0..0 |-> base])
    BY DEF Steps
  <2> HIDE DEF G
  <2>2. \E f : G(0, f)
    BY <2>1, Zenon
  <2> QED
    BY <2>2
<1>2. ASSUME NEW n \in 1..N, n - 1 \in S PROVE n \in S
  <2>1. PICK f : G(n - 1, f)
    BY <1>2
  <2> DEFINE v == step[<<n, f[n - 1]>>]
             g == [i \in 0..n |-> IF i = n THEN v ELSE f[i]]
  <2>2. f[n - 1] \in V
    BY <2>1 DEF Steps
  <2>3. v \in V
    BY <2>2
  <2>4. g \in [0..n -> V] /\ g[0] = base
    BY <2>1, <2>3 DEF Steps
  <2>5. \A i \in 1..n : g[i] = step[<<i, g[i - 1]>>]
    <3> TAKE i \in 1..n
    <3>1. g[i - 1] = f[i - 1]
      <4>1. i - 1 \in 0..n /\ i - 1 # n
        OBVIOUS
      <4> QED
        BY <4>1, Zenon
    <3>2. CASE i = n
      <4>1. i \in 0..n
        OBVIOUS
      <4>2. g[i] = v
        BY <3>2, <4>1, Zenon
      <4> QED
        BY <3>1, <3>2, <4>2, Zenon
    <3>3. CASE i # n
      <4>1. i \in 1..(n - 1) /\ g[i] = f[i]
        <5>1. i \in 1..(n - 1) /\ i \in 0..n
          BY <3>3
        <5> QED
          BY <3>3, <5>1, Zenon
      <4> QED
        BY <2>1, <3>1, <4>1 DEF Steps
    <3> QED
      BY <3>2, <3>3
  <2> HIDE DEF g
  <2>6. G(n, g)
    BY <2>4, <2>5 DEF Steps
  <2> QED
    BY <2>6
<1> HIDE DEF S
<1>3. 0..N \subseteq S
  BY <1>1, <1>2, UpTo, Zenon
<1>4. N \in S
  BY <1>3
<1> QED
  BY <1>4 DEF S
-----------------------------------------------------------------------------
(* Sequences without repetition.                                           *)

\* A list of members of D, each at most once.
Once(s, D) == s \in Seq(D) /\ IsInjective(s)

\* The positions of a sequence, and its elements.
LEMMA SeqIs ==
  ASSUME NEW D, NEW s \in Seq(D)
  PROVE  /\ Len(s) \in Nat /\ DOMAIN s = 1..Len(s) /\ Range(s) \subseteq D
         /\ \A i \in 1..Len(s) : s[i] \in D /\ s[i] \in Range(s)
         /\ \A x \in Range(s) : \E i \in 1..Len(s) : s[i] = x
         /\ s = <<>> <=> Range(s) = {}
<1>1. Len(s) \in Nat /\ DOMAIN s = 1..Len(s)
  OBVIOUS
<1>2. Range(s) \subseteq D /\ \A i \in 1..Len(s) : s[i] \in D /\ s[i] \in Range(s)
  BY DEF Range
<1>3. \A x \in Range(s) : \E i \in 1..Len(s) : s[i] = x
  BY <1>1 DEF Range
<1>4. s = <<>> => Range(s) = {}
  BY DEF Range
<1>5. ASSUME s # <<>> PROVE s[1] \in Range(s)
  <2>1. 1 \in 1..Len(s)
    BY <1>5
  <2> QED
    BY <1>2, <2>1
<1> QED
  BY <1>1, <1>2, <1>3, <1>4, <1>5

\* One element more.
LEMMA AppendOnce ==
  ASSUME NEW D, NEW s, Once(s, D), NEW x \in D
  PROVE  /\ Append(s, x) \in Seq(D) /\ Range(Append(s, x)) = Range(s) \cup {x}
         /\ x \notin Range(s) => Once(Append(s, x), D)
<1> DEFINE t == Append(s, x)
<1>1. s \in Seq(D)
  BY DEF Once
<1>2. /\ t \in Seq(D) /\ Len(t) = Len(s) + 1 /\ t[Len(s) + 1] = x
      /\ \A i \in 1..Len(s) : t[i] = s[i]
  BY <1>1
<1> HIDE DEF t
<1>3. Len(s) \in Nat /\ DOMAIN s = 1..Len(s) /\ DOMAIN t = 1..(Len(s) + 1)
  BY <1>1, <1>2
<1>4. Range(t) = Range(s) \cup {x}
  <2>1. ASSUME NEW y \in Range(t) PROVE y \in Range(s) \cup {x}
    <3>1. PICK i \in 1..(Len(s) + 1) : t[i] = y
      BY <1>3 DEF Range
    <3>2. i \in 1..Len(s) \/ i = Len(s) + 1
      BY <1>3
    <3> QED
      BY <1>2, <1>3, <3>1, <3>2 DEF Range
  <2>2. ASSUME NEW y \in Range(s) PROVE y \in Range(t)
    <3>1. PICK i \in 1..Len(s) : s[i] = y
      BY <1>3 DEF Range
    <3>2. i \in 1..(Len(s) + 1) /\ t[i] = y
      BY <1>2, <1>3, <3>1
    <3> QED
      BY <1>3, <3>2 DEF Range
  <2>3. x \in Range(t)
    <3>1. Len(s) + 1 \in 1..(Len(s) + 1)
      BY <1>3
    <3> QED
      BY <1>2, <1>3, <3>1 DEF Range
  <2> QED
    BY <2>1, <2>2, <2>3
<1>5. ASSUME x \notin Range(s) PROVE IsInjective(t)
  <2>1. \A i \in 1..Len(s) : s[i] # x
    BY <1>3, <1>5 DEF Range
  <2>2. \A i, j \in 1..Len(s) : s[i] = s[j] => i = j
    BY <1>3 DEF Once, IsInjective
  <2>3. \A i, j \in 1..(Len(s) + 1) : t[i] = t[j] => i = j
    BY <1>2, <1>3, <2>1, <2>2
  <2> QED
    BY <1>3, <2>3 DEF IsInjective
<1> QED
  BY <1>2, <1>4, <1>5 DEF Once, t

\* Two lists with nothing in common, one after the other.
Joined(u, s, t, D) == Once(u, D) /\ Range(u) = Range(s) \cup Range(t)

\* Lists with no element in common, one behind the other.
LEMMA JoinOnce ==
  ASSUME NEW D, NEW s, NEW t, Once(s, D), Once(t, D), \A x \in Range(s) : x \notin Range(t)
  PROVE  Joined(s \o t, s, t, D)
<1> DEFINE u == s \o t
           n == Len(s)
           m == Len(t)
<1>1. s \in Seq(D) /\ t \in Seq(D)
  BY DEF Once
<1>2. /\ n \in Nat /\ DOMAIN s = 1..n /\ m \in Nat /\ DOMAIN t = 1..m
      /\ u \in Seq(D) /\ DOMAIN u = 1..(n + m)
      /\ \A i \in 1..(n + m) : u[i] = IF i <= n THEN s[i] ELSE t[i - n]
  BY <1>1
<1> HIDE DEF u, n, m
<1>3. \A i \in 1..(n + m) :
        (i \in 1..n /\ u[i] = s[i]) \/ (i - n \in 1..m /\ u[i] = t[i - n])
  BY <1>2
<1>4. \A i \in 1..n : i \in 1..(n + m) /\ u[i] = s[i]
  BY <1>2
<1>5. ASSUME NEW i \in 1..m PROVE i + n \in 1..(n + m) /\ u[i + n] = t[i]
  <2>1. i + n \in 1..(n + m) /\ ~(i + n <= n) /\ (i + n) - n = i
    BY <1>2
  <2> QED
    BY <1>2, <2>1
<1>6. Range(u) = Range(s) \cup Range(t)
  <2>1. ASSUME NEW y \in Range(u) PROVE y \in Range(s) \cup Range(t)
    <3>1. PICK i \in 1..(n + m) : u[i] = y
      BY <1>2 DEF Range
    <3>2. CASE i \in 1..n /\ u[i] = s[i]
      BY <1>2, <3>1, <3>2 DEF Range
    <3>3. CASE i - n \in 1..m /\ u[i] = t[i - n]
      <4>1. i - n \in DOMAIN t /\ t[i - n] = y
        BY <1>2, <3>1, <3>3
      <4> QED
        BY <4>1 DEF Range
    <3> QED
      BY <1>3, <3>2, <3>3
  <2>2. ASSUME NEW y \in Range(s) PROVE y \in Range(u)
    BY <1>2, <1>4 DEF Range
  <2>3. ASSUME NEW y \in Range(t) PROVE y \in Range(u)
    <3>1. PICK i \in 1..m : t[i] = y
      BY <1>2 DEF Range
    <3>2. i + n \in DOMAIN u /\ u[i + n] = y
      BY <1>2, <1>5, <3>1
    <3> QED
      BY <3>2 DEF Range
  <2> QED
    BY <2>1, <2>2, <2>3
<1>7. IsInjective(u)
  <2>1. \A i \in 1..n, j \in 1..m : s[i] # t[j]
    BY <1>2, Zenon DEF Range
  <2>2. (\A i, j \in 1..n : s[i] = s[j] => i = j) /\ (\A i, j \in 1..m : t[i] = t[j] => i = j)
    BY <1>2, Zenon DEF Once, IsInjective
  <2>3. ASSUME NEW i \in 1..(n + m), NEW j \in 1..(n + m), u[i] = u[j] PROVE i = j
    <3>1. \/ i \in 1..n /\ j \in 1..n
          \/ i - n \in 1..m /\ j - n \in 1..m
      BY <1>3, <2>1, <2>3
    <3>2. CASE i \in 1..n /\ j \in 1..n
      BY <1>4, <2>2, <2>3, <3>2
    <3>3. CASE i - n \in 1..m /\ j - n \in 1..m
      <4>1. t[i - n] = t[j - n]
        BY <1>2, <2>3, <3>3
      <4>2. i - n = j - n
        BY <2>2, <3>3, <4>1
      <4> QED
        BY <1>2, <4>2
    <3> QED
      BY <3>1, <3>2, <3>3
  <2> QED
    BY <1>2, <2>3 DEF IsInjective
<1>8. Joined(u, s, t, D)
  BY <1>2, <1>6, <1>7 DEF Once, Joined
<1> QED
  BY <1>8 DEF u

\* A part of a list.
LEMMA CutOnce ==
  ASSUME NEW D, NEW s, Once(s, D), NEW a \in Nat \ {0}, NEW b \in 0..Len(s)
  PROVE  /\ Once(SubSeq(s, a, b), D)
         /\ \A x : x \in Range(SubSeq(s, a, b)) <=> \E i \in a..b : s[i] = x
<1> DEFINE t == SubSeq(s, a, b)
<1>1. s \in Seq(D) /\ Len(s) \in Nat /\ b \in Int /\ a \in Int
  BY DEF Once
<1>2. /\ t \in Seq(D) /\ Len(t) = (IF a <= b THEN b - a + 1 ELSE 0)
      /\ DOMAIN t = 1..Len(t) /\ \A i \in 1..Len(t) : t[i] = s[a + i - 1]
  BY <1>1
<1> HIDE DEF t
<1>3. \A i \in 1..Len(t) : a + i - 1 \in a..b /\ a + i - 1 \in 1..Len(s)
  BY <1>1, <1>2
<1>4. ASSUME NEW i \in a..b PROVE i - a + 1 \in 1..Len(t) /\ t[i - a + 1] = s[i]
  <2>1. i - a + 1 \in 1..Len(t) /\ a + (i - a + 1) - 1 = i
    BY <1>1, <1>2
  <2> QED
    BY <1>2, <2>1
<1>5. \A x : x \in Range(t) <=> \E i \in a..b : s[i] = x
  <2>1. \A x \in Range(t) : \E i \in a..b : s[i] = x
    <3>1. ASSUME NEW j \in 1..Len(t) PROVE \E i \in a..b : s[i] = t[j]
      <4>1. a + j - 1 \in a..b /\ s[a + j - 1] = t[j]
        BY <1>2, <1>3, <3>1
      <4> QED
        BY <4>1, Zenon
    <3> QED
      BY <1>2, <3>1, Zenon DEF Range
  <2>2. ASSUME NEW i \in a..b PROVE s[i] \in Range(t)
    <3>1. i - a + 1 \in DOMAIN t /\ t[i - a + 1] = s[i]
      BY <1>2, <1>4
    <3> QED
      BY <3>1 DEF Range
  <2> QED
    BY <2>1, <2>2
<1>6. \A i, j \in 1..Len(s) : s[i] = s[j] => i = j
  BY <1>1 DEF Once, IsInjective
<1>7. ASSUME NEW i \in 1..Len(t), NEW j \in 1..Len(t), t[i] = t[j] PROVE i = j
  <2>1. a + i - 1 = a + j - 1
    BY <1>2, <1>3, <1>6, <1>7
  <2> QED
    BY <1>1, <1>2, <2>1
<1> QED
  BY <1>2, <1>5, <1>7 DEF Once, IsInjective, t

\* What a list comprehension keeps: the elements at the positions I, in their order.
LEMMA PickedIs ==
  ASSUME NEW D, NEW s, Once(s, D), NEW I
  PROVE  /\ Once(Picked(s, I), D)
         /\ Range(Picked(s, I)) = {s[i] : i \in I \cap (1..Len(s))}
<1> DEFINE N == Len(s)
           F(f) == f = [n \in 0..N |-> IF n = 0 THEN <<>>
                                       ELSE IF n \in I THEN Append(f[n - 1], s[n]) ELSE f[n - 1]]
           g == CHOOSE f : F(f)
<1>1. /\ s \in Seq(D) /\ N \in Nat /\ \A i \in 1..N : s[i] \in D
      /\ \A i, j \in 1..N : s[i] = s[j] => i = j
  BY DEF Once, IsInjective
<1>2. Picked(s, I) = g[N]
  BY DEF Picked
<1> HIDE DEF N
<1>3. \E f : F(f)
  <2> DEFINE V == Seq(D)
             step == [p \in (1..N) \X V |-> IF p[1] \in I THEN Append(p[2], s[p[1]]) ELSE p[2]]
  <2>1. step \in [(1..N) \X V -> V]
    BY <1>1
  <2>2. <<>> \in V
    OBVIOUS
  <2>3. \A i \in 1..N, v \in V : step[<<i, v>>] = IF i \in I THEN Append(v, s[i]) ELSE v
    OBVIOUS
  <2> HIDE DEF step, V
  <2>3a. PICK f : Steps(N, V, <<>>, step, f)
    BY <1>1, <2>1, <2>2, Recursion, Zenon
  <2>4. f \in [0..N -> V] /\ f[0] = <<>> /\ \A i \in 1..N : f[i] = step[<<i, f[i - 1]>>]
    BY <2>3a DEF Steps
  <2>5. ASSUME NEW n \in 0..N
        PROVE  f[n] = IF n = 0 THEN <<>>
                      ELSE IF n \in I THEN Append(f[n - 1], s[n]) ELSE f[n - 1]
    <3>1. CASE n = 0
      BY <2>4, <3>1
    <3>2. CASE n # 0
      <4>1. n \in 1..N /\ n - 1 \in 0..N
        BY <1>1, <3>2
      <4>2. f[n - 1] \in V /\ f[n] = step[<<n, f[n - 1]>>]
        BY <2>4, <4>1
      <4> QED
        BY <2>3, <3>2, <4>1, <4>2
    <3> QED
      BY <3>1, <3>2
  <2>6. F(f)
    BY <2>4, <2>5
  <2> HIDE DEF F
  <2> QED
    BY <2>6, Zenon
<1>4. F(g)
  <2> HIDE DEF F
  <2> QED
    BY <1>3, Zenon
<1> HIDE DEF g
<1>5. /\ g[0] = <<>>
      /\ \A n \in 1..N : g[n] = IF n \in I THEN Append(g[n - 1], s[n]) ELSE g[n - 1]
  <2>1. \A n \in 0..N : g[n] = IF n = 0 THEN <<>>
                               ELSE IF n \in I THEN Append(g[n - 1], s[n]) ELSE g[n - 1]
    BY <1>4, Zenon
  <2> QED
    BY <1>1, <2>1
<1> HIDE DEF F
<1> DEFINE Upto(n) == {s[i] : i \in I \cap (1..n)}
           S == {n \in 0..N : Once(g[n], D) /\ Range(g[n]) = Upto(n)}
<1>6. 0 \in S
  <2>1. Once(<<>>, D) /\ Range(<<>>) = {}
    BY DEF Once, IsInjective, Range
  <2>2. Upto(0) = {}
    OBVIOUS
  <2> QED
    BY <1>1, <1>5, <2>1, <2>2
<1>7. ASSUME NEW n \in 1..N, n - 1 \in S PROVE n \in S
  <2>1. Once(g[n - 1], D) /\ Range(g[n - 1]) = Upto(n - 1)
    BY <1>7
  <2>2. CASE n \in I
    <3>1. Upto(n) = Upto(n - 1) \cup {s[n]}
      <4>1. 1..n = 1..(n - 1) \cup {n}
        BY <1>1
      <4> QED
        BY <2>2, <4>1
    <3>2. s[n] \notin Upto(n - 1)
      BY <1>1
    <3> HIDE DEF Upto
    <3>3. g[n] = Append(g[n - 1], s[n]) /\ s[n] \in D
      BY <1>1, <1>5, <2>2, Zenon
    <3>4. Once(g[n], D) /\ Range(g[n]) = Upto(n - 1) \cup {s[n]}
      BY <2>1, <3>2, <3>3, AppendOnce
    <3>5. n \in 0..N
      BY <1>1
    <3> QED
      BY <3>1, <3>4, <3>5, Zenon
  <2>3. CASE n \notin I
    <3>1. Upto(n) = Upto(n - 1)
      <4>1. I \cap (1..n) = I \cap (1..(n - 1))
        BY <1>1, <2>3
      <4> QED
        BY <4>1
    <3>2. g[n] = g[n - 1]
      BY <1>5, <2>3
    <3> HIDE DEF Upto
    <3> QED
      BY <2>1, <3>1, <3>2
  <2> QED
    BY <2>2, <2>3
<1> HIDE DEF S
<1>8. N \in S
  <2>1. 0..N \subseteq S
    BY <1>1, <1>6, <1>7, UpTo, Zenon
  <2> QED
    BY <1>1, <2>1
<1> QED
  BY <1>2, <1>8 DEF S, N

\* An injective function into as many numbers takes all of them.
LEMMA Numbering ==
  ASSUME NEW n \in Nat, NEW r \in [1..n -> 1..n], \A x, y \in 1..n : r[x] = r[y] => x = y
  PROVE  \A i \in 1..n : \E x \in 1..n : r[x] = i
<1>1. IsFiniteSet(1..n) /\ Cardinality(1..n) = n
  BY FS_Interval
<1>2. r \in Injection(1..n, 1..n)
  BY Zenon DEF Injection, IsInjective
<1>3. r \in Surjection(1..n, 1..n)
  BY <1>1, <1>2, FS_Injection, Zenon
<1> QED
  BY <1>3, Zenon DEF Surjection

\* The pairs B order the positions 1..n.
TotalOrder(B, n) ==
  /\ \A i \in 1..n : <<i, i>> \notin B
  /\ \A i, j \in 1..n : i # j => <<i, j>> \in B \/ <<j, i>> \in B
  /\ \A i, j, k \in 1..n : <<i, j>> \in B /\ <<j, k>> \in B => <<i, k>> \in B

\* A rearranged list is a function of its positions.
LEMMA ArrangedFunction ==
  ASSUME NEW s, NEW B
  PROVE  Arranged(s, B) = [a \in DOMAIN Arranged(s, B) |-> Arranged(s, B)[a]]
BY DEF Arranged

\* Sorting a list keeps its elements, and puts them in the order.
LEMMA ArrangedIs ==
  ASSUME NEW D, NEW s, Once(s, D), NEW B, TotalOrder(B, Len(s))
  PROVE  /\ Once(Arranged(s, B), D) /\ Range(Arranged(s, B)) = Range(s)
         /\ \A a, b \in DOMAIN Arranged(s, B) : a < b =>
              \E i, j \in 1..Len(s) : /\ Arranged(s, B)[a] = s[i] /\ Arranged(s, B)[b] = s[j]
                                      /\ <<i, j>> \in B
<1> DEFINE n == Len(s)
           Below(i) == {j \in DOMAIN s : <<j, i>> \in B}
           r == [i \in 1..n |-> Cardinality(Below(i)) + 1]
           t == Arranged(s, B)
<1>1. n \in Nat /\ DOMAIN s = 1..n /\ s \in Seq(D) /\ IsInjective(s)
  BY DEF Once
<1> HIDE DEF n
<1>0. TotalOrder(B, n)
  BY DEF n
<1>2. IsFiniteSet(1..n) /\ Cardinality(1..n) = n
  BY <1>1, FS_Interval
<1>3. \A i \in 1..n : IsFiniteSet(Below(i)) /\ Cardinality(Below(i)) \in 0..(n - 1)
  <2> TAKE i \in 1..n
  <2>1. Below(i) \in SUBSET (1..n) /\ i \notin Below(i)
    BY <1>0, <1>1 DEF TotalOrder
  <2> HIDE DEF Below
  <2>2. IsFiniteSet(Below(i)) /\ Cardinality(Below(i)) <= n
    BY <1>2, <2>1, FS_Subset, Zenon
  <2>3. Cardinality(Below(i)) \in Nat
    BY <2>2, FS_CardinalityType
  <2>4. Cardinality(Below(i)) # n
    <3> SUFFICES ASSUME Cardinality(Below(i)) = n PROVE FALSE
      OBVIOUS
    <3>1. Below(i) = 1..n
      BY <1>2, <2>1, FS_Subset, Zenon
    <3> QED
      BY <2>1, <3>1
  <2> QED
    BY <1>1, <2>2, <2>3, <2>4
<1>4. \A i, j \in 1..n : <<i, j>> \in B => r[i] < r[j]
  <2> SUFFICES ASSUME NEW i \in 1..n, NEW j \in 1..n, <<i, j>> \in B PROVE r[i] < r[j]
    OBVIOUS
  <2>1. Below(i) \in SUBSET Below(j) /\ i \in Below(j) /\ i \notin Below(i)
    BY <1>0, <1>1 DEF TotalOrder
  <2> HIDE DEF Below
  <2>2. Cardinality(Below(i)) <= Cardinality(Below(j))
    BY <1>3, <2>1, FS_Subset, Zenon
  <2>3. Cardinality(Below(i)) # Cardinality(Below(j))
    BY <1>3, <2>1, FS_Subset, Zenon
  <2> QED
    BY <1>3, <2>2, <2>3
<1>5. r \in [1..n -> 1..n]
  <2> HIDE DEF Below
  <2> QED
    BY <1>1, <1>3
<1>7. \A i, j \in 1..n : /\ r[i] = r[j] => i = j
                         /\ r[i] < r[j] => <<i, j>> \in B
  <2> HIDE DEF r
  <2> SUFFICES ASSUME NEW i \in 1..n, NEW j \in 1..n
               PROVE  (r[i] = r[j] => i = j) /\ (r[i] < r[j] => <<i, j>> \in B)
    BY Zenon
  <2>1. i = j \/ <<i, j>> \in B \/ <<j, i>> \in B
    BY <1>0 DEF TotalOrder
  <2>2. r[i] \in 1..n /\ r[j] \in 1..n
    BY <1>5
  <2>3. (<<i, j>> \in B => r[i] < r[j]) /\ (<<j, i>> \in B => r[j] < r[i])
    BY <1>4
  <2> QED
    BY <1>1, <2>1, <2>2, <2>3
<1>8. \A a \in 1..n : \E i \in 1..n : r[i] = a
  <2> HIDE DEF r
  <2>1. \A i, j \in 1..n : r[i] = r[j] => i = j
    BY <1>7, Zenon
  <2> QED
    BY <1>1, <1>5, <2>1, Numbering, Zenon
<1>9. DOMAIN t = 1..n
  BY <1>1 DEF Arranged
<1>10. \A a \in 1..n : \E i \in 1..n : r[i] = a /\ t[a] = s[i]
  <2> TAKE a \in 1..n
  <2> DEFINE i == CHOOSE i \in DOMAIN s : Cardinality(Below(i)) = a - 1
  <2>1. t[a] = s[i]
    BY <1>1 DEF Arranged
  <2>2. \E x \in DOMAIN s : Cardinality(Below(x)) = a - 1
    <3>1. PICK x \in 1..n : r[x] = a
      BY <1>8, Zenon
    <3>2. Cardinality(Below(x)) \in 0..(n - 1) /\ r[x] = Cardinality(Below(x)) + 1
      BY <1>3
    <3> HIDE DEF Below, r
    <3>3. Cardinality(Below(x)) = a - 1
      BY <1>1, <3>1, <3>2
    <3> QED
      BY <1>1, <3>3, Zenon
  <2>3. i \in DOMAIN s /\ Cardinality(Below(i)) = a - 1
    <3> HIDE DEF Below
    <3> QED
      BY <2>2, Zenon
  <2>4. i \in 1..n /\ r[i] = a
    <3> HIDE DEF Below, i
    <3> QED
      BY <1>1, <2>3
  <2> QED
    BY <2>1, <2>4, Zenon
<1> HIDE DEF r
<1>11. \A i \in 1..n : r[i] \in 1..n /\ t[r[i]] = s[i]
  <2> TAKE i \in 1..n
  <2>1. r[i] \in 1..n
    BY <1>5
  <2>2. PICK j \in 1..n : r[j] = r[i] /\ t[r[i]] = s[j]
    BY <1>10, <2>1, Zenon
  <2> QED
    BY <1>7, <2>1, <2>2, Zenon
<1> HIDE DEF t
<1>12. t \in Seq(D)
  <2>1. t = [a \in 1..n |-> t[a]]
    BY <1>9, ArrangedFunction, Zenon DEF t
  <2>2. \A a \in 1..n : t[a] \in D
    BY <1>1, <1>10
  <2> QED
    BY <1>1, <2>1, <2>2
<1>13. IsInjective(t)
  <2> SUFFICES ASSUME NEW a \in 1..n, NEW b \in 1..n, t[a] = t[b] PROVE a = b
    BY <1>9, Zenon DEF IsInjective
  <2>1. PICK i \in 1..n : r[i] = a /\ t[a] = s[i]
    BY <1>10, Zenon
  <2>2. PICK j \in 1..n : r[j] = b /\ t[b] = s[j]
    BY <1>10, Zenon
  <2>3. i = j
    BY <1>1, <2>1, <2>2, Zenon DEF IsInjective
  <2> QED
    BY <2>1, <2>2, <2>3, Zenon
<1>14. Range(t) = Range(s)
  <2>1. \A a \in DOMAIN t : \E i \in DOMAIN s : s[i] = t[a]
    BY <1>1, <1>9, <1>10, Zenon
  <2>2. \A i \in DOMAIN s : \E a \in DOMAIN t : s[i] = t[a]
    BY <1>1, <1>9, <1>11, Zenon
  <2>3. Range(t) \subseteq Range(s) /\ Range(s) \subseteq Range(t)
    BY <2>1, <2>2, Zenon DEF Range
  <2> QED
    BY <2>3, Zenon
<1>15. \A a, b \in 1..n : a < b => \E i, j \in 1..n : t[a] = s[i] /\ t[b] = s[j] /\ <<i, j>> \in B
  <2> SUFFICES ASSUME NEW a \in 1..n, NEW b \in 1..n, a < b
               PROVE  \E i, j \in 1..n : t[a] = s[i] /\ t[b] = s[j] /\ <<i, j>> \in B
    OBVIOUS
  <2>1. PICK i \in 1..n : r[i] = a /\ t[a] = s[i]
    BY <1>10, Zenon
  <2>2. PICK j \in 1..n : r[j] = b /\ t[b] = s[j]
    BY <1>10, Zenon
  <2>3. <<i, j>> \in B
    BY <1>7, <2>1, <2>2
  <2> QED
    BY <2>1, <2>2, <2>3, Zenon
<1> QED
  BY <1>9, <1>12, <1>13, <1>14, <1>15, Zenon DEF Once, t, n

\* The elements of s that are not in S.
LEMMA WithoutIs ==
  ASSUME NEW D, NEW s, Once(s, D), NEW S
  PROVE  Once(Without(s, S), D) /\ Range(Without(s, S)) = Range(s) \ S
<1> DEFINE I == {i \in DOMAIN s : s[i] \notin S}
<1>1. DOMAIN s = 1..Len(s)
  BY DEF Once
<1>2. {s[i] : i \in I \cap (1..Len(s))} = Range(s) \ S
  BY <1>1 DEF Range
<1>3. Without(s, S) = Picked(s, I)
  BY DEF Without
<1> HIDE DEF I
<1> QED
  BY <1>2, <1>3, PickedIs

\* A list with one position less.
LEMMA RemoveOnce ==
  ASSUME NEW D, NEW s, Once(s, D), NEW i \in DOMAIN s
  PROVE  Once(RemoveAt(s, i), D) /\ Range(RemoveAt(s, i)) = Range(s) \ {s[i]}
<1> DEFINE n == Len(s)
           a == SubSeq(s, 1, i - 1)
           b == SubSeq(s, i + 1, n)
<1>1. /\ n \in Nat /\ DOMAIN s = 1..n /\ i \in 1..n /\ i - 1 \in 0..n /\ i + 1 \in Nat \ {0}
      /\ n \in 0..n /\ 1 \in Nat \ {0} /\ \A j, k \in 1..n : s[j] = s[k] => j = k
  BY DEF Once, IsInjective
<1>0. \A c \in Nat \ {0}, d \in 0..Len(s) :
        /\ Once(SubSeq(s, c, d), D)
        /\ \A x : x \in Range(SubSeq(s, c, d)) <=> \E j \in c..d : s[j] = x
  BY CutOnce
<1>2. Once(a, D) /\ \A x : x \in Range(a) <=> \E j \in 1..(i - 1) : s[j] = x
  BY <1>0, <1>1
<1>3. Once(b, D) /\ \A x : x \in Range(b) <=> \E j \in (i + 1)..n : s[j] = x
  BY <1>0, <1>1
<1>4. Range(a) \cap Range(b) = {} /\ Range(a) \cup Range(b) = Range(s) \ {s[i]}
  <2> HIDE DEF a, b, n
  <2>1. Range(s) = {s[j] : j \in 1..n}
    BY <1>1 DEF Range
  <2>2. 1..n = 1..(i - 1) \cup {i} \cup (i + 1)..n
    BY <1>1
  <2>3. \A j \in 1..(i - 1) : j \in 1..n /\ j # i /\ j \notin (i + 1)..n
    BY <1>1
  <2>4. \A j \in (i + 1)..n : j \in 1..n /\ j # i
    BY <1>1
  <2> QED
    BY <1>1, <1>2, <1>3, <2>1, <2>2, <2>3, <2>4
<1>5. RemoveAt(s, i) = a \o b
  BY DEF RemoveAt
<1> HIDE DEF a, b
<1>6. Once(a \o b, D) /\ Range(a \o b) = Range(a) \cup Range(b)
  <2>1. Once(a, D) /\ Once(b, D) /\ \A x \in Range(a) : x \notin Range(b)
    BY <1>2, <1>3, <1>4
  <2>2. Joined(a \o b, a, b, D)
    BY <2>1, JoinOnce, Zenon
  <2> QED
    BY <2>2, Zenon DEF Joined
<1> QED
  BY <1>4, <1>5, <1>6, Zenon

\* A list backwards.
LEMMA ReverseOnce ==
  ASSUME NEW D, NEW s, Once(s, D)
  PROVE  Once(Reversed(s), D) /\ Range(Reversed(s)) = Range(s)
<1> DEFINE n == Len(s)
           t == Reversed(s)
<1>1. /\ n \in Nat /\ DOMAIN s = 1..n /\ s \in [1..n -> D]
      /\ \A j, k \in 1..n : s[j] = s[k] => j = k
  BY DEF Once, IsInjective
<1>2. t = [i \in 1..n |-> s[(n - i) + 1]]
  BY DEF Reversed
<1> HIDE DEF n, t
<1>3. \A i \in 1..n : (n - i) + 1 \in 1..n /\ (n - ((n - i) + 1)) + 1 = i
  BY <1>1
<1>4. t \in Seq(D)
  BY <1>1, <1>2, <1>3
<1>5. DOMAIN t = 1..n
  BY <1>2
<1>6. \A i, j \in 1..n : t[i] = t[j] => i = j
  <2> SUFFICES ASSUME NEW i \in 1..n, NEW j \in 1..n, t[i] = t[j] PROVE i = j
    OBVIOUS
  <2>1. s[(n - i) + 1] = s[(n - j) + 1]
    BY <1>2, Zenon
  <2>2. (n - i) + 1 \in 1..n /\ (n - j) + 1 \in 1..n
    BY <1>1
  <2>3. (n - i) + 1 = (n - j) + 1
    BY <1>1, <2>1, <2>2, Zenon
  <2> QED
    BY <1>1, <2>3
<1>7. Range(t) \subseteq Range(s)
  <2> SUFFICES ASSUME NEW i \in 1..n PROVE \E j \in DOMAIN s : t[i] = s[j]
    BY <1>5, Zenon DEF Range
  <2> QED
    BY <1>1, <1>2, <1>3
<1>8. Range(s) \subseteq Range(t)
  <2> SUFFICES ASSUME NEW i \in DOMAIN s PROVE \E j \in DOMAIN t : s[i] = t[j]
    BY Zenon DEF Range
  <2>0. i \in 1..n
    BY <1>1
  <2>1. t[(n - i) + 1] = s[i]
    BY <1>2, <1>3, <2>0
  <2> QED
    BY <1>3, <1>5, <2>0, <2>1, Zenon
<1>9. IsInjective(t)
  BY <1>5, <1>6, Zenon DEF IsInjective
<1> QED
  BY <1>4, <1>7, <1>8, <1>9, Zenon DEF Once, t

\* A nonempty set of numbers up to n has a greatest one.
LEMMA MaxIs ==
  ASSUME NEW n \in Nat, NEW T \in SUBSET (1..n), NEW x \in T
  PROVE  Max(T) \in T
<1> DEFINE S == {m \in 0..n : T \cap (1..m) = {} \/ \E y \in T : \A z \in T \cap (1..m) : y >= z}
<1>1. 0 \in S
  OBVIOUS
<1>2. \A m \in 1..n : m - 1 \in S => m \in S
  <2> SUFFICES ASSUME NEW m \in 1..n, m - 1 \in S PROVE m \in S
    OBVIOUS
  <2>1. CASE m \in T
    <3>1. \A z \in T \cap (1..m) : m >= z
      OBVIOUS
    <3> QED
      BY <2>1, <3>1
  <2>2. CASE m \notin T
    <3>1. T \cap (1..m) = T \cap (1..(m - 1))
      BY <2>2
    <3> QED
      BY <3>1
  <2> QED
    BY <2>1, <2>2
<1> HIDE DEF S
<1>3. n \in S
  <2>1. 0..n \subseteq S
    BY <1>1, <1>2, UpTo, Zenon
  <2> QED
    BY <2>1
<1>4. T \cap (1..n) = T
  BY Zenon
<1>5. \E y \in T : \A z \in T : y >= z
  BY <1>3, <1>4 DEF S
<1> QED
  BY <1>5, Zenon DEF Max
-----------------------------------------------------------------------------
(* The waiting queue.                                                      *)

\* The priorities are numbers and so is the limit of the queue.
LEMMA ConfIs ==
  ASSUME conf \in Configs
  PROVE  MaxQueued \in Nat /\ \A r \in Reqs : Priority[r] \in Int
BY SchedulerConstants DEF MaxQueued, Priority

\* There is a request to displace in a queue that has any.
LEMMA LeastPreferredIs ==
  ASSUME conf \in Configs, NEW q \in Seq(Reqs), q # <<>>
  PROVE  LeastPreferred(q) \in DOMAIN q
<1> DEFINE N == Len(q)
           P(i, j) == \/ Priority[q[i]] < Priority[q[j]]
                      \/ Priority[q[i]] = Priority[q[j]] /\ i >= j
           S == {m \in 0..N : m = 0 \/ \E i \in 1..m : \A j \in 1..m : P(i, j)}
<1>1. /\ N \in Nat /\ DOMAIN q = 1..N /\ N # 0
      /\ \A i \in 1..N : Priority[q[i]] \in Int
  BY ConfIs
<1> HIDE DEF N
<1>2. 0 \in S
  BY <1>1
<1>3. \A m \in 1..N : m - 1 \in S => m \in S
  <2> SUFFICES ASSUME NEW m \in 1..N, m - 1 \in S PROVE \E i \in 1..m : \A j \in 1..m : P(i, j)
    <3>1. 1..N \subseteq 0..N
      BY <1>1
    <3> HIDE DEF P
    <3> QED
      BY <3>1, Zenon
  <2>1. CASE m = 1
    <3>1. 1..m = {1} /\ P(1, 1)
      BY <1>1, <2>1
    <3>2. 1 \in 1..m /\ \A j \in 1..m : j = 1
      BY <2>1
    <3> HIDE DEF P
    <3> QED
      BY <3>1, <3>2, Zenon
  <2>2. CASE m # 1
    <3>1. PICK i \in 1..(m - 1) : \A j \in 1..(m - 1) : P(i, j)
      BY <1>1, <2>2
    <3>2. 1..m = 1..(m - 1) \cup {m} /\ i \in 1..N /\ 1..(m - 1) \subseteq 1..N
      BY <1>1
    <3>3. CASE Priority[q[m]] <= Priority[q[i]]
      <4>1. \A j \in 1..(m - 1) : P(m, j)
        BY <1>1, <3>1, <3>2, <3>3
      <4>2. P(m, m)
        BY <1>1
      <4> HIDE DEF P
      <4> QED
        BY <3>2, <4>1, <4>2, Zenon
    <3>4. CASE ~(Priority[q[m]] <= Priority[q[i]])
      <4>1. P(i, m)
        BY <1>1, <3>2, <3>4
      <4> HIDE DEF P
      <4> QED
        BY <3>1, <3>2, <4>1, Zenon
    <3> QED
      BY <3>3, <3>4
  <2> QED
    BY <2>1, <2>2
<1>4. N \in S
  <2> HIDE DEF S
  <2>1. 0..N \subseteq S
    BY <1>1, <1>2, <1>3, UpTo, Zenon
  <2> QED
    BY <1>1, <2>1
<1>5. \E i \in DOMAIN q : \A j \in DOMAIN q : P(i, j)
  <2> HIDE DEF P
  <2>1. \E i \in 1..N : \A j \in 1..N : P(i, j)
    BY <1>1, <1>4, Zenon
  <2> QED
    BY <1>1, <2>1, Zenon
<1>6. LeastPreferred(q) = CHOOSE i \in DOMAIN q : \A j \in DOMAIN q : P(i, j)
  BY DEF LeastPreferred
<1> HIDE DEF P
<1> QED
  BY <1>5, <1>6, Zenon

\* A queue with the requests rejected so far: together they are the requests U.
Queue(w, U) ==
  /\ w \in [q : Seq(Reqs), out : SUBSET Reqs]
  /\ Once(w.q, Reqs) /\ Range(w.q) \cap w.out = {} /\ Range(w.q) \cup w.out = U

\* _add_request_to_queue queues or rejects the request, and rejects at most another one.
LEMMA EnqueueIs ==
  ASSUME conf \in Configs, NEW w \in [q : Seq(Reqs), out : SUBSET Reqs], NEW r \in Reqs
  PROVE  /\ Enqueue(w, r) \in [q : Seq(Reqs), out : SUBSET Reqs]
         /\ \A U : Queue(w, U) /\ r \notin U => Queue(Enqueue(w, r), U \cup {r})
<1> DEFINE i == LeastPreferred(w.q)
           e == Enqueue(w, r)
<1>1. MaxQueued \in Nat /\ Len(w.q) \in Nat
  BY ConfIs
<1>2. CASE MaxQueued = 0 \/ Len(w.q) < MaxQueued
  <2>1. e = [q |-> Append(w.q, r), out |-> w.out]
    BY <1>2, Zenon DEF Enqueue
  <2>2. ASSUME NEW U, Queue(w, U), r \notin U PROVE Queue(e, U \cup {r})
    <3>1. Once(Append(w.q, r), Reqs) /\ Range(Append(w.q, r)) = Range(w.q) \cup {r}
      BY <2>2, AppendOnce DEF Queue
    <3> QED
      BY <2>1, <2>2, <3>1 DEF Queue
  <2> QED
    BY <2>1, <2>2
<1>3. CASE ~(MaxQueued = 0 \/ Len(w.q) < MaxQueued)
  <2>1. i \in DOMAIN w.q
    <3>1. w.q # <<>>
      BY <1>1, <1>3
    <3> QED
      BY <3>1, LeastPreferredIs
  <2> HIDE DEF i
  <2>2. CASE PriorityScheduling /\ Priority[r] > Priority[w.q[i]]
    <3> DEFINE t == RemoveAt(w.q, i)
    <3>1. e = [q |-> Append(t, r), out |-> w.out \cup {w.q[i]}]
      BY <1>3, <2>2 DEF Enqueue, i
    <3>2. t \in Seq(Reqs) /\ w.q[i] \in Reqs
      BY <2>1 DEF RemoveAt
    <3> HIDE DEF t
    <3>3. ASSUME NEW U, Queue(w, U), r \notin U PROVE Queue(e, U \cup {r})
      <4>1. Once(t, Reqs) /\ Range(t) = Range(w.q) \ {w.q[i]}
        BY <2>1, <3>3, RemoveOnce DEF Queue, t
      <4>2. w.q[i] \in Range(w.q)
        BY <2>1 DEF Range
      <4>3. r \notin Range(t) /\ r # w.q[i] /\ r \notin w.out
        BY <3>3, <4>1, <4>2 DEF Queue
      <4>4. Once(Append(t, r), Reqs) /\ Range(Append(t, r)) = Range(t) \cup {r}
        BY <4>1, <4>3, AppendOnce
      <4> QED
        BY <3>1, <3>2, <3>3, <4>1, <4>2, <4>3, <4>4 DEF Queue
    <3>4. e \in [q : Seq(Reqs), out : SUBSET Reqs]
      BY <3>1, <3>2
    <3> QED
      BY <3>3, <3>4, Zenon
  <2>3. CASE ~(PriorityScheduling /\ Priority[r] > Priority[w.q[i]])
    <3>0. e = [w EXCEPT !.out = w.out \cup {r}]
      BY <1>3, <2>3, Zenon DEF Enqueue, i
    <3> DEFINE x == w.out \cup {r}
    <3> HIDE DEF x
    <3>00. [w EXCEPT !.out = x] = [q |-> w.q, out |-> x]
      OBVIOUS
    <3>1. e = [q |-> w.q, out |-> w.out \cup {r}]
      BY <3>0, <3>00, Zenon DEF x
    <3>2. ASSUME NEW U, Queue(w, U), r \notin U PROVE Queue(e, U \cup {r})
      BY <3>1, <3>2 DEF Queue
    <3>3. e \in [q : Seq(Reqs), out : SUBSET Reqs]
      BY <3>1
    <3> QED
      BY <3>2, <3>3, Zenon
  <2> QED
    BY <2>2, <2>3
<1> QED
  BY <1>2, <1>3

\* The same for a list of requests.
LEMMA EnqueueAllIs ==
  ASSUME conf \in Configs, NEW q, Once(q, Reqs), NEW s, Once(s, Reqs),
         \A x \in Range(q) : x \notin Range(s)
  PROVE  Queue(EnqueueAll(q, s), Range(q) \cup Range(s))
<1> DEFINE N == Len(s)
           V == [q : Seq(Reqs), out : SUBSET Reqs]
           none == [q |-> q, out |-> {}]
           F(f) == f = [n \in 0..N |-> IF n = 0 THEN none ELSE Enqueue(f[n - 1], s[n])]
           g == CHOOSE f : F(f)
<1>1. /\ N \in Nat /\ s \in Seq(Reqs) /\ q \in Seq(Reqs) /\ \A i \in 1..N : s[i] \in Reqs
      /\ \A i, j \in 1..N : s[i] = s[j] => i = j
  BY DEF Once, IsInjective
<1>2. EnqueueAll(q, s) = g[N]
  BY DEF EnqueueAll
<1> HIDE DEF N
<1>3. none \in V
  BY <1>1
<1>3a. Queue(none, Range(q))
  BY <1>3 DEF Queue
<1>3b. \A w \in V, r \in Reqs : /\ Enqueue(w, r) \in V
                                /\ \A U : Queue(w, U) /\ r \notin U => Queue(Enqueue(w, r), U \cup {r})
  BY EnqueueIs, Zenon
<1> HIDE DEF V, none
<1>4. \E f \in [0..N -> V] : F(f)
  <2> DEFINE step == [p \in (1..N) \X V |-> Enqueue(p[2], s[p[1]])]
  <2>1. step \in [(1..N) \X V -> V]
    BY <1>1, <1>3b
  <2>2. \A i \in 1..N, v \in V : step[<<i, v>>] = Enqueue(v, s[i])
    OBVIOUS
  <2> HIDE DEF step
  <2>3. PICK f : Steps(N, V, none, step, f)
    BY <1>1, <1>3, <2>1, Recursion, Zenon
  <2>4. f \in [0..N -> V] /\ f[0] = none /\ \A i \in 1..N : f[i] = step[<<i, f[i - 1]>>]
    BY <2>3 DEF Steps
  <2>5. ASSUME NEW n \in 0..N PROVE f[n] = IF n = 0 THEN none ELSE Enqueue(f[n - 1], s[n])
    <3>1. CASE n = 0
      BY <2>4, <3>1
    <3>2. CASE n # 0
      <4>1. n \in 1..N /\ n - 1 \in 0..N
        BY <1>1, <3>2
      <4>2. f[n - 1] \in V /\ f[n] = step[<<n, f[n - 1]>>]
        BY <2>4, <4>1
      <4> QED
        BY <2>2, <3>2, <4>1, <4>2
    <3> QED
      BY <3>1, <3>2
  <2>6. F(f)
    BY <2>4, <2>5
  <2> HIDE DEF F
  <2> QED
    BY <2>4, <2>6, Zenon
<1>5. F(g)
  <2> HIDE DEF F
  <2> QED
    BY <1>4, Zenon
<1> HIDE DEF g
<1>6. g[0] = none /\ \A n \in 1..N : g[n] = Enqueue(g[n - 1], s[n])
  <2>1. \A n \in 0..N : g[n] = IF n = 0 THEN none ELSE Enqueue(g[n - 1], s[n])
    BY <1>5, Zenon
  <2> QED
    BY <1>1, <2>1
<1> HIDE DEF F
<1> DEFINE Upto(n) == {s[i] : i \in 1..n}
           S == {n \in 0..N : Queue(g[n], Range(q) \cup Upto(n))}
<1>7. 0 \in S
  <2>1. Upto(0) = {}
    OBVIOUS
  <2>2. Range(q) \cup Upto(0) = Range(q) /\ 0 \in 0..N
    BY <1>1, <2>1
  <2>3. Queue(g[0], Range(q) \cup Upto(0))
    BY <1>3a, <1>6, <2>2
  <2> QED
    BY <2>2, <2>3, Zenon
<1>8. \A n \in 1..N : n - 1 \in S => n \in S
  <2> SUFFICES ASSUME NEW n \in 1..N, n - 1 \in S PROVE n \in S
    BY Zenon
  <2>1. Upto(n) = Upto(n - 1) \cup {s[n]} /\ s[n] \notin Upto(n - 1) /\ s[n] \in Range(s)
    <3>1. 1..n = 1..(n - 1) \cup {n} /\ n \notin 1..(n - 1) /\ 1..(n - 1) \subseteq 1..N
      BY <1>1
    <3>2. s[n] \in Range(s)
      BY <1>1 DEF Range, N
    <3> QED
      BY <1>1, <3>1, <3>2
  <2> DEFINE U == Range(q) \cup Upto(n - 1)
  <2>2. s[n] \notin U /\ U \cup {s[n]} = Range(q) \cup Upto(n)
    BY <2>1
  <2>3. Queue(g[n - 1], U)
    OBVIOUS
  <2> HIDE DEF U, Upto
  <2>4. g[n - 1] \in V /\ s[n] \in Reqs /\ g[n] = Enqueue(g[n - 1], s[n])
    BY <1>1, <1>6, <2>3 DEF Queue, V
  <2>5. Queue(g[n], U \cup {s[n]})
    BY <1>3b, <2>2, <2>3, <2>4, Zenon
  <2>6. n \in 0..N
    BY <1>1
  <2> QED
    BY <2>2, <2>5, <2>6, Zenon
<1> HIDE DEF S
<1>9. N \in S
  <2>1. 0..N \subseteq S
    BY <1>1, <1>7, <1>8, UpTo, Zenon
  <2> QED
    BY <1>1, <2>1
<1>10. Upto(N) = Range(s)
  BY <1>1 DEF Range, N
<1> HIDE DEF Upto
<1> QED
  BY <1>2, <1>9, <1>10 DEF S

\* calc_priority permutes the queue, and with priorities sorts it by them.
LEMMA SortedIs ==
  ASSUME conf \in Configs, NEW q, Once(q, Reqs)
  PROVE  /\ Once(Sorted(q), Reqs) /\ Range(Sorted(q)) = Range(q)
         /\ PriorityScheduling => \A i, j \in DOMAIN Sorted(q) :
              i <= j => Priority[Sorted(q)[j]] <= Priority[Sorted(q)[i]]
<1> DEFINE n == Len(q)
           P(i) == Priority[q[i]]
           before(i, j) == P(i) > P(j) \/ (P(i) = P(j) /\ i < j)
           B == {p \in Pairs(q) : before(p[1], p[2])}
           t == Sorted(q)
<1>1. n \in Nat /\ DOMAIN q = 1..n /\ \A i \in 1..n : P(i) \in Int /\ q[i] \in Reqs
  BY ConfIs DEF Once
<1>2. PriorityScheduling => t = Arranged(q, B)
  BY Zenon DEF Sorted
<1>3. ~PriorityScheduling => t = q
  BY Zenon DEF Sorted
<1> HIDE DEF n, t
<1>4. \A i, j \in 1..n : <<i, j>> \in B <=> before(i, j)
  BY <1>1 DEF Pairs
<1> HIDE DEF B
<1>5. TotalOrder(B, n)
  <2> HIDE DEF P
  <2>1. \A i \in 1..n : ~before(i, i)
    BY <1>1
  <2>2. \A i, j \in 1..n : i # j => before(i, j) \/ before(j, i)
    BY <1>1
  <2>3. \A i, j, k \in 1..n : before(i, j) /\ before(j, k) => before(i, k)
    BY <1>1
  <2> HIDE DEF before
  <2> QED
    BY <1>4, <2>1, <2>2, <2>3, Zenon DEF TotalOrder
<1>6. /\ Once(Arranged(q, B), Reqs) /\ Range(Arranged(q, B)) = Range(q)
      /\ \A a, b \in DOMAIN Arranged(q, B) : a < b =>
           \E i, j \in 1..n : /\ Arranged(q, B)[a] = q[i] /\ Arranged(q, B)[b] = q[j]
                              /\ <<i, j>> \in B
  BY <1>5, ArrangedIs DEF n
<1>7. ASSUME PriorityScheduling, NEW a \in DOMAIN t, NEW b \in DOMAIN t, a <= b
      PROVE  Priority[t[b]] <= Priority[t[a]]
  <2>1. t = Arranged(q, B) /\ DOMAIN t \subseteq Int /\ t[a] \in Reqs /\ t[b] \in Reqs
    BY <1>2, <1>6, <1>7 DEF Once
  <2>2. Priority[t[a]] \in Int /\ Priority[t[b]] \in Int
    BY <2>1, ConfIs
  <2>3. CASE a = b
    BY <2>2, <2>3
  <2>4. CASE a # b
    <3>1. a < b
      BY <1>7, <2>1, <2>4
    <3>2. PICK i \in 1..n, j \in 1..n : t[a] = q[i] /\ t[b] = q[j] /\ <<i, j>> \in B
      BY <1>6, <2>1, <3>1, Zenon
    <3>3. before(i, j)
      BY <1>4, <3>2
    <3> QED
      BY <1>1, <3>2, <3>3
  <2> QED
    BY <2>3, <2>4
<1>8. Once(t, Reqs) /\ Range(t) = Range(q)
  BY <1>2, <1>3, <1>6, Zenon
<1> QED
  BY <1>7, <1>8, Zenon DEF t

\* The order of retraction permutes the batch.
LEMMA RetractOrderIs ==
  ASSUME conf \in Configs, NEW s, Once(s, Reqs), \A r \in Reqs : req[r].out \in Nat
  PROVE  Once(RetractOrder(s), Reqs) /\ Range(RetractOrder(s)) = Range(s)
<1> DEFINE n == Len(s)
           O(i) == req[s[i]].out
           P(i) == Prompt[s[i]]
           before(i, j) == \/ O(i) > O(j)
                           \/ O(i) = O(j) /\ P(i) < P(j)
                           \/ O(i) = O(j) /\ P(i) = P(j) /\ i < j
           B == {p \in Pairs(s) : before(p[1], p[2])}
<1>1. n \in Nat /\ DOMAIN s = 1..n /\ \A i \in 1..n : O(i) \in Int /\ P(i) \in Int
  BY SchedulerConstants DEF Once, Prompt
<1>2. RetractOrder(s) = Arranged(s, B)
  BY DEF RetractOrder
<1> HIDE DEF n
<1>4. \A i, j \in 1..n : <<i, j>> \in B <=> before(i, j)
  BY <1>1 DEF Pairs
<1> HIDE DEF B
<1>5. TotalOrder(B, n)
  <2> HIDE DEF P, O
  <2>1. \A i \in 1..n : ~before(i, i)
    BY <1>1
  <2>2. \A i, j \in 1..n : i # j => before(i, j) \/ before(j, i)
    BY <1>1
  <2>3. \A i, j, k \in 1..n : before(i, j) /\ before(j, k) => before(i, k)
    BY <1>1
  <2> HIDE DEF before
  <2> QED
    BY <1>4, <2>1, <2>2, <2>3, Zenon DEF TotalOrder
<1> QED
  BY <1>2, <1>5, ArrangedIs DEF n

\* The running requests that have not finished.
LEMMA LiveIs ==
  ASSUME Once(running, Reqs)
  PROVE  Once(Live, Reqs) /\ Range(Live) = {r \in Range(running) : ~req[r].finished}
<1> DEFINE I == {i \in DOMAIN running : ~req[running[i]].finished}
<1>1. DOMAIN running = 1..Len(running)
  BY DEF Once
<1>2. {running[i] : i \in I \cap (1..Len(running))} = {r \in Range(running) : ~req[r].finished}
  BY <1>1 DEF Range
<1>3. Live = Picked(running, I)
  BY DEF Live
<1> HIDE DEF I
<1> QED
  BY <1>2, <1>3, PickedIs
-----------------------------------------------------------------------------
(* The inductive invariant.                                                *)

\* Between the start of the scan and the prefill batch the adder is in use.
Ahead == pc \in {"scan", "add", "commit"}

\* The requests preempted and admitted in this iteration; the batch that is about to be
\* merged, or was just launched; the batch whose result is overdue.
Put == IF Ahead THEN Range(adder.preempted) ELSE {}
Admitted == IF Ahead THEN Range(adder.can) ELSE {}
Held == IF pc = "recv" THEN last ELSE IF pc = "process" THEN batch ELSE NoBatch
Late == IF Overlap /\ pc # "recv" THEN Range(last.reqs) ELSE {}

IsReq(q) ==
  /\ DOMAIN q = {"out", "fill", "prefix", "ext", "kv", "chunks", "retracted", "to_finish",
                 "finished", "freed"}
  /\ q.out \in Nat
  /\ q.retracted \in BOOLEAN /\ q.to_finish \in BOOLEAN
  /\ q.finished \in BOOLEAN /\ q.freed \in BOOLEAN

IsAdder(a) ==
  DOMAIN a = {"can", "preempted", "new_chunked", "states", "rem_input", "rem_chunk",
              "total_off", "cur_off"}

Typed ==
  /\ conf \in Configs /\ sent \subseteq Reqs /\ answered \in [Reqs -> 0..1]
  /\ \A r \in Reqs \ sent : answered[r] = 0
  /\ req = [r \in Reqs |-> req[r]] /\ \A r \in Reqs : IsReq(req[r])

\* The requests that wait (W) or were preempted (P) are in no running batch R, are not the
\* chunked request K and not in the batch H, and have no answer.  Those that run or are
\* admitted (C) have none unless they are finished, and so have those of the batch L whose
\* result is overdue, unless they were retracted.
Placed(W, P, R, K, C, H, L, S, q, a) ==
  /\ W \cup P \cup R \cup K \cup C \cup H \cup L \subseteq S
  /\ \A r \in W : r \notin P /\ r \notin R /\ r \notin K /\ r \notin H /\ a[r] = 0
  /\ \A r \in P : r \notin R /\ r \notin K /\ r \notin H /\ r \notin C /\ a[r] = 0
  /\ \A r \in R : r \notin K /\ r \notin C
  /\ \A r \in R \cup K \cup C \cup H : q[r].finished \/ a[r] = 0
  /\ \A r \in L : q[r].finished \/ q[r].retracted \/ (a[r] = 0 /\ r \notin W /\ r \notin P)
  /\ \A r \in Reqs : q[r].finished => q[r].freed

Only(b) == IF b = NoBatch THEN <<>> ELSE <<b>>

\* result_queue in the overlap loop.
Pending ==
  Overlap => results = IF pc = "process" THEN Only(last) \o Only(batch) ELSE Only(last)

\* The prefill batch is not part of the running batch yet; in the normal loop no request
\* that decodes is finished.
Fresh ==
  /\ IsExtend(Held) => \A r \in Range(Held.reqs) : r \notin Range(running)
  /\ ~Overlap /\ pc = "process" /\ batch.mode = "decode" =>
       \A r \in Range(batch.reqs) : ~req[r].finished

\* The requests admitted from the queue are the first k, and while the scan goes on the
\* ones before it.
Scanned ==
  /\ IsAdder(adder) /\ Once(adder.can, Reqs) /\ Once(adder.preempted, Reqs)
  /\ \A r \in adder.new_chunked : r \in Range(adder.can)
  /\ scan \in Nat \ {0} /\ (pc = "add" => scan <= Len(waiting))
  /\ \E k \in 0..Len(waiting) :
       /\ k < scan /\ (pc # "commit" => k = scan - 1)
       /\ \A i \in DOMAIN waiting : waiting[i] \in Range(adder.can) <=> i <= k
  /\ PriorityScheduling => \A i, j \in DOMAIN waiting :
       i <= j => Priority[waiting[j]] <= Priority[waiting[i]]

LInv ==
  /\ Once(waiting, Reqs) /\ Once(running, Reqs) /\ Once(Held.reqs, Reqs)
  /\ Placed(Range(waiting), Put, Range(running), chunked, Admitted, Range(Held.reqs), Late,
            sent, req, answered)
  /\ Fresh /\ Pending
  /\ Ahead => Scanned

AInv == Typed /\ (pc # "dead" => LInv)

\* The second invariant, for servers that preempt nothing and requests that ask for tokens:
\* every request that was received and not answered is queued, running, chunked, admitted,
\* or in the prefill batch about to be merged.
Steady == ~PriorityScheduling /\ \A r \in Reqs : MaxNew[r] > 0
Joining(b) == IF IsExtend(b) THEN Range(b.reqs) ELSE {}
Covered(W, R, K, C, J, S, a) ==
  \A r \in S : a[r] = 0 => r \in W \/ r \in R \/ r \in K \/ r \in C \/ r \in J

\* The chunked request is admitted before all others, and is in the batch just launched;
\* n is the new chunked request of the scan, b the batch held.
OneChunk(p, K, C, n, b) ==
  /\ \A r, q \in K : r = q
  /\ p = "decode" => K = {}
  /\ p \in {"scan", "add", "commit"} => K \subseteq C /\ \A r, q \in n : r = q
  /\ p \in {"recv", "process"} => K \subseteq Joining(b) /\ (IsExtend(b) => b.chunked \subseteq K)
  /\ ~b.prefill_only

Whole ==
  /\ Covered(Range(waiting), Range(running), chunked, Admitted, Joining(Held), sent, answered)
  /\ OneChunk(pc, chunked, Admitted, adder.new_chunked, Held)
  /\ \A r \in Reqs : req[r].finished => answered[r] = 1
  /\ Put = {}

CInv == Steady /\ pc # "dead" => Whole

\* Nothing is in no list.
LEMMA Nothing ==
  Range(<<>>) = {} /\ Once(<<>>, Reqs) /\ NoBatch.reqs = <<>> /\ ~IsExtend(NoBatch)
BY DEF Range, Once, IsInjective, NoBatch, IsExtend

\* No batch is about to be merged.
LEMMA NothingJoins ==
  Joining(NoBatch) = {} /\ ~NoBatch.prefill_only
BY DEF Joining, NoBatch, IsExtend

\* Before the first request every list is empty.
LEMMA InitAInv ==
  ASSUME Init
  PROVE  AInv
<1>0. /\ waiting = <<>> /\ running = <<>> /\ chunked = {} /\ sent = {}
      /\ req = [r \in Reqs |-> FreshReq] /\ answered = [r \in Reqs |-> 0] /\ conf \in Configs
  BY DEF Init
<1>1. Typed
  <2>1. IsReq(FreshReq)
    BY DEF IsReq, FreshReq
  <2> QED
    BY <1>0, <2>1 DEF Typed
<1>2. Held.reqs = <<>> /\ Put = {} /\ Admitted = {} /\ Late = {} /\ ~Ahead /\ ~IsExtend(Held)
  BY DEF Init, Held, Put, Admitted, Late, Ahead, IsExtend, NoBatch
<1>3. Pending /\ Fresh
  BY <1>2 DEF Init, Pending, Fresh, Only
<1>4. Placed({}, {}, {}, {}, {}, {}, {}, {}, req, answered)
  BY <1>0 DEF Placed, FreshReq
<1>5. LInv
  BY <1>0, <1>2, <1>3, <1>4, Nothing, Zenon DEF LInv
<1> QED
  BY <1>1, <1>5 DEF AInv

\* Before the first request there is none to be found.
LEMMA InitCInv ==
  ASSUME Init
  PROVE  CInv
<1>1. /\ waiting = <<>> /\ running = <<>> /\ chunked = {} /\ sent = {} /\ pc = "recv"
      /\ req = [r \in Reqs |-> FreshReq] /\ last = NoBatch
  BY DEF Init
<1>2. Held = NoBatch /\ Put = {} /\ Admitted = {}
  BY <1>1 DEF Held, Put, Admitted, Ahead
<1>3. OneChunk("recv", {}, {}, adder.new_chunked, NoBatch)
  BY NothingJoins, Nothing DEF OneChunk
<1>4. \A r \in Reqs : ~req[r].finished
  BY <1>1 DEF FreshReq
<1>5. Whole
  BY <1>1, <1>2, <1>3, <1>4 DEF Whole, Covered
<1> QED
  BY <1>5 DEF CInv

\* A terminal answer for requests that have none.
LEMMA AnswerIs ==
  ASSUME answered \in [Reqs -> 0..1], NEW S \in SUBSET Reqs, \A r \in S : answered[r] = 0
  PROVE  /\ Answer(S) \in [Reqs -> 0..1]
         /\ \A r \in Reqs : r \notin S => Answer(S)[r] = answered[r]
         /\ \A r \in S : Answer(S)[r] = 1
BY DEF Answer

\* No output token is lost, and a finished request gets none.
Kept == \A r \in Reqs : /\ req'[r].out >= req[r].out
                        /\ req[r].finished => req'[r].out = req[r].out

\* A step that keeps every output keeps this.
LEMMA KeptIs ==
  ASSUME Typed, \A r \in Reqs : req'[r].out = req[r].out
  PROVE  Kept
BY DEF Kept, Typed, IsReq

\* So does a step that leaves the requests alone.
LEMMA SameKept ==
  ASSUME Typed, req' = req
  PROVE  Kept
BY DEF Kept, Typed, IsReq

\* A step keeps the second invariant.
Stays == CInv => CInv'

\* The server arguments never change, so it is enough to look at a live, steady server.
LEMMA StaysIs ==
  ASSUME UNCHANGED conf, pc # "dead", Steady /\ Whole => Whole'
  PROVE  Stays
<1>1. Steady' = Steady
  BY DEF Steady, PriorityScheduling, MaxNew
<1> QED
  BY <1>1 DEF Stays, CInv

\* A request is received: it is queued or rejected.
LEMMA HandleGenerateStep ==
  ASSUME AInv, NEW r \in Reqs, HandleGenerate(r)
  PROVE  AInv' /\ Kept /\ Stays
<1> DEFINE w == Enqueue([q |-> waiting, out |-> {}], r)
           W == Range(waiting)
           R == Range(running)
           H == Range(last.reqs)
<1>1. /\ pc = "recv" /\ pc' = "recv" /\ Typed /\ LInv /\ r \notin sent /\ sent' = sent \cup {r}
      /\ waiting' = w.q /\ answered' = Answer(w.out)
      /\ UNCHANGED <<conf, running, chunked, batch, last, results, adder, scan, req>>
  BY DEF HandleGenerate, AInv
<1>2. /\ Held = last /\ Put = {} /\ Admitted = {} /\ Late = {} /\ ~Ahead
      /\ Held' = last /\ Put' = {} /\ Admitted' = {} /\ Late' = {} /\ ~Ahead'
  BY <1>1, Zenon DEF Held, Put, Admitted, Late, Ahead
<1>3. /\ Placed(W, {}, R, chunked, {}, H, {}, sent, req, answered)
      /\ Once(waiting, Reqs) /\ Once(running, Reqs) /\ Once(last.reqs, Reqs)
      /\ Fresh /\ Pending
  BY <1>1, <1>2, Zenon DEF LInv
<1>4. Queue(w, W \cup {r})
  <2> DEFINE e == [q |-> waiting, out |-> {}]
  <2>1. e \in [q : Seq(Reqs), out : SUBSET Reqs] /\ Queue(e, W) /\ r \notin W
    <3>1. r \notin W
      BY <1>1, <1>3, Zenon DEF Placed
    <3>2. Once(waiting, Reqs)
      BY <1>3, Zenon
    <3> QED
      BY <3>1, <3>2 DEF Queue, Once
  <2> HIDE DEF e, W
  <2> QED
    <3>1. conf \in Configs
      BY <1>1 DEF Typed
    <3>2. Queue(Enqueue(e, r), W \cup {r})
      BY <2>1, <3>1, EnqueueIs, Zenon
    <3> QED
      BY <3>2 DEF e
<1> HIDE DEF w, W, R, H
<1>5. \A x \in W \cup {r} : x \in Reqs /\ answered[x] = 0
  BY <1>1, <1>3 DEF Placed, Typed
<1>6. /\ Once(w.q, Reqs) /\ Range(w.q) \cup w.out = W \cup {r} /\ Range(w.q) \cap w.out = {}
      /\ w.out \in SUBSET Reqs /\ \A x \in w.out : answered[x] = 0
  BY <1>4, <1>5 DEF Queue
<1>7. /\ Answer(w.out) \in [Reqs -> 0..1]
      /\ \A x \in Reqs : x \notin w.out => Answer(w.out)[x] = answered[x]
      /\ \A x \in w.out : Answer(w.out)[x] = 1
  BY <1>1, <1>6, AnswerIs, Zenon DEF Typed
<1>8. Typed'
  BY <1>1, <1>3, <1>6, <1>7 DEF Typed, Placed
<1>9. Placed(Range(w.q), {}, R, chunked, {}, H, {}, sent \cup {r}, req, Answer(w.out))
  <2> DEFINE Q == Range(w.q)
             O == w.out
             a == Answer(w.out)
  <2>1. /\ Q \cup O = W \cup {r} /\ Q \cap O = {} /\ r \notin sent /\ r \in Reqs
        /\ \A x \in Reqs : x \notin O => a[x] = answered[x]
        /\ \A x \in W \cup {r} : x \in Reqs /\ answered[x] = 0
    BY <1>1, <1>5, <1>6, <1>7
  <2>2. Placed(W, {}, R, chunked, {}, H, {}, sent, req, answered) /\ sent \subseteq Reqs
    BY <1>1, <1>3, Zenon DEF Typed
  <2> HIDE DEF Q, O, a
  <2>3. Placed(Q, {}, R, chunked, {}, H, {}, sent \cup {r}, req, a)
    BY <2>1, <2>2, Zenon DEF Placed
  <2> QED
    BY <2>3, Zenon DEF Q, a
<1>10. Fresh' /\ Pending'
  BY <1>1, <1>2, <1>3, Zenon DEF Fresh, Pending, Overlap
<1>11. LInv'
  BY <1>1, <1>2, <1>3, <1>6, <1>9, <1>10, Zenon DEF LInv, R, H
<1>c. Stays
  <2>1. ASSUME Steady, Whole PROVE Whole'
    <3> DEFINE J == Joining(last)
    <3>1. /\ Covered(W, R, chunked, {}, J, sent, answered)
          /\ OneChunk("recv", chunked, {}, adder.new_chunked, last)
          /\ \A x \in Reqs : req[x].finished => answered[x] = 1
      BY <1>1, <1>2, <2>1, Zenon DEF Whole, W, R
    <3> HIDE DEF J
    <3>2. Covered(Range(w.q), R, chunked, {}, J, sent \cup {r}, Answer(w.out))
      <4>1. sent \subseteq Reqs
        BY <1>1, Zenon DEF Typed
      <4> QED
        BY <1>6, <1>7, <3>1, <4>1 DEF Covered
    <3>3. \A x \in Reqs : req[x].finished => Answer(w.out)[x] = 1
      BY <1>6, <1>7, <3>1
    <3> QED
      BY <1>1, <1>2, <3>1, <3>2, <3>3, Zenon DEF Whole, R, J
  <2> QED
    BY <1>1, <2>1, StaysIs
<1>k. Kept
  BY <1>1, SameKept
<1> QED
  BY <1>8, <1>11, <1>k, <1>c, Zenon DEF AInv

\* An abort: queued requests are answered, started ones are marked.
LEMMA AbortRequestStep ==
  ASSUME AInv, NEW S, AbortRequest(S)
  PROVE  AInv' /\ Kept /\ Stays
<1> DEFINE A == S \cap Range(waiting)
           T == S \cap (Range(running) \cup Range(last.reqs))
           W == Range(waiting)
           R == Range(running)
           H == Range(last.reqs)
<1>1. /\ pc = "recv" /\ pc' = "recv" /\ Typed /\ LInv
      /\ waiting' = Without(waiting, A) /\ answered' = Answer(A)
      /\ UNCHANGED <<conf, running, chunked, batch, last, results, adder, scan, sent>>
      /\ req' = [r \in Reqs |-> IF r \in T /\ ~req[r].finished
                                THEN [req[r] EXCEPT !.to_finish = TRUE] ELSE req[r]]
  BY DEF AbortRequest, AbortedAtOnce, AInv
<1>2. /\ Held = last /\ Put = {} /\ Admitted = {} /\ Late = {} /\ ~Ahead
      /\ Held' = last /\ Put' = {} /\ Admitted' = {} /\ Late' = {} /\ ~Ahead'
  BY <1>1 DEF Held, Put, Admitted, Late, Ahead
<1>3. /\ Placed(W, {}, R, chunked, {}, H, {}, sent, req, answered)
      /\ Once(waiting, Reqs) /\ Once(running, Reqs) /\ Once(last.reqs, Reqs)
      /\ Fresh /\ Pending
  BY <1>1, <1>2 DEF LInv
<1>4. Once(Without(waiting, A), Reqs) /\ Range(Without(waiting, A)) = W \ A
  BY <1>3, WithoutIs
<1> HIDE DEF T, W, R, H
<1>5. A \subseteq W /\ A \in SUBSET Reqs /\ \A x \in A : answered[x] = 0
  BY <1>1, <1>3 DEF Placed, Typed, W
<1> HIDE DEF A
<1>6. /\ Answer(A) \in [Reqs -> 0..1]
      /\ \A x \in Reqs : x \notin A => Answer(A)[x] = answered[x]
      /\ \A x \in A : Answer(A)[x] = 1
  BY <1>1, <1>5, AnswerIs DEF Typed
<1>7. /\ req' = [r \in Reqs |-> req'[r]] /\ \A r \in Reqs : IsReq(req'[r])
      /\ \A r \in Reqs : /\ req'[r].finished = req[r].finished /\ req'[r].freed = req[r].freed
                         /\ req'[r].out = req[r].out
  <2>1. req' = [r \in Reqs |-> req'[r]]
    BY <1>1
  <2>2. ASSUME NEW r \in Reqs
        PROVE  /\ IsReq(req'[r]) /\ req'[r].finished = req[r].finished /\ req'[r].out = req[r].out
               /\ req'[r].freed = req[r].freed
    <3>1. IsReq(req[r])
      BY <1>1 DEF Typed
    <3>2. CASE r \in T /\ ~req[r].finished
      <4>1. req'[r] = [req[r] EXCEPT !.to_finish = TRUE]
        BY <1>1, <3>2
      <4> QED
        BY <3>1, <4>1 DEF IsReq
    <3>3. CASE ~(r \in T /\ ~req[r].finished)
      BY <1>1, <3>1, <3>3
    <3> QED
      BY <3>2, <3>3
  <2> QED
    BY <2>1, <2>2
<1>8. Typed'
  BY <1>1, <1>3, <1>5, <1>6, <1>7, Zenon DEF Typed, Placed
<1>9. Placed(W \ A, {}, R, chunked, {}, H, {}, sent, req', Answer(A))
  <2>1. sent \subseteq Reqs
    BY <1>1 DEF Typed
  <2> QED
    BY <2>1, <1>3, <1>5, <1>6, <1>7 DEF Placed
<1>10. Fresh' /\ Pending'
  BY <1>1, <1>2, <1>3 DEF Fresh, Pending, Overlap
<1>11. LInv'
  BY <1>1, <1>2, <1>3, <1>4, <1>9, <1>10 DEF LInv, R, H
<1>c. Stays
  <2>1. ASSUME Steady, Whole PROVE Whole'
    <3> DEFINE J == Joining(last)
    <3>1. /\ Covered(W, R, chunked, {}, J, sent, answered)
          /\ OneChunk("recv", chunked, {}, adder.new_chunked, last)
          /\ \A x \in Reqs : req[x].finished => answered[x] = 1
      BY <1>1, <1>2, <2>1, Zenon DEF Whole, W, R
    <3> HIDE DEF J
    <3>2. Covered(W \ A, R, chunked, {}, J, sent, Answer(A))
      <4>1. sent \subseteq Reqs
        BY <1>1 DEF Typed
      <4> QED
        BY <1>5, <1>6, <3>1, <4>1 DEF Covered
    <3>3. \A x \in Reqs : req'[x].finished => Answer(A)[x] = 1
      BY <1>5, <1>6, <1>7, <3>1
    <3> QED
      BY <1>1, <1>2, <1>4, <3>1, <3>2, <3>3, Zenon DEF Whole, R, J
  <2> QED
    BY <1>1, <2>1, StaysIs
<1>k. Kept
  BY <1>1, <1>7, KeptIs
<1> QED
  BY <1>8, <1>11, <1>k, <1>c DEF AInv

\* flush_cache, with nothing queued and nothing running.
LEMMA FlushCacheStep ==
  ASSUME AInv, FlushCache
  PROVE  AInv' /\ Kept /\ Stays
<1>1. /\ pc = "recv" /\ pc' = "recv" /\ Typed /\ LInv
      /\ waiting = <<>> /\ running = <<>> /\ last.reqs = <<>> /\ last' = NoBatch
      /\ Overlap => results = <<>>
      /\ UNCHANGED <<conf, waiting, running, chunked, batch, results, adder, scan, req, sent,
                     answered>>
  BY DEF FlushCache, AInv
<1>2. /\ Held = last /\ Put = {} /\ Admitted = {} /\ Late = {} /\ ~Ahead
      /\ Held' = NoBatch /\ Put' = {} /\ Admitted' = {} /\ Late' = {} /\ ~Ahead'
  BY <1>1 DEF Held, Put, Admitted, Late, Ahead
<1>3. Typed'
  BY <1>1 DEF Typed
<1>4. Placed({}, {}, {}, chunked, {}, {}, {}, sent, req, answered)
  BY <1>1, <1>2, Nothing, Zenon DEF LInv
<1>5. Fresh' /\ Pending' /\ NoBatch.reqs = <<>>
  BY <1>1, <1>2, Nothing, Zenon DEF Fresh, Pending, Overlap, Only, NoBatch, IsExtend
<1>6. LInv'
  BY <1>1, <1>2, <1>4, <1>5, Nothing, Zenon DEF LInv
<1>c. Stays
  <2>1. ASSUME Steady, Whole PROVE Whole'
    <3>1. /\ Covered({}, {}, chunked, {}, Joining(last), sent, answered)
          /\ OneChunk("recv", chunked, {}, adder.new_chunked, last)
          /\ \A x \in Reqs : req[x].finished => answered[x] = 1
      BY <1>1, <1>2, <2>1, Nothing, Zenon DEF Whole
    <3>2. Joining(last) = {}
      BY <1>1, Nothing, Zenon DEF Joining
    <3>3. chunked = {}
      BY <3>1, <3>2 DEF OneChunk
    <3>4. OneChunk("recv", chunked, {}, adder.new_chunked, NoBatch)
      BY <3>3, Nothing, NothingJoins DEF OneChunk
    <3> QED
      BY <1>1, <1>2, <3>1, <3>2, <3>4, Nothing, NothingJoins, Zenon DEF Whole
  <2> QED
    BY <1>1, <2>1, StaysIs
<1>k. Kept
  BY <1>1, SameKept, Zenon
<1> QED
  BY <1>3, <1>6, <1>k, <1>c, Zenon DEF AInv

\* The last prefill batch joins the running batch, but for its chunked and its finished
\* requests.
LEMMA MergeLastBatchStep ==
  ASSUME AInv, MergeLastBatch
  PROVE  AInv' /\ Kept /\ Stays
<1> DEFINE W == Range(waiting)
           R == Range(running)
           H == Range(last.reqs)
           L == IF Overlap THEN H ELSE {}
           kept == Without(last.reqs, Leaving)
<1>0. /\ running' = running \/ (IsExtend(last) /\ running' = running \o kept)
      /\ IsExtend(last) /\ ~last.prefill_only => kept = <<>> \/ running' = running \o kept
  BY Zenon DEF MergeLastBatch
<1>1. /\ pc = "recv" /\ pc' = "prefill" /\ Typed /\ LInv
      /\ req' = [r \in Reqs |-> IF r \in chunked THEN [req[r] EXCEPT !.prefix = req[r].fill]
                                ELSE req[r]]
      /\ UNCHANGED <<conf, waiting, chunked, batch, last, results, adder, scan, sent, answered>>
  BY Zenon DEF MergeLastBatch, AInv
<1>2. /\ Held = last /\ Put = {} /\ Admitted = {} /\ Late = {} /\ ~Ahead
      /\ Held' = NoBatch /\ Put' = {} /\ Admitted' = {} /\ ~Ahead'
      /\ Late' = L /\ L \subseteq H
  BY <1>1 DEF Held, Put, Admitted, Late, Ahead, Overlap
<1>3. /\ Placed(W, {}, R, chunked, {}, H, {}, sent, req, answered)
      /\ Once(waiting, Reqs) /\ Once(running, Reqs) /\ Once(last.reqs, Reqs)
      /\ Fresh /\ Pending
  BY <1>1, <1>2 DEF LInv
<1>4. Once(kept, Reqs) /\ Range(kept) = H \ Leaving
  BY <1>3, WithoutIs, Zenon
<1>5. \A r \in H \ Leaving : ~req[r].finished /\ r \notin chunked
  BY Zenon DEF Leaving
<1> HIDE DEF kept, L, W, R, H
<1>6. IsExtend(last) => \A r \in R : r \notin Range(kept)
  BY <1>2, <1>3, <1>4, Zenon DEF Fresh, R, H
<1>18. ASSUME IsExtend(last)
       PROVE  /\ Once(running \o kept, Reqs)
              /\ Range(running \o kept) = Range(running) \cup Range(kept)
  <2>1. \A x \in Range(running) : x \notin Range(kept)
    BY <1>6, <1>18 DEF R
  <2>2. Once(running, Reqs)
    BY <1>3, Zenon
  <2>3. Once(kept, Reqs)
    BY <1>4, Zenon
  <2>4. Joined(running \o kept, running, kept, Reqs)
    BY <2>1, <2>2, <2>3, JoinOnce, Zenon
  <2> QED
    BY <2>4, Zenon DEF Joined
<1>7. /\ Once(running', Reqs) /\ R \subseteq Range(running')
      /\ \A r \in Range(running') \ R : r \in H /\ ~req[r].finished /\ r \notin chunked
  <2>1. CASE running' = running
    BY <1>3, <2>1 DEF R
  <2>2. CASE IsExtend(last) /\ running' = running \o kept
    BY <1>4, <1>5, <1>18, <2>2 DEF R
  <2> QED
    BY <1>0, <2>1, <2>2, Zenon
<1>13. IsExtend(last) /\ ~last.prefill_only => Range(kept) \subseteq Range(running')
  <2>1. CASE kept = <<>>
    BY <2>1, Nothing
  <2>2. CASE IsExtend(last) /\ running' = running \o kept
    BY <1>18, <2>2
  <2> QED
    BY <1>0, <2>1, <2>2
<1>8. /\ req' = [r \in Reqs |-> req'[r]] /\ \A r \in Reqs : IsReq(req'[r])
      /\ \A r \in Reqs : /\ req'[r].finished = req[r].finished /\ req'[r].freed = req[r].freed
                         /\ req'[r].out = req[r].out
  <2>1. req' = [r \in Reqs |-> req'[r]]
    BY <1>1
  <2>2. ASSUME NEW r \in Reqs
        PROVE  /\ IsReq(req'[r]) /\ req'[r].finished = req[r].finished /\ req'[r].out = req[r].out
               /\ req'[r].freed = req[r].freed
    <3>1. IsReq(req[r])
      BY <1>1 DEF Typed
    <3>2. CASE r \in chunked
      <4>1. req'[r] = [req[r] EXCEPT !.prefix = req[r].fill]
        BY <1>1, <3>2
      <4> QED
        BY <3>1, <4>1 DEF IsReq
    <3>3. CASE r \notin chunked
      BY <1>1, <3>1, <3>3
    <3> QED
      BY <3>2, <3>3
  <2> QED
    BY <2>1, <2>2
<1>9. Typed'
  BY <1>1, <1>8 DEF Typed
<1>10. Placed(W, {}, Range(running'), chunked, {}, {}, L, sent, req', answered)
  <2> DEFINE R2 == Range(running')
  <2>1. /\ R \subseteq R2 /\ \A r \in R2 \ R : r \in H /\ ~req[r].finished /\ r \notin chunked
        /\ L \subseteq H /\ sent \subseteq Reqs
    BY <1>1, <1>2, <1>7, Zenon DEF Typed
  <2> HIDE DEF R2
  <2>2. Placed(W, {}, R2, chunked, {}, {}, L, sent, req', answered)
    BY <1>3, <1>8, <2>1 DEF Placed
  <2> QED
    BY <2>2 DEF R2
<1>11. Fresh' /\ Pending' /\ NoBatch.reqs = <<>>
  BY <1>1, <1>2, <1>3 DEF Fresh, Pending, Overlap, IsExtend, NoBatch
<1>12. LInv'
  BY <1>1, <1>2, <1>3, <1>7, <1>10, <1>11, Nothing, Zenon DEF LInv, W
<1>c. Stays
  <2>1. ASSUME Steady, Whole PROVE Whole'
    <3> DEFINE J == Joining(last)
               R2 == Range(running')
    <3>1. /\ Covered(W, R, chunked, {}, J, sent, answered)
          /\ OneChunk("recv", chunked, {}, adder.new_chunked, last)
          /\ \A x \in Reqs : req[x].finished => answered[x] = 1
      BY <1>1, <1>2, <2>1, Zenon DEF Whole, W, R
    <3>2. \A r \in J : req[r].finished \/ r \in chunked \/ r \in R2
      <4>1. CASE ~IsExtend(last)
        BY <4>1 DEF Joining
      <4>2. CASE IsExtend(last)
        <5>1. last.chunked \subseteq chunked /\ ~last.prefill_only /\ J = H
          BY <3>1, <4>2 DEF OneChunk, Joining, H
        <5>2. Range(kept) \subseteq R2
          BY <1>13, <4>2, <5>1, Zenon
        <5> QED
          BY <1>4, <5>1, <5>2, Zenon DEF Leaving, H
      <4> QED
        BY <4>1, <4>2
    <3>3. OneChunk("prefill", chunked, {}, adder.new_chunked, NoBatch)
      BY <3>1, Nothing, NothingJoins DEF OneChunk
    <3> HIDE DEF J, R2
    <3>4. R \subseteq R2 /\ sent \subseteq Reqs
      BY <1>1, <1>7 DEF R2, Typed
    <3>5. Covered(W, R2, chunked, {}, {}, sent, answered)
      BY <3>1, <3>2, <3>4 DEF Covered
    <3>6. \A x \in Reqs : req'[x].finished => answered[x] = 1
      BY <1>8, <3>1
    <3> QED
      BY <1>1, <1>2, <3>3, <3>5, <3>6, NothingJoins, Zenon DEF Whole, W, R2
  <2> QED
    BY <1>1, <2>1, StaysIs
<1>k. Kept
  BY <1>1, <1>8, KeptIs
<1> QED
  BY <1>9, <1>12, <1>k, <1>c DEF AInv

\* No prefill in this iteration.
LEMMA NoPrefillStep ==
  ASSUME AInv, NoPrefill
  PROVE  AInv' /\ Kept /\ Stays
<1>1. /\ pc = "prefill" /\ pc' = "decode" /\ Typed /\ LInv
      /\ UNCHANGED <<conf, waiting, running, chunked, batch, last, results, adder, scan, req,
                     sent, answered>>
  BY DEF NoPrefill, AInv
<1>2. /\ Held' = Held /\ Put' = Put /\ Admitted' = Admitted /\ Late' = Late /\ ~Ahead'
      /\ Overlap' = Overlap
  BY <1>1 DEF Held, Put, Admitted, Late, Ahead, Overlap
<1>3. Typed' /\ Fresh' /\ Pending'
  BY <1>1, <1>2 DEF LInv, Typed, Fresh, Pending
<1>4. LInv'
  BY <1>1, <1>2, <1>3 DEF LInv
<1>c. Stays
  <2>1. ASSUME Steady, Whole PROVE Whole'
    <3>1. chunked = {} /\ Held = NoBatch
      BY <1>1, Zenon DEF NoPrefill, Held
    <3>2. OneChunk("decode", chunked, Admitted, adder.new_chunked, NoBatch)
      BY <3>1, NothingJoins DEF OneChunk
    <3> QED
      BY <1>1, <1>2, <2>1, <3>1, <3>2, Zenon DEF Whole
  <2> QED
    BY <1>1, <2>1, StaysIs
<1>k. Kept
  BY <1>1, SameKept, Zenon
<1> QED
  BY <1>3, <1>4, <1>k, <1>c DEF AInv

Budgets(i, c, o, t) ==
  [NoAdder EXCEPT !.rem_input = i, !.rem_chunk = c, !.cur_off = o, !.total_off = t]

\* A new PrefillAdder has admitted nothing; _update_prefill_budget puts the request on
\* can_run_list.
LEMMA AdderIs ==
  /\ IsAdder(NewAdder) /\ NewAdder.can = <<>> /\ NewAdder.preempted = <<>>
  /\ NewAdder.new_chunked = {}
  /\ \A a, r, ext, new : IsAdder(a) =>
       /\ IsAdder(Budgeted(a, r, ext, new)) /\ Budgeted(a, r, ext, new).can = Append(a.can, r)
       /\ Budgeted(a, r, ext, new).preempted = a.preempted
       /\ Budgeted(a, r, ext, new).new_chunked = a.new_chunked
<1>1. \A i, c, o, t : /\ IsAdder(Budgets(i, c, o, t)) /\ Budgets(i, c, o, t).can = <<>>
                      /\ Budgets(i, c, o, t).preempted = <<>>
                      /\ Budgets(i, c, o, t).new_chunked = {}
  BY DEF NoAdder, IsAdder, Budgets
<1>2. /\ IsAdder(NewAdder) /\ NewAdder.can = <<>> /\ NewAdder.preempted = <<>>
      /\ NewAdder.new_chunked = {}
  <2>1. \E i, c, o, t : NewAdder = Budgets(i, c, o, t)
    BY Zenon DEF NewAdder, Budgets
  <2> QED
    BY <1>1, <2>1, Zenon
<1>3. ASSUME NEW a, NEW r, NEW ext, NEW new, IsAdder(a)
      PROVE  /\ IsAdder(Budgeted(a, r, ext, new))
             /\ Budgeted(a, r, ext, new).can = Append(a.can, r)
             /\ Budgeted(a, r, ext, new).preempted = a.preempted
             /\ Budgeted(a, r, ext, new).new_chunked = a.new_chunked
  BY <1>3, Zenon DEF Budgeted, IsAdder
<1> QED
  BY <1>2, <1>3

\* Only scheduling fields of requests change.
Reworked(q) ==
  /\ q = [r \in Reqs |-> q[r]] /\ \A r \in Reqs : IsReq(q[r])
  /\ \A r \in Reqs : /\ q[r].finished = req[r].finished /\ q[r].freed = req[r].freed
                     /\ q[r].retracted = req[r].retracted /\ q[r].out = req[r].out

\* The scan starts: the queue is sorted, and the chunked request is admitted first.
LEMMA StartPrefillStep ==
  ASSUME AInv, StartPrefill
  PROVE  AInv' /\ Kept /\ Stays
<1> DEFINE W == Range(waiting)
           R == Range(running)
           C == Range(adder'.can)
<1>1. /\ pc = "prefill" /\ pc' = "scan" /\ scan' = 1 /\ Typed /\ LInv
      /\ waiting' = Sorted(waiting)
      /\ UNCHANGED <<conf, running, batch, last, results, sent, answered>>
  BY DEF StartPrefill, AInv
<1>2. /\ Held = NoBatch /\ Put = {} /\ Admitted = {} /\ ~Ahead
      /\ Held' = NoBatch /\ Admitted' = C /\ Put' = Range(adder'.preempted)
      /\ Late' = Late /\ Ahead'
  BY <1>1 DEF Held, Put, Admitted, Ahead, Late, Overlap
<1>3. /\ Placed(W, {}, R, chunked, {}, {}, Late, sent, req, answered)
      /\ Once(waiting, Reqs) /\ Once(running, Reqs) /\ Fresh /\ Pending /\ conf \in Configs
  BY <1>1, <1>2, Nothing, Zenon DEF LInv, Typed
<1>4. /\ Once(Sorted(waiting), Reqs) /\ Range(Sorted(waiting)) = W
      /\ PriorityScheduling => \A i, j \in DOMAIN Sorted(waiting) :
           i <= j => Priority[Sorted(waiting)[j]] <= Priority[Sorted(waiting)[i]]
  BY <1>3, SortedIs, Zenon
<1>5. /\ IsAdder(adder') /\ adder'.preempted = <<>> /\ Once(adder'.can, Reqs)
      /\ adder'.new_chunked = {}
      /\ C \subseteq chunked /\ chunked' \subseteq chunked /\ Reworked(req')
      /\ C # {} \/ chunked = {}
  <2>1. CASE chunked = {}
    <3>1. adder' = NewAdder /\ chunked' = chunked /\ req' = req
      BY <2>1, Zenon DEF StartPrefill
    <3> QED
      BY <1>1, <2>1, <3>1, AdderIs, Nothing DEF Typed, Reworked
  <2>2. CASE chunked # {}
    <3>0. (CHOOSE x \in chunked : TRUE) \in chunked
      BY <2>2, Zenon
    <3>1. PICK r \in chunked : \E ext, new, fill :
            /\ adder' = Budgeted(NewAdder, r, ext, new)
            /\ req' = [req EXCEPT ![r].ext = ext, ![r].fill = fill]
            /\ chunked' = chunked \/ chunked' = {}
      BY <2>2, <3>0, Zenon DEF StartPrefill
    <3>2. r \in Reqs
      BY <1>1, <1>3 DEF Placed, Typed
    <3>3. /\ IsAdder(adder') /\ adder'.can = Append(<<>>, r) /\ adder'.preempted = <<>>
          /\ adder'.new_chunked = {}
      BY <3>1, AdderIs
    <3>4. Once(Append(<<>>, r), Reqs) /\ Range(Append(<<>>, r)) = {r}
      BY <3>2 DEF Once, IsInjective, Range
    <3>5. Reworked(req')
      <4>1. req = [x \in Reqs |-> req[x]] /\ \A x \in Reqs : IsReq(req[x])
        BY <1>1 DEF Typed
      <4>0. PICK ext, fill : req' = [req EXCEPT ![r].ext = ext, ![r].fill = fill]
        BY <3>1, Zenon
      <4>2. /\ req' = [x \in Reqs |-> req'[x]] /\ \A x \in Reqs : x # r => req'[x] = req[x]
            /\ req'[r] = [req[r] EXCEPT !.ext = ext, !.fill = fill]
        BY <3>2, <4>0, <4>1
      <4>3. /\ IsReq(req'[r]) /\ req'[r].finished = req[r].finished /\ req'[r].freed = req[r].freed
            /\ req'[r].retracted = req[r].retracted /\ req'[r].out = req[r].out
        BY <3>2, <4>1, <4>2 DEF IsReq
      <4>4. \A x \in Reqs : IsReq(req'[x])
        BY <4>1, <4>2, <4>3, Zenon
      <4> QED
        BY <4>2, <4>3, <4>4, Zenon DEF Reworked
    <3> QED
      BY <3>1, <3>2, <3>3, <3>4, <3>5
  <2> QED
    BY <2>1, <2>2, Zenon
<1> HIDE DEF W, R, C
<1>6. Typed'
  BY <1>1, <1>5, Zenon DEF Typed, Reworked
<1>7. Placed(W, {}, R, chunked', C, {}, Late, sent, req', answered)
  <2>1. sent \subseteq Reqs
    BY <1>1, Zenon DEF Typed
  <2> QED
    BY <2>1, <1>3, <1>5 DEF Placed, Reworked
<1>8. Fresh' /\ Pending'
  BY <1>1, <1>2, <1>3 DEF Fresh, Pending, Overlap, IsExtend, NoBatch
<1>9. Scanned'
  <2>1. Len(waiting') \in Nat /\ \A i \in DOMAIN waiting' : i \in Nat \ {0} /\ waiting'[i] \in W
    BY <1>1, <1>4, SeqIs DEF Once
  <2>2. \A r \in W : r \notin C
    BY <1>3, <1>5 DEF Placed
  <2>3. \A i \in DOMAIN waiting' : waiting'[i] \in C <=> i <= 0
    BY <2>1, <2>2
  <2>4. /\ IsAdder(adder)' /\ Once(adder'.can, Reqs) /\ Once(adder'.preempted, Reqs)
        /\ \A r \in adder'.new_chunked : r \in Range(adder'.can)
    BY <1>5, Nothing, Zenon
  <2>5. scan' \in Nat \ {0} /\ pc' # "add"
    BY <1>1
  <2>6. \E k \in 0..Len(waiting') :
          /\ k < scan' /\ (pc' # "commit" => k = scan' - 1)
          /\ \A i \in DOMAIN waiting' : waiting'[i] \in Range(adder'.can) <=> i <= k
    <3>1. 0 \in 0..Len(waiting') /\ 0 < scan' /\ 0 = scan' - 1
      BY <1>1, <2>1
    <3>2. \A i \in DOMAIN waiting' : waiting'[i] \in Range(adder'.can) <=> i <= 0
      BY <2>3, Zenon DEF C
    <3> QED
      BY <3>1, <3>2, Zenon
  <2>7. PriorityScheduling' => \A i, j \in DOMAIN waiting' :
          i <= j => Priority'[waiting'[j]] <= Priority'[waiting'[i]]
    BY <1>1, <1>4, Zenon DEF PriorityScheduling, Priority
  <2> QED
    BY <2>4, <2>5, <2>6, <2>7, Zenon DEF Scanned
<1>10. LInv'
  <2>1. Put' = {}
    BY <1>2, <1>5, Nothing
  <2> QED
    BY <2>1, <1>1, <1>2, <1>3, <1>4, <1>7, <1>8, <1>9, Nothing, Zenon DEF LInv, R
<1>c. Stays
  <2>1. ASSUME Steady, Whole PROVE Whole'
    <3>1. /\ Covered(W, R, chunked, {}, {}, sent, answered)
          /\ OneChunk("prefill", chunked, {}, adder.new_chunked, NoBatch)
          /\ \A x \in Reqs : req[x].finished => answered[x] = 1
      BY <1>1, <1>2, <2>1, NothingJoins, Zenon DEF Whole, W, R
    <3>2. chunked \subseteq C
      BY <1>5, <3>1, Zenon DEF OneChunk
    <3>3. OneChunk("scan", chunked', C, {}, NoBatch)
      BY <1>5, <3>1, <3>2, Zenon DEF OneChunk
    <3>4. Covered(W, R, chunked', C, {}, sent, answered)
      BY <3>1, <3>2 DEF Covered
    <3>5. \A x \in Reqs : req'[x].finished => answered[x] = 1
      BY <1>5, <3>1 DEF Reworked
    <3> QED
      BY <1>1, <1>2, <1>4, <1>5, <3>3, <3>4, <3>5, Nothing, NothingJoins, Zenon DEF Whole, W, R, C
  <2> QED
    BY <1>1, <2>1, StaysIs
<1>k. Kept
  BY <1>1, <1>5, KeptIs DEF Reworked
<1> QED
  BY <1>6, <1>10, <1>k, <1>c DEF AInv
=============================================================================
