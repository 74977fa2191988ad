--------------------------- MODULE RadixTreeProofs --------------------------
(***************************************************************************)
(* The operators of the radix cache, not its state, for every page size,   *)
(* pool, set of requests and inputs: what match, insert, lock, unlock,     *)
(* evict, cache_unfinished_req and cache_finished_req keep of the shape of *)
(* the tree, of the lock counts and of the pages of the paths that stay (K *)
(* is any set of page keys); how they cut the slots of a row, and what     *)
(* they, evict and alloc do to a partition of the pool into free pages,    *)
(* pages of the tree and pages of the requests.                            *)
(***************************************************************************)
EXTENDS RadixRequests, FiniteSetTheorems, TLAPS

USE SMTT(30)
-----------------------------------------------------------------------------
(* Positions of a row and the blocks of PageSize positions they lie in.    *)

\* Whole pages of a stretch of tokens.
LEMMA DivPage ==
  ASSUME NEW a \in Int
  PROVE  /\ a \div PageSize \in Int
         /\ (a \div PageSize) * PageSize <= a /\ a < (a \div PageSize) * PageSize + PageSize
BY PageSizeAssumption

\* Position i of n pages lies on page (i - 1) \div PageSize + 1 of them.
LEMMA PageOfPosition ==
  ASSUME NEW n \in Nat, NEW i \in 1..(n * PageSize)
  PROVE  (i - 1) \div PageSize + 1 \in 1..n
BY PageSizeAssumption

\* The last position of page i of n pages.
LEMMA LastOfPage ==
  ASSUME NEW n \in Nat, NEW i \in 1..n
  PROVE  i * PageSize \in 1..(n * PageSize) /\ (i - 1) * PageSize \in Nat
BY PageSizeAssumption

Block(i) == (i - 1) \div PageSize

\* Past position a, two slots of w are on one page exactly when they are in one block.
Blocks(w, a) == \A i, j \in (a + 1)..Len(w) : w[i] = w[j] <=> Block(i) = Block(j)

\* Multiples of the page size are a page apart.
LEMMA Apage ==
  ASSUME NEW a \in Int, NEW b \in Int
  PROVE  a * PageSize \in Int /\ (a < b => a * PageSize + PageSize <= b * PageSize)
<1>1. PageSize \in Int /\ PageSize > 0
  BY PageSizeAssumption
<1>2. ASSUME a < b PROVE a * PageSize + PageSize <= b * PageSize
  <2>1. (b - (a + 1)) * PageSize >= 0
    BY <1>1, <1>2
  <2>2. (b - (a + 1)) * PageSize = b * PageSize - (a * PageSize + PageSize)
    BY <1>1
  <2> DEFINE x == a * PageSize
             y == b * PageSize
  <2>3. x \in Int /\ y \in Int
    BY <1>1
  <2>4. y - (x + PageSize) >= 0
    BY <2>1, <2>2
  <2> HIDE DEF x, y
  <2>5. x + PageSize <= y
    BY <1>1, <2>3, <2>4
  <2> QED
    BY <2>5 DEF x, y
<1> QED
  BY <1>1, <1>2

\* Positions of a row in order.
LEMMA AtMost ==
  ASSUME NEW x \in Int, NEW y \in Int, NEW z \in Int, x <= y, y <= z
  PROVE  x <= z
OBVIOUS

\* The block of a position.
LEMMA BlockIs ==
  ASSUME NEW i \in Int
  PROVE  /\ Block(i) \in Int
         /\ Block(i) * PageSize < i /\ i <= Block(i) * PageSize + PageSize
<1>1. i - 1 \in Int
  OBVIOUS
<1> DEFINE c == Block(i)
<1>2. c \in Int /\ c * PageSize <= i - 1 /\ i - 1 < c * PageSize + PageSize
  BY <1>1, DivPage DEF Block
<1> HIDE DEF c
<1> DEFINE x == c * PageSize
<1>3. x \in Int /\ x <= i - 1 /\ i - 1 < x + PageSize /\ PageSize \in Int
  BY <1>2, Apage, PageSizeAssumption
<1> HIDE DEF x
<1>4. x < i /\ i <= x + PageSize
  BY <1>3
<1> QED
  BY <1>2, <1>4 DEF c, x

\* A multiple of the page size parts the positions by their blocks.
LEMMA BlockCut ==
  ASSUME NEW i \in Int, NEW k \in Int
  PROVE  /\ i <= k * PageSize <=> Block(i) < k
         /\ k * PageSize < i <=> k <= Block(i)
<1> DEFINE c == Block(i)
           x == c * PageSize
           y == k * PageSize
<1>1. c \in Int /\ x < i /\ i <= x + PageSize
  BY BlockIs
<1> HIDE DEF c
<1>2. /\ x \in Int /\ y \in Int /\ PageSize \in Int /\ PageSize > 0
      /\ (c < k => x + PageSize <= y) /\ (k < c => y + PageSize <= x)
  BY <1>1, Apage, PageSizeAssumption
<1>3. c = k => x = y
  OBVIOUS
<1> HIDE DEF x, y
<1>4. (i <= y <=> c < k) /\ (y < i <=> k <= c)
  BY <1>1, <1>2, <1>3
<1> QED
  BY <1>4 DEF c, y

\* The last position of block i - 1.
LEMMA BlockEnd ==
  ASSUME NEW i \in Int
  PROVE  Block(i * PageSize) = i - 1
<1> DEFINE x == i * PageSize
           c == Block(x)
           y == (i - 1) * PageSize
<1>1. x \in Int /\ y \in Int /\ y < x
  <2>1. i - 1 \in Int /\ i - 1 < i
    OBVIOUS
  <2>2. x \in Int /\ y \in Int /\ y + PageSize <= x
    BY <2>1, Apage
  <2> HIDE DEF x, y
  <2> QED
    BY <2>2, PageSizeAssumption
<1>2. x <= i * PageSize <=> c < i
  BY <1>1, BlockCut
<1>3. y < x <=> i - 1 <= c
  <2>1. i - 1 \in Int
    OBVIOUS
  <2> HIDE DEF x
  <2> QED
    BY <1>1, <2>1, BlockCut
<1>4. c \in Int
  BY <1>1, BlockIs
<1>5. c < i /\ i - 1 <= c
  BY <1>1, <1>2, <1>3
<1> HIDE DEF c, x, y
<1> QED
  BY <1>4, <1>5 DEF c, x

\* The last slots of blocks g to h of a row: the pages insert takes from it.
Ends(w, g, h) == {w[i * PageSize] : i \in (g + 1)..h}

\* The parts of a row that is cut at blocks k, g and h and at old.
Cuts(w, k, g, h, old) ==
  LET P == Slice(w, k * PageSize, Len(w))
      A == Slice(w, old, g * PageSize)
      B == Ends(w, g, h)
  IN  /\ P \subseteq Pages /\ A \subseteq P /\ B \subseteq P \ A
      /\ Slice(w, h * PageSize, Len(w)) = (P \ A) \ B
      /\ \A i, j \in (g + 1)..h : w[i * PageSize] = w[j * PageSize] => i = j

\* What cache_unfinished_req and cache_finished_req do with a row: its blocks from k, where
\* the matched prefix ends, to g are in the tree already and are freed from old_prefix_len
\* on, those from g to h go to the tree by their last slots, and the rest stays.
LEMMA ThreeCuts ==
  ASSUME NEW w \in Seq(Pages), NEW k \in Nat, NEW g \in Nat, NEW h \in Nat, NEW old \in Nat,
         Blocks(w, k * PageSize), k <= g, g <= h, h * PageSize <= Len(w),
         k * PageSize <= old, old < k * PageSize + PageSize
  PROVE  Cuts(w, k, g, h, old)
<1> DEFINE a == k * PageSize
           b == g * PageSize
           c == h * PageSize
           n == Len(w)
           P == Slice(w, a, n)
           A == Slice(w, old, b)
           B == {w[i * PageSize] : i \in (g + 1)..h}
           C == Slice(w, c, n)
<1>1. a \in Nat /\ b \in Nat /\ c \in Nat /\ n \in Nat /\ a <= b /\ b <= c /\ c <= n
  <2>1. k \in Int /\ g \in Int /\ h \in Int
    OBVIOUS
  <2>2. /\ a \in Int /\ b \in Int /\ c \in Int /\ (k < g => a + PageSize <= b)
        /\ (g < h => b + PageSize <= c)
    BY <2>1, Apage, Zenon
  <2>3. (k = g => a = b) /\ (g = h => b = c) /\ a >= 0 /\ n \in Nat /\ c <= n
    BY PageSizeAssumption
  <2> HIDE DEF a, b, c, n
  <2> QED
    BY <2>2, <2>3, PageSizeAssumption
<1>2. \A i \in (a + 1)..n : w[i] \in Pages
  BY <1>1
<1>3. \A i \in Int : /\ Block(i) \in Int
                     /\ (a < i <=> k <= Block(i))
                     /\ (i <= b <=> Block(i) < g) /\ (b < i <=> g <= Block(i))
                     /\ (i <= c <=> Block(i) < h) /\ (c < i <=> h <= Block(i))
  <2> TAKE i \in Int
  <2>1. k \in Int /\ g \in Int /\ h \in Int
    OBVIOUS
  <2>2. (a < i <=> k <= Block(i))
    BY <2>1, BlockCut, Zenon
  <2>3. (i <= b <=> Block(i) < g) /\ (b < i <=> g <= Block(i))
    BY <2>1, BlockCut, Zenon
  <2>4. (i <= c <=> Block(i) < h) /\ (c < i <=> h <= Block(i))
    BY <2>1, BlockCut, Zenon
  <2> HIDE DEF a, b, c
  <2> QED
    BY <2>2, <2>3, <2>4, BlockIs
<1> HIDE DEF a, b, c
<1>4. \A i, j \in (a + 1)..n : w[i] = w[j] <=> Block(i) = Block(j)
  BY DEF Blocks, a
<1>5. P = {w[i] : i \in (a + 1)..n} /\ C = {w[i] : i \in (c + 1)..n} /\ A = {w[i] : i \in (old + 1)..b}
  BY DEF Slice
<1> HIDE DEF n, A, B, C, P
<1>6. A = {w[i] : i \in {j \in (a + 1)..n : Block(j) < g}}
  <2>1. a \in Nat /\ a <= old /\ old < a + PageSize
    BY <1>1 DEF a
  <2>2. ASSUME NEW i \in (old + 1)..b PROVE i \in (a + 1)..n /\ Block(i) < g
    <3>1. i \in Int /\ i <= b /\ i \in (a + 1)..n
      BY <1>1, <2>1
    <3> QED
      BY <1>3, <3>1
  <2>3. ASSUME NEW i \in (a + 1)..n, Block(i) < g PROVE \E j \in (old + 1)..b : w[j] = w[i]
    <3>1. i \in Int /\ i <= b /\ a < i
      BY <1>1, <1>3, <2>3
    <3>2. CASE i > old
      BY <2>1, <3>1, <3>2
    <3>3. CASE i <= old
      <4> DEFINE j == old + 1
      <4>1. (k + 1) * PageSize = a + PageSize /\ k + 1 \in Int
        BY PageSizeAssumption DEF a
      <4>2. i <= a + PageSize /\ j <= a + PageSize /\ a < j /\ j \in Int
        BY <1>1, <2>1, <3>1, <3>3, PageSizeAssumption
      <4> HIDE DEF j
      <4>3. Block(i) < k + 1 /\ Block(j) < k + 1
        BY <3>1, <4>1, <4>2, BlockCut
      <4>4. Block(i) = k /\ Block(j) = k
        BY <1>3, <3>1, <4>2, <4>3
      <4>5. j <= b
        BY <1>3, <2>3, <4>2, <4>4
      <4>6. j \in (a + 1)..n /\ j \in (old + 1)..b
        BY <1>1, <4>2, <4>5 DEF j
      <4>7. w[j] = w[i]
        BY <1>4, <4>4, <4>6
      <4> QED
        BY <4>6, <4>7
    <3> QED
      BY <2>1, <3>1, <3>2, <3>3
  <2> QED
    BY <1>5, <2>2, <2>3
<1>7. \A i \in (g + 1)..h : i * PageSize \in (a + 1)..n /\ Block(i * PageSize) = i - 1
  <2> TAKE i \in (g + 1)..h
  <2> DEFINE j == i * PageSize
  <2>0. i \in Int
    OBVIOUS
  <2>1. j \in Int /\ Block(j) = i - 1 /\ i \in Int
    BY <2>0, Apage, BlockEnd, Zenon
  <2> HIDE DEF j
  <2>2. g <= Block(j) /\ Block(j) < h
    BY <2>1
  <2>3. b < j /\ j <= c
    BY <1>3, <2>1, <2>2
  <2> QED
    BY <1>1, <2>1, <2>3 DEF j
<1>8. B = {w[i] : i \in {j \in (a + 1)..n : g <= Block(j) /\ Block(j) < h}}
  <2>1. ASSUME NEW i \in (g + 1)..h
        PROVE  \E j \in (a + 1)..n : g <= Block(j) /\ Block(j) < h /\ w[i * PageSize] = w[j]
    <3>1. g <= i - 1 /\ i - 1 < h
      OBVIOUS
    <3> QED
      BY <1>7, <3>1
  <2>2. ASSUME NEW i \in (a + 1)..n, g <= Block(i), Block(i) < h
        PROVE  \E m \in (g + 1)..h : w[m * PageSize] = w[i]
    <3> DEFINE m == Block(i) + 1
    <3>1. Block(i) \in Int
      BY <1>1, BlockIs
    <3>2. m \in (g + 1)..h /\ m - 1 = Block(i)
      BY <2>2, <3>1
    <3> HIDE DEF m
    <3>3. w[m * PageSize] = w[i]
      BY <1>4, <1>7, <3>2
    <3> QED
      BY <3>2, <3>3
  <2>3. B = {w[i * PageSize] : i \in (g + 1)..h}
    BY DEF B
  <2> DEFINE D == {w[i] : i \in {j \in (a + 1)..n : g <= Block(j) /\ Block(j) < h}}
  <2>4. B \subseteq D
    BY <2>1, <2>3
  <2>5. D \subseteq B
    BY <2>2, <2>3
  <2> QED
    BY <2>4, <2>5
<1>9. C = {w[i] : i \in {j \in (a + 1)..n : h <= Block(j)}}
  <2>1. ASSUME NEW i \in Int PROVE i \in (c + 1)..n <=> (i \in (a + 1)..n /\ h <= Block(i))
    <3>1. c < i <=> h <= Block(i)
      BY <1>3
    <3> QED
      BY <1>1, <3>1
  <2> QED
    BY <1>1, <1>5, <2>1
<1>10. ASSUME NEW i \in (g + 1)..h, NEW j \in (g + 1)..h, w[i * PageSize] = w[j * PageSize]
       PROVE  i = j
  <2>1. i - 1 = j - 1
    BY <1>4, <1>7, <1>10
  <2> QED
    BY <2>1
<1>11. \A i \in (a + 1)..n : Block(i) \in Int
  BY <1>1, BlockIs
<1>12. P \subseteq Pages /\ A \subseteq P /\ B \subseteq P
  BY <1>2, <1>5, <1>6, <1>8, Zenon
<1>13. A \cap B = {} /\ A \cap C = {} /\ B \cap C = {}
  <2>1. A \cap B = {}
    BY <1>4, <1>6, <1>8, <1>11
  <2>2. A \cap C = {}
    BY <1>4, <1>6, <1>9, <1>11
  <2>3. B \cap C = {}
    BY <1>4, <1>8, <1>9, <1>11
  <2> QED
    BY <2>1, <2>2, <2>3
<1>14. P = (A \cup B) \cup C
  <2>1. \A i \in (a + 1)..n : Block(i) < g \/ (g <= Block(i) /\ Block(i) < h) \/ h <= Block(i)
    BY <1>11
  <2> QED
    BY <1>5, <1>6, <1>8, <1>9, <2>1, Zenon
<1>15. B \subseteq P \ A /\ C = (P \ A) \ B
  BY <1>12, <1>13, <1>14
<1> QED
  BY <1>10, <1>12, <1>15 DEF P, A, B, C, a, b, c, n, Ends, Cuts

\* The pages of a row of a slots, and the position after a block.
Ceil(a) == (a + PageSize - 1) \div PageSize

\* The pages that a number of slots takes, bounded by the slots on both sides.
LEMMA CeilIs ==
  ASSUME NEW a \in Int
  PROVE  /\ Ceil(a) \in Int /\ Ceil(a) * PageSize \in Int
         /\ a <= Ceil(a) * PageSize /\ Ceil(a) * PageSize < a + PageSize
<1> DEFINE c == Ceil(a)
           x == c * PageSize
<1>1. PageSize \in Int /\ a + PageSize - 1 \in Int
  BY PageSizeAssumption
<1>2. c \in Int /\ x <= a + PageSize - 1 /\ a + PageSize - 1 < x + PageSize
  BY <1>1, DivPage DEF Ceil
<1> HIDE DEF c
<1>3. x \in Int
  BY <1>2, Apage
<1> HIDE DEF x
<1>4. a <= x /\ x < a + PageSize
  BY <1>1, <1>2, <1>3
<1> QED
  BY <1>2, <1>3, <1>4 DEF c, x

\* The first position of a block.
LEMMA BlockStart ==
  ASSUME NEW k \in Int
  PROVE  k * PageSize + 1 \in Int /\ Block(k * PageSize + 1) = k
<1> DEFINE x == k * PageSize
           y == (k + 1) * PageSize
           i == x + 1
<1>1. k + 1 \in Int /\ k < k + 1
  OBVIOUS
<1>2. x \in Int /\ y \in Int /\ x + PageSize <= y
  BY <1>1, Apage
<1>3. i \in Int /\ x < i
  BY <1>2
<1>4. i <= y
  <2> HIDE DEF x, y
  <2> QED
    BY <1>2, PageSizeAssumption
<1>5. x < i <=> k <= Block(i)
  <2> HIDE DEF i
  <2> QED
    BY <1>3, BlockCut
<1>6. i <= y <=> Block(i) < k + 1
  <2> HIDE DEF i
  <2> QED
    BY <1>1, <1>3, BlockCut
<1>7. Block(i) \in Int
  BY <1>3, BlockIs
<1> HIDE DEF i, x, y
<1>8. Block(i) = k
  BY <1>3, <1>4, <1>5, <1>6, <1>7
<1> QED
  BY <1>3, <1>8 DEF i, x

\* The pages of an allocation.
Taken(new) == {new[i] : i \in DOMAIN new}

\* They are distinct, and none is among the slots of w after m.
Fresh(w, m, new) ==
  /\ \A i, j \in DOMAIN new : new[i] = new[j] => i = j
  /\ \A i \in DOMAIN new : new[i] \notin Slice(w, m, Len(w))

\* The slots x are w and more: whole pages after m still, and those pages are w's and new.
Longer(w, m, new, x) ==
  /\ Blocks(x, m)
  /\ Slice(x, m, Len(x)) = Slice(w, m, Len(w)) \cup Taken(new)
  /\ \A i \in 1..Len(w) : x[i] = w[i]

\* A row grown by newly allocated pages: alloc_extend and alloc_decode fill every new slot.
LEMMA GrownType ==
  ASSUME NEW row \in Seq(Pages), NEW b \in Nat, NEW new \in [1..NewPages(Len(row), b) -> Pages]
  PROVE  Grown(row, b, new) \in Seq(Pages) /\ Len(Grown(row, b, new)) = b
<1> DEFINE a == Len(row)
           old == (a + PageSize - 1) \div PageSize
           all == (b + PageSize - 1) \div PageSize
           blk(i) == (i - 1) \div PageSize + 1
           v(i) == IF i <= a THEN row[i] ELSE IF blk(i) <= old THEN row[a] ELSE new[blk(i) - old]
<1>1. Grown(row, b, new) = [i \in 1..b |-> v(i)]
  BY DEF Grown
<1>2. new \in [1..(all - old) -> Pages]
  BY DEF NewPages
<1>3. old \in Int /\ all \in Int /\ (a = 0 => old <= 0)
  BY PageSizeAssumption
<1>4. ASSUME NEW i \in 1..b PROVE blk(i) \in Int /\ 1 <= blk(i) /\ blk(i) <= all
  BY PageSizeAssumption
<1> HIDE DEF old, all, blk
<1>5. ASSUME NEW i \in 1..b PROVE v(i) \in Pages
  <2>1. CASE i <= a
    BY <2>1
  <2>2. CASE i > a /\ blk(i) <= old
    <3>1. a # 0
      BY <1>3, <1>4, <2>2
    <3> QED
      BY <2>2, <3>1
  <2>3. CASE i > a /\ blk(i) > old
    <3>1. blk(i) - old \in 1..(all - old)
      BY <1>3, <1>4, <2>3
    <3>2. new[blk(i) - old] \in Pages
      BY <1>2, <3>1, Zenon
    <3>3. ~(i <= a) /\ ~(blk(i) <= old)
      BY <1>3, <1>4, <2>3
    <3> QED
      BY <3>2, <3>3, Zenon
  <2> QED
    BY <1>3, <1>4, <2>1, <2>2, <2>3
<1> HIDE DEF v
<1>6. [i \in 1..b |-> v(i)] \in Seq(Pages) /\ Len([i \in 1..b |-> v(i)]) = b
  BY <1>5
<1> QED
  BY <1>1, <1>6

\* alloc_extend and alloc_decode fill the last page of a row, and then the new pages.
LEMMA GrownSlots ==
  ASSUME NEW w \in Seq(Pages), NEW k \in Nat, NEW b \in Nat, k * PageSize <= Len(w), Len(w) <= b,
         Blocks(w, k * PageSize), NEW new \in [1..NewPages(Len(w), b) -> Pages],
         Fresh(w, k * PageSize, new)
  PROVE  Longer(w, k * PageSize, new, Grown(w, b, new))
<1> USE DEF Taken, Fresh, Longer
<1> DEFINE a == Len(w)
           o == Ceil(a)
           e == Ceil(b)
           m == k * PageSize
           x == Grown(w, b, new)
<1>1. a \in Nat /\ m \in Nat /\ m <= a /\ a <= b
  BY PageSizeAssumption
<1>2. x \in Seq(Pages) /\ Len(x) = b
  BY GrownType
<1>3. x = [i \in 1..b |-> IF i <= a THEN w[i]
                          ELSE IF Block(i) + 1 <= o THEN w[a] ELSE new[(Block(i) + 1) - o]]
  BY Zenon DEF Grown, Block, Ceil
<1>4. DOMAIN new = 1..(e - o)
  BY DEF NewPages, Ceil
<1>5. /\ o \in Int /\ a <= o * PageSize /\ o * PageSize < a + PageSize
      /\ e \in Int /\ b <= e * PageSize /\ e * PageSize < b + PageSize
  BY <1>1, CeilIs
<1> HIDE DEF a, o, e, m, x
<1>6. \A i \in (m + 1)..a : x[i] = w[i] /\ Block(i) < o /\ i \in (m + 1)..b
  <2> TAKE i \in (m + 1)..a
  <2>1. i \in Int /\ i <= a /\ i \in 1..b /\ i \in (m + 1)..b
    BY <1>1
  <2>2. i <= o * PageSize
    <3> DEFINE y == o * PageSize
    <3>1. y \in Int /\ a <= y
      BY <1>5, Apage
    <3> HIDE DEF y
    <3>2. i <= y
      BY <1>1, <2>1, <3>1
    <3> QED
      BY <3>2 DEF y
  <2>3. Block(i) < o
    BY <1>5, <2>1, <2>2, BlockCut
  <2> QED
    BY <1>3, <2>1, <2>3
<1>7. ASSUME NEW i \in (m + 1)..b, Block(i) < o
      PROVE  \E j \in (m + 1)..a : x[i] = w[j] /\ Block(j) = Block(i)
  <2>1. CASE i <= a
    BY <1>1, <1>6, <2>1
  <2>2. CASE i > a
    <3>1. i \in Int /\ Block(i) \in Int /\ Block(a) \in Int /\ i \in 1..b /\ a \in Int
      BY <1>1, BlockIs
    <3> DEFINE y == o * PageSize
               z == (o - 1) * PageSize
    <3>2. i <= y
      BY <1>5, <1>7, <3>1, BlockCut
    <3>3. y \in Int /\ z \in Int /\ y = z + PageSize
      BY <1>5, PageSizeAssumption
    <3>4. a <= y /\ y < a + PageSize
      BY <1>5
    <3> HIDE DEF y, z
    <3>5. z < a /\ z < i
      BY <1>1, <2>2, <3>1, <3>3, <3>4, PageSizeAssumption
    <3>6. o - 1 <= Block(a) /\ o - 1 <= Block(i) /\ Block(a) < o
      <4>1. o - 1 \in Int
        BY <1>5
      <4> QED
        BY <1>1, <1>5, <3>1, <3>4, <3>5, <4>1, BlockCut DEF z, y
    <3>7. Block(a) = o - 1 /\ Block(i) = o - 1
      BY <1>5, <1>7, <3>1, <3>6
    <3>8. m < a
      <4>1. m < i
        BY <1>1
      <4>2. k <= Block(i)
        BY <3>1, <4>1, BlockCut DEF m
      <4>3. k <= Block(a)
        BY <3>7, <4>2
      <4> QED
        BY <3>1, <4>3, BlockCut DEF m
    <3>9. x[i] = w[a]
      <4>1. ~(i <= a) /\ Block(i) + 1 <= o
        BY <1>1, <1>5, <1>7, <2>2, <3>1
      <4> QED
        BY <1>3, <3>1, <4>1
    <3>10. a \in (m + 1)..a
      BY <1>1, <3>8
    <3> QED
      BY <3>7, <3>9, <3>10
  <2> QED
    BY <1>1, <2>1, <2>2
<1>8. ASSUME NEW i \in (m + 1)..b, o <= Block(i)
      PROVE  (Block(i) + 1) - o \in DOMAIN new /\ x[i] = new[(Block(i) + 1) - o]
  <2> DEFINE y == o * PageSize
             z == e * PageSize
  <2>1. i \in Int /\ Block(i) \in Int /\ i \in 1..b /\ i <= b /\ y \in Int /\ z \in Int
    BY <1>1, <1>5, BlockIs, Apage
  <2>2. y < i
    BY <1>5, <1>8, <2>1, BlockCut
  <2>3. a <= y /\ b <= z
    BY <1>5
  <2> HIDE DEF y, z
  <2>4. ~(i <= a) /\ i <= z
    BY <1>1, <2>1, <2>2, <2>3
  <2>5. Block(i) < e
    BY <1>5, <2>1, <2>4, BlockCut DEF z
  <2>6. ~(Block(i) + 1 <= o) /\ (Block(i) + 1) - o \in 1..(e - o)
    BY <1>5, <1>8, <2>1, <2>5
  <2> QED
    BY <1>3, <1>4, <2>1, <2>4, <2>6
<1>9. ASSUME NEW j \in DOMAIN new PROVE \E i \in (m + 1)..b : x[i] = new[j]
  <2> DEFINE c == o + j - 1
             y == c * PageSize
             i == y + 1
             z == (e - 1) * PageSize
  <2>1. c \in Int /\ j \in 1..(e - o) /\ e - 1 \in Int
    BY <1>4, <1>5
  <2>2. c + 1 - o = j /\ o <= c /\ c <= e - 1
    BY <1>5, <2>1
  <2> HIDE DEF c
  <2>3. i \in Int /\ Block(i) = c
    BY <2>1, BlockStart, Zenon
  <2>4. y \in Int /\ z \in Int /\ (c < e - 1 => y + PageSize <= z) /\ (c = e - 1 => y = z)
    BY <2>1, Apage, Zenon
  <2>5. z + PageSize = e * PageSize
    BY <1>5, PageSizeAssumption
  <2>6. z < b
    <3> DEFINE u == e * PageSize
    <3>1. u < b + PageSize /\ u = z + PageSize
      BY <1>5, <2>5
    <3> HIDE DEF u, z
    <3> QED
      BY <2>4, <3>1, PageSizeAssumption
  <2> HIDE DEF y, z
  <2>7. i <= b
    BY <2>1, <2>2, <2>4, <2>6, PageSizeAssumption
  <2>8. m < i
    <3>1. o * PageSize < i
      <4> HIDE DEF i
      <4> QED
        BY <1>5, <2>2, <2>3, BlockCut
    <3> DEFINE u == o * PageSize
    <3>2. u \in Int /\ a <= u /\ u < i
      BY <1>5, <3>1, Apage
    <3> HIDE DEF u, i
    <3> QED
      BY <1>1, <2>3, <3>2
  <2>9. i \in (m + 1)..b
    BY <1>1, <2>3, <2>7, <2>8
  <2> HIDE DEF i
  <2>10. x[i] = new[j]
    <3>1. o <= Block(i) /\ (Block(i) + 1) - o = j
      BY <1>5, <2>1, <2>2, <2>3
    <3> QED
      BY <1>8, <2>9, <3>1
  <2> QED
    BY <2>9, <2>10
<1>10. ASSUME NEW i \in (m + 1)..a, NEW j \in (m + 1)..a PROVE w[i] = w[j] <=> Block(i) = Block(j)
  BY DEF Blocks, m, a
<1>11. \A i \in (m + 1)..a : \A j \in DOMAIN new : w[i] # new[j]
  BY DEF Slice, m, a
<1>12. \A i \in (m + 1)..b : Block(i) \in Int
  BY <1>1, BlockIs
<1>13. ASSUME NEW i \in (m + 1)..b, NEW j \in (m + 1)..b PROVE x[i] = x[j] <=> Block(i) = Block(j)
  <2>1. CASE Block(i) < o /\ Block(j) < o
    BY <1>7, <1>10, <2>1
  <2>2. CASE Block(i) < o /\ o <= Block(j)
    BY <1>5, <1>7, <1>8, <1>11, <1>12, <2>2
  <2>3. CASE o <= Block(i) /\ Block(j) < o
    BY <1>5, <1>7, <1>8, <1>11, <1>12, <2>3
  <2>4. CASE o <= Block(i) /\ o <= Block(j)
    <3>1. (Block(i) + 1) - o = (Block(j) + 1) - o <=> Block(i) = Block(j)
      BY <1>5, <1>12
    <3> QED
      BY <1>8, <2>4, <3>1
  <2> QED
    BY <1>5, <1>12, <2>1, <2>2, <2>3, <2>4
<1>14. Blocks(x, m)
  BY <1>2, <1>13 DEF Blocks
<1>15. {x[i] : i \in (m + 1)..b} = {w[i] : i \in (m + 1)..a} \cup {new[i] : i \in DOMAIN new}
  <2>1. ASSUME NEW i \in (m + 1)..b
        PROVE  x[i] \in {w[j] : j \in (m + 1)..a} \cup {new[j] : j \in DOMAIN new}
    BY <1>5, <1>7, <1>8, <1>12
  <2>2. \A i \in (m + 1)..a : w[i] \in {x[j] : j \in (m + 1)..b}
    BY <1>6
  <2>3. \A i \in DOMAIN new : new[i] \in {x[j] : j \in (m + 1)..b}
    BY <1>9
  <2> QED
    BY <2>1, <2>2, <2>3
<1>16. Slice(x, m, Len(x)) = Slice(w, m, a) \cup {new[i] : i \in DOMAIN new}
  BY <1>2, <1>15, Zenon DEF Slice
<1>17. \A i \in 1..a : x[i] = w[i]
  BY <1>1, <1>3
<1> QED
  BY <1>14, <1>16, <1>17 DEF x, m, a

-----------------------------------------------------------------------------
(* Keys, rows and free lists.                                              *)

\* get_child_key: the pages of a key are page keys, and they cover no more than the tokens.
LEMMA KeyType ==
  ASSUME NEW toks \in Seq(Nat), NEW ek \in ExtraKeys
  PROVE  Key(toks, ek) \in Seq(PageKey) /\ Len(Key(toks, ek)) * PageSize <= Len(toks)
<1> DEFINE n == (Len(toks) - Shift) \div PageSize
           pg(i) == SubSeq(toks, (i - 1) * PageSize + 1, i * PageSize + Shift)
           k == Key(toks, ek)
<1>1. Shift \in 0..1
  BY DEF Shift
<1>2. n \in Int /\ n * PageSize <= Len(toks) - Shift
  BY <1>1, DivPage
<1>3. k = [i \in 1..n |-> <<ek, pg(i)>>]
  BY DEF Key
<1> HIDE DEF n, k
<1>4. ASSUME NEW i \in 1..n PROVE pg(i) \in Seq(Nat)
  <2>1. n \in Nat
    BY <1>2
  <2>2. i * PageSize \in 1..(n * PageSize) /\ (i - 1) * PageSize \in Nat
    BY <2>1, LastOfPage
  <2> DEFINE a == (i - 1) * PageSize
             b == i * PageSize
             c == n * PageSize
  <2>3. a \in Nat /\ b \in 1..c /\ c + Shift <= Len(toks) /\ c \in Int
    BY <1>1, <1>2, <2>2, PageSizeAssumption
  <2> HIDE DEF a, b, c
  <2>4. SubSeq(toks, a + 1, b + Shift) \in Seq(Nat)
    BY <1>1, <2>3
  <2> QED
    BY <2>4 DEF a, b
<1> HIDE DEF pg
<1>5. CASE n < 0
  <2>1. k = <<>>
    BY <1>2, <1>3, <1>5
  <2> QED
    BY <2>1, PageSizeAssumption DEF k
<1>6. CASE n >= 0
  <2>1. \A i \in 1..n : <<ek, pg(i)>> \in PageKey
    BY <1>4 DEF PageKey
  <2>2. k \in Seq(PageKey) /\ Len(k) = n
    BY <1>2, <1>3, <1>6, <2>1
  <2>3. n * PageSize <= Len(toks)
    BY <1>1, <1>2, PageSizeAssumption
  <2>4. k \in Seq(PageKey) /\ Len(k) * PageSize <= Len(toks)
    BY <2>2, <2>3
  <2> QED
    BY <2>4 DEF k
<1> QED
  BY <1>2, <1>5, <1>6

\* The key of the first n tokens of a request is a path and covers no more than n tokens.
LEMMA KeyOfType ==
  ASSUME NEW q, q.ids \in Seq(Nat), q.extra_key \in ExtraKeys, NEW n \in 0..Len(q.ids)
  PROVE  KeyOf(q, n) \in Seq(PageKey) /\ Len(KeyOf(q, n)) * PageSize <= n
<1>1. SubSeq(q.ids, 1, n) \in Seq(Nat) /\ Len(SubSeq(q.ids, 1, n)) = n
  OBVIOUS
<1> QED
  BY <1>1, KeyType, Zenon DEF KeyOf

\* Page i of a key of these tokens.
KeyPage(ids, i) == SubSeq(ids, (i - 1) * PageSize + 1, i * PageSize + Shift)

\* The key of n tokens has a page for every PageSize positions that have all their tokens.
LEMMA KeyOfIs ==
  ASSUME NEW q, q.ids \in Seq(Nat), NEW n \in 0..Len(q.ids), Shift <= n
  PROVE  LET N == (n - Shift) \div PageSize
         IN  /\ N \in Nat /\ N * PageSize \in Nat
             /\ N * PageSize + Shift <= n /\ n < N * PageSize + PageSize + Shift
             /\ KeyOf(q, n) = [i \in 1..N |-> <<q.extra_key, KeyPage(q.ids, i)>>]
<1> DEFINE N == (n - Shift) \div PageSize
           w == SubSeq(q.ids, 1, n)
           nd == N * PageSize
<1>1. Shift \in 0..1 /\ PageSize \in Nat \ {0} /\ n - Shift \in Nat
  BY PageSizeAssumption DEF Shift
<1>2. N \in Int /\ nd <= n - Shift /\ n - Shift < nd + PageSize
  BY <1>1, DivPage
<1>3. N \in Nat
  BY <1>1
<1> HIDE DEF N
<1>4. nd \in Nat
  BY <1>1, <1>3
<1>5. w \in Seq(Nat) /\ Len(w) = n /\ \A i \in 1..n : w[i] = q.ids[i]
  OBVIOUS
<1>6. KeyOf(q, n) = [i \in 1..N |-> <<q.extra_key, KeyPage(w, i)>>]
  BY <1>5, Zenon DEF KeyOf, Key, KeyPage, N
<1>7. ASSUME NEW i \in 1..N PROVE KeyPage(w, i) = KeyPage(q.ids, i)
  <2> DEFINE a == (i - 1) * PageSize
             b == i * PageSize
  <2>1. b \in 1..nd /\ a \in Nat
    BY <1>3, LastOfPage, Zenon
  <2> HIDE DEF a, b, nd
  <2>2. a + 1 \in 1..(n + 1) /\ b + Shift \in 0..n /\ a + 1 \in Nat
    <3>1. a + PageSize = b
      BY <1>1, <1>3 DEF a, b
    <3> QED
      BY <1>1, <1>2, <1>4, <2>1, <3>1
  <2> HIDE DEF w
  <2>3. SubSeq(w, a + 1, b + Shift) = SubSeq(q.ids, a + 1, b + Shift)
    <3> DEFINE u == a + 1
               v == b + Shift
    <3>1. u \in Nat \ {0} /\ v \in 0..n /\ v <= Len(q.ids)
      BY <2>2
    <3> HIDE DEF u, v
    <3>2. /\ SubSeq(w, u, v) = [j \in 1..(v - u + 1) |-> w[u + j - 1]]
          /\ SubSeq(q.ids, u, v) = [j \in 1..(v - u + 1) |-> q.ids[u + j - 1]]
      BY <1>5, <3>1
    <3>3. \A j \in 1..(v - u + 1) : w[u + j - 1] = q.ids[u + j - 1]
      BY <1>5, <3>1
    <3> QED
      BY <3>2, <3>3, Zenon DEF u, v
  <2> QED
    BY <2>3, Zenon DEF KeyPage, a, b
<1> HIDE DEF w
<1>8. [i \in 1..N |-> <<q.extra_key, KeyPage(w, i)>>]
        = [i \in 1..N |-> <<q.extra_key, KeyPage(q.ids, i)>>]
  BY <1>7
<1> HIDE DEF nd
<1>9. nd + Shift <= n /\ n < nd + PageSize + Shift
  BY <1>1, <1>2, <1>4
<1> QED
  BY <1>3, <1>4, <1>6, <1>8, <1>9, Zenon DEF N, nd

\* The key of the first m pages of tokens is the prefix of m pages of any longer key.
LEMMA KeyCut ==
  ASSUME NEW q, q.ids \in Seq(Nat), q.extra_key \in ExtraKeys, NEW n \in 0..Len(q.ids),
         NEW m \in Nat, m * PageSize + Shift <= n
  PROVE  /\ m <= Len(KeyOf(q, n)) /\ KeyOf(q, m * PageSize + Shift) = SubSeq(KeyOf(q, n), 1, m)
         /\ Len(KeyOf(q, n)) * PageSize + Shift <= n
         /\ n < Len(KeyOf(q, n)) * PageSize + PageSize + Shift
         /\ Len(KeyOf(q, n)) = (n - Shift) \div PageSize
<1> DEFINE N == (n - Shift) \div PageSize
           x == m * PageSize
           M == ((x + Shift) - Shift) \div PageSize
           pg(i) == <<q.extra_key, KeyPage(q.ids, i)>>
           key == KeyOf(q, n)
           cut == KeyOf(q, x + Shift)
<1>1. Shift \in 0..1 /\ PageSize \in Nat \ {0} /\ x \in Nat
  BY PageSizeAssumption DEF Shift
<1>2. Shift <= n /\ x + Shift \in 0..Len(q.ids) /\ Shift <= x + Shift
  BY <1>1
<1>3. /\ N \in Nat /\ N * PageSize \in Nat
      /\ N * PageSize + Shift <= n /\ n < N * PageSize + PageSize + Shift
      /\ key = [i \in 1..N |-> pg(i)]
  BY <1>2, KeyOfIs, Zenon
<1>4. /\ M \in Nat /\ M * PageSize \in Nat
      /\ M * PageSize + Shift <= x + Shift /\ x + Shift < M * PageSize + PageSize + Shift
      /\ cut = [i \in 1..M |-> pg(i)]
  BY <1>2, KeyOfIs, Zenon
<1> HIDE DEF key, cut, N, M, pg
<1>5. M = m
  <2>1. ~(M < m)
    <3>1. M < m => M * PageSize + PageSize <= x
      BY <1>4, Apage
    <3> QED
      BY <1>1, <1>4, <3>1
  <2>2. ~(m < M)
    <3>1. m < M => x + PageSize <= M * PageSize
      BY <1>4, Apage
    <3> QED
      BY <1>1, <1>4, <3>1
  <2> QED
    BY <1>4, <2>1, <2>2
<1>6. m <= N
  <2> DEFINE nd == N * PageSize
  <2>1. N < m => nd + PageSize <= x
    BY <1>3, Apage
  <2>2. nd \in Nat /\ n < nd + PageSize + Shift /\ N \in Nat /\ x + Shift <= n
    BY <1>3
  <2> HIDE DEF nd, x
  <2> QED
    BY <1>1, <2>1, <2>2
<1>7. Len(key) = N
  BY <1>3
<1>8. cut = SubSeq(key, 1, m)
  BY <1>3, <1>4, <1>5, <1>6
<1> QED
  BY <1>3, <1>6, <1>7, <1>8, Zenon DEF key, cut, N

\* The pages insert takes from a row are pages.
LEMMA RowPagesType ==
  ASSUME NEW q, q.row \in Seq(Pages), NEW key \in Seq(PageKey), Len(key) * PageSize <= Len(q.row)
  PROVE  RowPages(q, key) \in [1..Len(key) -> Pages]
<1>1. ASSUME NEW i \in 1..Len(key) PROVE q.row[i * PageSize] \in Pages
  <2>1. i * PageSize \in 1..(Len(key) * PageSize)
    BY LastOfPage
  <2> DEFINE j == i * PageSize
             n == Len(key) * PageSize
  <2>2. j \in 1..n /\ n \in Int /\ n <= Len(q.row)
    BY <2>1, PageSizeAssumption
  <2> HIDE DEF j, n
  <2>3. q.row[j] \in Pages
    BY <2>2
  <2> QED
    BY <2>3 DEF j
<1> QED
  BY <1>1 DEF RowPages

\* A sequence continued by another one from where it ends.
Continue(s, w, n) == s \o SubSeq(w, Len(s) + 1, n)

\* What the row written back by cache_unfinished_req holds at each position.
LEMMA Continued ==
  ASSUME NEW V, NEW s \in Seq(V), NEW w \in Seq(V), NEW n \in Nat, Len(s) <= n, n <= Len(w)
  PROVE  /\ Continue(s, w, n) \in Seq(V) /\ Len(Continue(s, w, n)) = n
         /\ \A i \in 1..n : Continue(s, w, n)[i] = IF i <= Len(s) THEN s[i] ELSE w[i]
<1> DEFINE a == Len(s)
           u == a + 1
           y == SubSeq(w, u, n)
           x == s \o y
<1>1. a \in Nat /\ u \in Nat \ {0} /\ Len(w) \in Nat
  OBVIOUS
<1>2. y = [i \in 1..(n - u + 1) |-> w[u + i - 1]] /\ y \in Seq(V)
  <2> HIDE DEF u
  <2> QED
    BY <1>1
<1>3. n - u + 1 = n - a /\ n - a \in Nat
  BY <1>1
<1> HIDE DEF y
<1>4. Len(y) = n - a
  BY <1>2, <1>3
<1>5. \A i \in 1..(n - a) : y[i] = w[a + i]
  BY <1>1, <1>2, <1>3
<1>6. x \in Seq(V) /\ Len(x) = n
  BY <1>1, <1>2, <1>4
<1>7. ASSUME NEW i \in 1..n PROVE x[i] = IF i <= a THEN s[i] ELSE w[i]
  <2>1. CASE i <= a
    BY <1>2, <1>4, <2>1
  <2>2. CASE ~(i <= a)
    <3>1. i - a \in 1..(n - a) /\ a + (i - a) = i
      BY <1>1, <2>2
    <3>2. x[i] = y[i - a]
      BY <1>1, <1>2, <1>4, <2>2, <3>1
    <3> QED
      BY <1>5, <2>2, <3>1, <3>2
  <2> QED
    BY <2>1, <2>2, Zenon
<1> QED
  BY <1>6, <1>7 DEF y, Continue

\* What a row holds from a position on.
LEMMA Rest ==
  ASSUME NEW s \in Seq(Pages), NEW a \in Nat, NEW n \in Nat, n <= Len(s)
  PROVE  SubSeq(s, a + 1, n) \in Seq(Pages)
OBVIOUS

\* Frees and allocations keep the free lists counts: an allocation takes free pages only.
LEMMA FreeType ==
  ASSUME NEW f \in [Pages -> Nat]
  PROVE  /\ \A P : Freed(f, P) \in [Pages -> Nat]
         /\ \A k \in Int : \A new \in Allocations(f, k) :
              Without(f, new) \in [Pages -> Nat] /\ new \in [1..k -> Pages]
<1>1. \A P : Freed(f, P) \in [Pages -> Nat]
  BY DEF Freed
<1>2. ASSUME NEW k \in Int, NEW new \in Allocations(f, k)
      PROVE  Without(f, new) \in [Pages -> Nat] /\ new \in [1..k -> Pages]
  <2>1. new \in [1..k -> FreePages(f)]
    BY DEF Allocations
  <2>2. \A i \in DOMAIN new : new[i] \in Pages /\ f[new[i]] > 0
    BY <2>1 DEF FreePages
  <2>3. \A p \in Pages : (\E i \in DOMAIN new : new[i] = p) => f[p] - 1 \in Nat
    BY <2>2
  <2> QED
    BY <2>1, <2>3 DEF Without, FreePages
<1> QED
  BY <1>1, <1>2

-----------------------------------------------------------------------------
(* Every page has one owner.                                               *)

\* The pages are parted between the free lists, the paths of the tree and the requests:
\* P is what each request owns.
Parted(T, f, P) ==
  /\ f \in [Pages -> {0, 1}] /\ P \in [Reqs -> SUBSET Pages]
  /\ \A q \in Paths(T) : /\ T.val[q] \in Pages /\ f[T.val[q]] = 0
                         /\ \A r \in Reqs : T.val[q] \notin P[r]
  /\ \A p, q \in Paths(T) : T.val[p] = T.val[q] => p = q
  /\ \A r \in Reqs : \A p \in P[r] : f[p] = 0
  /\ \A r, s \in Reqs : \A p \in P[r] : p \in P[s] => r = s
  /\ \A p \in Pages : \/ f[p] = 1 \/ \E q \in Paths(T) : T.val[q] = p
                      \/ \E r \in Reqs : p \in P[r]

\* Splitting, locking and unlocking move no page.
LEMMA PartedSame ==
  ASSUME NEW T, NEW f, NEW P, Parted(T, f, P), NEW R, R.val = T.val
  PROVE  Parted(R, f, P)
BY DEF Parted, Paths

\* evict frees the pages of the paths it deletes.
LEMMA PartedEvict ==
  ASSUME NEW T, NEW f, NEW P, Parted(T, f, P), NEW E
  PROVE  Parted(Delete(T, E), AfterEvict(T, f, E), P)
<1> DEFINE R == Delete(T, E)
           g == AfterEvict(T, f, E)
           G == {p \in Paths(T) : NodeAt(T, p) \in E}
           S == {p \in Paths(T) : NodeAt(T, p) \notin E}
<1>1. R.val = [q \in S |-> T.val[q]]
  BY DEF Delete
<1>2. g = [p \in Pages |-> IF p \in {T.val[q] : q \in G} THEN f[p] + 1 ELSE f[p]]
  BY DEF AfterEvict, Freed, EvictedPages
<1>3. G \cup S = Paths(T) /\ G \cap S = {}
  OBVIOUS
<1> HIDE DEF R, g, G, S
<1>4. Paths(R) = S /\ \A q \in S : R.val[q] = T.val[q]
  BY <1>1 DEF Paths
<1>5. \A q \in Paths(T) : f[T.val[q]] = 0 /\ T.val[q] \in Pages
  BY DEF Parted
<1>6. /\ \A p \in Pages : g[p] = IF \E q \in G : T.val[q] = p THEN 1 ELSE f[p]
      /\ g \in [Pages -> {0, 1}]
  <2>1. \A p \in Pages : f[p] \in {0, 1}
    BY DEF Parted
  <2>2. ASSUME NEW p \in Pages PROVE g[p] = IF \E q \in G : T.val[q] = p THEN 1 ELSE f[p]
    <3>1. CASE \E q \in G : T.val[q] = p
      BY <1>2, <1>3, <1>5, <3>1
    <3>2. CASE ~\E q \in G : T.val[q] = p
      BY <1>2, <3>2
    <3> QED
      BY <3>1, <3>2
  <2>3. \A p \in Pages : g[p] \in {0, 1}
    BY <2>1, <2>2
  <2> QED
    BY <1>2, <2>2, <2>3
<1>7. \A q \in S : ~\E u \in G : T.val[u] = T.val[q]
  BY <1>3 DEF Parted
<1>8. \A r \in Reqs : \A p \in P[r] : ~\E u \in G : T.val[u] = p
  BY <1>3 DEF Parted
<1>9. \A p \in Pages : \/ g[p] = 1 \/ \E q \in Paths(R) : R.val[q] = p
                       \/ \E r \in Reqs : p \in P[r]
  <2> TAKE p \in Pages
  <2>1. CASE f[p] = 1
    BY <1>6, <2>1
  <2>2. ASSUME NEW q \in Paths(T), T.val[q] = p
        PROVE  g[p] = 1 \/ \E u \in Paths(R) : R.val[u] = p
    BY <1>3, <1>4, <1>6, <2>2
  <2> QED
    BY <2>1, <2>2 DEF Parted
<1>10. \A r \in Reqs : \A p \in P[r] : g[p] = 0
  BY <1>6, <1>8 DEF Parted
<1>11. \A q \in Paths(R) : /\ R.val[q] \in Pages /\ g[R.val[q]] = 0
                           /\ \A r \in Reqs : R.val[q] \notin P[r]
  BY <1>3, <1>4, <1>6, <1>7 DEF Parted
<1>12. \A p, q \in Paths(R) : R.val[p] = R.val[q] => p = q
  BY <1>3, <1>4 DEF Parted
<1> QED
  BY <1>6, <1>9, <1>10, <1>11, <1>12 DEF Parted, R, g

\* An allocation gives free pages to one request.
LEMMA PartedAlloc ==
  ASSUME NEW T, NEW f, NEW P, Parted(T, f, P), NEW r \in Reqs, NEW k \in Int,
         NEW new \in Allocations(f, k)
  PROVE  /\ new \in [1..k -> Pages] /\ \A i, j \in 1..k : new[i] = new[j] => i = j
         /\ \A i \in 1..k : new[i] \notin P[r]
         /\ Parted(T, Without(f, new), [P EXCEPT ![r] = @ \cup Taken(new)])
<1> USE DEF Taken
<1> DEFINE g == Without(f, new)
           N == {new[i] : i \in DOMAIN new}
           Q == [P EXCEPT ![r] = P[r] \cup N]
<1>1. new \in [1..k -> FreePages(f)]
  BY DEF Allocations
<1>2. ASSUME NEW i \in 1..k, NEW j \in 1..k, new[i] = new[j] PROVE i = j
  <2>1. /\ Cardinality({p \in FreePages(f) : p < new[i]}) = i - 1
        /\ Cardinality({p \in FreePages(f) : p < new[j]}) = j - 1
    BY DEF Allocations
  <2>2. i - 1 = j - 1
    BY <1>2, <2>1
  <2> QED
    BY <2>2
<1>3. /\ f \in [Pages -> {0, 1}] /\ P \in [Reqs -> SUBSET Pages]
      /\ FreePages(f) = {p \in Pages : f[p] > 0}
  BY DEF Parted, FreePages
<1>4. N \subseteq Pages /\ \A p \in N : f[p] = 1
  BY <1>1, <1>3
<1>5. g = [p \in Pages |-> IF p \in N THEN f[p] - 1 ELSE f[p]]
  BY DEF Without
<1>6. \A i \in 1..k : new[i] \in N
  BY <1>1
<1> HIDE DEF N, g
<1>7. \A p \in Pages : g[p] = IF p \in N THEN 0 ELSE f[p]
  BY <1>4, <1>5
<1>8. g \in [Pages -> {0, 1}]
  BY <1>3, <1>5, <1>7
<1>9. /\ Q \in [Reqs -> SUBSET Pages] /\ \A s \in Reqs : P[s] \subseteq Q[s]
      /\ \A s \in Reqs : \A p \in Q[s] : p \in P[s] \/ (s = r /\ p \in N)
      /\ N \subseteq Q[r]
  BY <1>3, <1>4
<1> HIDE DEF Q
<1>10. \A s \in Reqs : \A p \in P[s] : p \notin N
  BY <1>4 DEF Parted
<1>11. \A q \in Paths(T) : T.val[q] \notin N
  BY <1>4 DEF Parted
<1>12. \A q \in Paths(T) : /\ T.val[q] \in Pages /\ g[T.val[q]] = 0
                           /\ \A s \in Reqs : T.val[q] \notin Q[s]
  BY <1>7, <1>9, <1>11 DEF Parted
<1>13. \A s \in Reqs : \A p \in Q[s] : g[p] = 0
  BY <1>4, <1>7, <1>9, <1>10 DEF Parted
<1>14. ASSUME NEW s \in Reqs, NEW t \in Reqs, NEW p \in Q[s], p \in Q[t] PROVE s = t
  BY <1>9, <1>10, <1>14 DEF Parted
<1>15. ASSUME NEW p \in Pages
       PROVE  \/ g[p] = 1 \/ \E q \in Paths(T) : T.val[q] = p
              \/ \E s \in Reqs : p \in Q[s]
  <2>1. CASE p \in N
    BY <1>9, <2>1
  <2>2. CASE p \notin N
    BY <1>7, <1>9, <2>2 DEF Parted
  <2> QED
    BY <2>1, <2>2
<1>16. Parted(T, g, Q)
  BY <1>8, <1>9, <1>12, <1>13, <1>14, <1>15 DEF Parted
<1>17. \A i \in 1..k : new[i] \notin P[r] /\ new[i] \in Pages
  BY <1>4, <1>6, <1>10
<1> QED
  BY <1>1, <1>2, <1>16, <1>17 DEF g, Q, N

\* A request frees pages it owns.
LEMMA PartedFree ==
  ASSUME NEW T, NEW f, NEW P, Parted(T, f, P), NEW r \in Reqs, NEW A, A \subseteq P[r]
  PROVE  Parted(T, Freed(f, A), [P EXCEPT ![r] = P[r] \ A])
<1> DEFINE g == Freed(f, A)
           Q == [P EXCEPT ![r] = P[r] \ A]
<1>1. /\ f \in [Pages -> {0, 1}] /\ P \in [Reqs -> SUBSET Pages]
      /\ \A p \in A : p \in Pages /\ f[p] = 0
  BY DEF Parted
<1>2. g = [p \in Pages |-> IF p \in A THEN f[p] + 1 ELSE f[p]]
  BY DEF Freed
<1> HIDE DEF g
<1>3. \A p \in Pages : g[p] = IF p \in A THEN 1 ELSE f[p]
  BY <1>1, <1>2
<1>4. g \in [Pages -> {0, 1}]
  BY <1>1, <1>2, <1>3
<1>5. /\ Q \in [Reqs -> SUBSET Pages] /\ \A s \in Reqs : Q[s] \subseteq P[s]
      /\ \A s \in Reqs : \A p \in P[s] : p \in Q[s] \/ (s = r /\ p \in A)
      /\ Q[r] = P[r] \ A
  BY <1>1
<1> HIDE DEF Q
<1>6. \A s \in Reqs : \A p \in Q[s] : p \notin A
  BY <1>5 DEF Parted
<1>7. \A q \in Paths(T) : T.val[q] \notin A
  BY DEF Parted
<1>8. \A q \in Paths(T) : /\ T.val[q] \in Pages /\ g[T.val[q]] = 0
                          /\ \A s \in Reqs : T.val[q] \notin Q[s]
  BY <1>3, <1>5, <1>7 DEF Parted
<1>9. \A s \in Reqs : \A p \in Q[s] : g[p] = 0
  BY <1>3, <1>5, <1>6 DEF Parted
<1>10. ASSUME NEW s \in Reqs, NEW t \in Reqs, NEW p \in Q[s], p \in Q[t] PROVE s = t
  BY <1>5, <1>10 DEF Parted
<1>11. ASSUME NEW p \in Pages
       PROVE  \/ g[p] = 1 \/ \E q \in Paths(T) : T.val[q] = p
              \/ \E s \in Reqs : p \in Q[s]
  <2>1. CASE p \in A
    BY <1>3, <2>1
  <2>2. CASE p \notin A
    BY <1>3, <1>5, <2>2 DEF Parted
  <2> QED
    BY <2>1, <2>2
<1>12. Parted(T, g, Q)
  BY <1>4, <1>5, <1>8, <1>9, <1>10, <1>11 DEF Parted
<1> QED
  BY <1>12 DEF g, Q

-----------------------------------------------------------------------------
(* Prefixes of sequences.                                                  *)

\* The prefix order on paths: it is transitive,
LEMMA PrefixTrans ==
  ASSUME NEW K, NEW a \in Seq(K), NEW b \in Seq(K), NEW c \in Seq(K),
         IsPrefix(a, b), IsPrefix(b, c)
  PROVE  IsPrefix(a, c)
BY DEF IsPrefix

\* reflexive, with the root below everything,
LEMMA PrefixRefl ==
  ASSUME NEW K, NEW a \in Seq(K)
  PROVE  IsPrefix(a, a) /\ IsPrefix(Root, a) /\ Root \in Seq(K) /\ Len(Root) = 0
BY DEF IsPrefix, Root

\* linear below a path,
LEMMA PrefixLinear ==
  ASSUME NEW K, NEW a \in Seq(K), NEW b \in Seq(K), NEW c \in Seq(K),
         IsPrefix(a, c), IsPrefix(b, c), Len(a) <= Len(b)
  PROVE  IsPrefix(a, b)
BY DEF IsPrefix

\* and antisymmetric.
LEMMA PrefixSame ==
  ASSUME NEW K, NEW a \in Seq(K), NEW b \in Seq(K), IsPrefix(a, b), Len(b) <= Len(a)
  PROVE  a = b
BY DEF IsPrefix

\* A prefix is an initial piece,
LEMMA PrefixIsSub ==
  ASSUME NEW K, NEW a \in Seq(K), NEW b \in Seq(K), IsPrefix(a, b)
  PROVE  Len(a) \in 0..Len(b) /\ a = SubSeq(b, 1, Len(a))
BY DEF IsPrefix

\* and an initial piece is a prefix.
LEMMA SubIsPrefix ==
  ASSUME NEW K, NEW b \in Seq(K), NEW k \in 0..Len(b)
  PROVE  /\ SubSeq(b, 1, k) \in Seq(K) /\ Len(SubSeq(b, 1, k)) = k
         /\ IsPrefix(SubSeq(b, 1, k), b)
         /\ \A j \in 0..k : SubSeq(SubSeq(b, 1, k), 1, j) = SubSeq(b, 1, j)
BY DEF IsPrefix

-----------------------------------------------------------------------------
(* Least and greatest elements, for NodeAt and MatchLen.                   *)

\* A nonempty set of naturals has a least element.
LEMMA LeastNat ==
  ASSUME NEW S \in SUBSET Nat, S # {}
  PROVE  \E m \in S : \A n \in S : m <= n
<1> DEFINE R == OpToRel(<, Nat)
<1>1. IsWellFoundedOn(R, Nat)
  BY NatLessThanWellFounded, Zenon
<1>2. \A x, y \in Nat : y < x => <<y, x>> \in R
  BY Zenon DEF OpToRel
<1> HIDE DEF R
<1>3. PICK x \in S : \A y \in S : ~(<<y, x>> \in R)
  BY <1>1, WFMin, Zenon
<1>4. \A y \in S : ~(y < x)
  BY <1>2, <1>3, Zenon
<1>5. \A y \in S : x <= y
  BY <1>4
<1> QED
  BY <1>5

\* The shortest sequence of a set.
LEMMA Shortest ==
  ASSUME NEW K, NEW A \in SUBSET Seq(K), A # {}
  PROVE  \E a \in A : \A b \in A : Len(a) <= Len(b)
<1> DEFINE S == {Len(a) : a \in A}
<1>0. PICK a0 \in A : TRUE
  OBVIOUS
<1>1. S \in SUBSET Nat /\ Len(a0) \in S
  OBVIOUS
<1>2. PICK m \in S : \A n \in S : m <= n
  BY <1>1, LeastNat, Zenon
<1> QED
  BY <1>2, Zenon

\* MatchLen is the length of the longest stored prefix.
LEMMA MatchLenDef ==
  ASSUME NEW K, NEW T, NEW key \in Seq(K)
  PROVE  /\ MatchLen(T, key) \in 0..Len(key)
         /\ MatchLen(T, key) = 0 \/ SubSeq(key, 1, MatchLen(T, key)) \in Paths(T)
         /\ \A k \in 1..Len(key) : SubSeq(key, 1, k) \in Paths(T) => k <= MatchLen(T, key)
<1> DEFINE S == {k \in 0..Len(key) : k = 0 \/ SubSeq(key, 1, k) \in Paths(T)}
           U == {Len(key) - k : k \in S}
<1>1. U \in SUBSET Nat /\ Len(key) - 0 \in U
  OBVIOUS
<1>2. PICK u \in U : \A v \in U : u <= v
  BY <1>1, LeastNat, Zenon
<1>3. PICK k \in S : u = Len(key) - k
  OBVIOUS
<1>4. ASSUME NEW j \in S PROVE j <= k
  <2>1. Len(key) - j \in U
    OBVIOUS
  <2>2. u <= Len(key) - j
    BY <1>2, <2>1
  <2> QED
    BY <1>3, <2>2
<1>5. Max(S) \in S /\ \A j \in S : j <= Max(S)
  BY <1>4 DEF Max
<1> QED
  BY <1>5 DEF MatchLen

-----------------------------------------------------------------------------
(* Trees over page keys K with pages V.                                    *)

TreeOK(K, V, T) ==
  /\ T \in [val : {T.val}, lock : {T.lock}, evictable : Int, protected : Int]
  /\ T.val \in [Paths(T) -> V] /\ Paths(T) \in SUBSET Seq(K) /\ IsFiniteSet(Paths(T))
  /\ T.lock \in [Nodes(T) -> Int] /\ Nodes(T) \in SUBSET Seq(K)
  /\ T.lock[Root] = 1
  /\ TreeShape(T)

\* The token count of a set of nodes is a number.
LEMMA TokensInt ==
  ASSUME NEW K, NEW V, NEW T, TreeOK(K, V, T), NEW B
  PROVE  Tokens(T, B) \in Int
<1> DEFINE P == {q \in Paths(T) : NodeAt(T, q) \in B}
<1>1. IsFiniteSet(P)
  BY FS_Subset, P \subseteq Paths(T) DEF TreeOK
<1>2. Cardinality(P) \in Nat
  BY <1>1, FS_CardinalityType
<1> QED
  BY <1>2, PageSizeAssumption DEF Tokens

\* reset leaves a radix tree.
LEMMA EmptyTreeOK ==
  ASSUME NEW K, NEW V
  PROVE  TreeOK(K, V, EmptyTree)
<1> DEFINE T == EmptyTree
<1>1. Paths(T) = {} /\ Nodes(T) = {Root} /\ T.lock[Root] = 1
  BY DEF EmptyTree, Paths, Nodes
<1>2. IsFiniteSet({})
  BY FS_EmptySet
<1>3. Root \in Seq(K) /\ Len(Root) = 0 /\ IsPrefix(Root, Root)
  BY DEF Root, IsPrefix
<1>4. TreeShape(T)
  BY <1>1, <1>3 DEF TreeShape
<1>5. T \in [val : {T.val}, lock : {T.lock}, evictable : Int, protected : Int]
  BY DEF EmptyTree
<1>6. T.val \in [Paths(T) -> V] /\ T.lock \in [Nodes(T) -> Int]
  BY DEF EmptyTree, Paths, Nodes
<1> QED
  BY <1>1, <1>2, <1>3, <1>4, <1>5, <1>6 DEF TreeOK

\* The node a stored path lies on: every node below the path is below that node.
LEMMA NodeAtDef ==
  ASSUME NEW K, NEW V, NEW T, TreeOK(K, V, T), NEW q \in Paths(T)
  PROVE  /\ NodeAt(T, q) \in Nodes(T) /\ IsPrefix(q, NodeAt(T, q))
         /\ \A m \in Nodes(T) : IsPrefix(q, m) => IsPrefix(NodeAt(T, q), m)
<1> DEFINE A == {n \in Nodes(T) : IsPrefix(q, n)}
           c == NodeAt(T, q)
<1>1. A \in SUBSET Seq(K) /\ A # {}
  BY DEF TreeOK, TreeShape
<1>2. PICK n \in A : \A m \in A : Len(n) <= Len(m)
  BY <1>1, Shortest, Zenon
<1>3. c \in Nodes(T) /\ IsPrefix(q, c) /\ \A m \in Nodes(T) : IsPrefix(q, m) => Len(c) <= Len(m)
  BY <1>2 DEF NodeAt
<1>4. ASSUME NEW m \in Nodes(T), IsPrefix(q, m)
      PROVE  IsPrefix(c, m)
  <2>0. c \in Seq(K) /\ m \in Seq(K) /\ q \in Seq(K)
    BY <1>3 DEF TreeOK
  <2>1. Len(q) \in 0..Len(c) /\ q = SubSeq(c, 1, Len(q))
    BY <1>3, <2>0, PrefixIsSub
  <2>2. PICK d \in Nodes(T) : Len(q) <= Len(d) /\ IsPrefix(d, c) /\ IsPrefix(d, m)
    BY <1>3, <1>4, <2>1, Zenon DEF TreeOK, TreeShape
  <2>3. d \in Seq(K)
    BY DEF TreeOK
  <2>4. IsPrefix(q, d)
    BY <1>3, <2>0, <2>2, <2>3, PrefixLinear
  <2>5. Len(c) <= Len(d)
    BY <1>3, <2>4
  <2>6. d = c
    BY <2>0, <2>2, <2>3, <2>5, PrefixSame
  <2> QED
    BY <2>2, <2>6
<1> QED
  BY <1>3, <1>4

\* Two ways to say that nodes part only at nodes.
LEMMA BranchAt ==
  ASSUME NEW K, NEW V, NEW T, TreeOK(K, V, T), NEW m \in Nodes(T), NEW n \in Nodes(T),
         NEW x \in Seq(K), IsPrefix(x, m), IsPrefix(x, n)
  PROVE  \E c \in Nodes(T) : IsPrefix(x, c) /\ IsPrefix(c, m) /\ IsPrefix(c, n)
<1>0. m \in Seq(K) /\ n \in Seq(K)
  BY DEF TreeOK
<1>1. Len(x) \in 0..Len(m) /\ x = SubSeq(m, 1, Len(x))
  BY <1>0, PrefixIsSub
<1>2. PICK c \in Nodes(T) : Len(x) <= Len(c) /\ IsPrefix(c, m) /\ IsPrefix(c, n)
  BY <1>1, Zenon DEF TreeOK, TreeShape
<1>3. c \in Seq(K)
  BY DEF TreeOK
<1>4. IsPrefix(x, c)
  BY <1>0, <1>2, <1>3, PrefixLinear
<1> QED
  BY <1>2, <1>4

\* The branching law of TreeShape, from its form with arbitrary common prefixes.
LEMMA BranchIntro ==
  ASSUME NEW K, NEW N \in SUBSET Seq(K),
         \A m, n \in N : \A x \in Seq(K) : IsPrefix(x, m) /\ IsPrefix(x, n) =>
           \E c \in N : IsPrefix(x, c) /\ IsPrefix(c, m) /\ IsPrefix(c, n)
  PROVE  \A m, n \in N : \A k \in 0..Len(m) :
           IsPrefix(SubSeq(m, 1, k), n) =>
             \E c \in N : k <= Len(c) /\ IsPrefix(c, m) /\ IsPrefix(c, n)
<1> SUFFICES ASSUME NEW m \in N, NEW n \in N, NEW k \in 0..Len(m),
                    IsPrefix(SubSeq(m, 1, k), n)
             PROVE  \E c \in N : k <= Len(c) /\ IsPrefix(c, m) /\ IsPrefix(c, n)
  OBVIOUS
<1> DEFINE x == SubSeq(m, 1, k)
<1>1. x \in Seq(K) /\ Len(x) = k /\ IsPrefix(x, m)
  BY SubIsPrefix
<1> HIDE DEF x
<1>2. IsPrefix(x, n)
  BY DEF x
<1>3. PICK c \in N : IsPrefix(x, c) /\ IsPrefix(c, m) /\ IsPrefix(c, n)
  BY <1>1, <1>2
<1>4. k <= Len(c)
  BY <1>1, <1>3, PrefixIsSub
<1> QED
  BY <1>3, <1>4

\* _split_node keeps the tree a radix tree, adds one node and moves no page.
LEMMA SplitTree ==
  ASSUME NEW K, NEW V, NEW T, TreeOK(K, V, T), NEW q \in Paths(T) \cup {Root}
  PROVE  /\ TreeOK(K, V, Split(T, q))
         /\ Nodes(Split(T, q)) = Nodes(T) \cup {q}
         /\ Split(T, q).val = T.val
         /\ \A n \in Nodes(T) : Split(T, q).lock[n] = T.lock[n]
         /\ q \notin Nodes(T) => Split(T, q).lock[q] = T.lock[NodeAt(T, q)]
<1>1. CASE q \in Nodes(T)
  BY <1>1 DEF Split
<1>2. CASE q \notin Nodes(T)
  <2> DEFINE S == Split(T, q)
             e == NodeAt(T, q)
  <2>0. q \in Paths(T)
    BY <1>2 DEF TreeOK, TreeShape
  <2>1. e \in Nodes(T) /\ IsPrefix(q, e)
    BY <2>0, NodeAtDef
  <2>2. e \in Seq(K) /\ q \in Seq(K)
    BY <2>0, <2>1 DEF TreeOK
  <2>3. S = [T EXCEPT !.lock = [n \in Nodes(T) \cup {q} |->
                                   IF n = q THEN T.lock[e] ELSE T.lock[n]]]
    BY <1>2 DEF Split
  <2>4. /\ S \in [val : {S.val}, lock : {S.lock}, evictable : Int, protected : Int]
        /\ S.val = T.val
        /\ S.lock = [n \in Nodes(T) \cup {q} |-> IF n = q THEN T.lock[e] ELSE T.lock[n]]
    BY <2>3, Zenon DEF TreeOK
  <2> HIDE DEF S, e
  <2>5. Nodes(S) = Nodes(T) \cup {q} /\ Paths(S) = Paths(T)
    BY <2>4 DEF Nodes, Paths
  <2>6. S.lock \in [Nodes(S) -> Int] /\ S.lock[Root] = 1
    BY <1>2, <2>1, <2>4, <2>5 DEF TreeOK, TreeShape
  <2>7. ASSUME NEW n \in Nodes(T), NEW x \in Seq(K), IsPrefix(x, q), IsPrefix(x, n)
        PROVE  \E c \in Nodes(S) : IsPrefix(x, c) /\ IsPrefix(c, q) /\ IsPrefix(c, n)
    <3>1. IsPrefix(x, e)
      BY <2>1, <2>2, <2>7, PrefixTrans
    <3>2. PICK c \in Nodes(T) : IsPrefix(x, c) /\ IsPrefix(c, e) /\ IsPrefix(c, n)
      BY <2>1, <2>7, <3>1, BranchAt
    <3>3. c \in Seq(K) /\ n \in Seq(K)
      BY DEF TreeOK
    <3>4. CASE Len(c) <= Len(q)
      BY <2>1, <2>2, <2>5, <3>2, <3>3, <3>4, PrefixLinear
    <3>5. CASE Len(q) <= Len(c)
      <4>1. IsPrefix(q, c)
        BY <2>1, <2>2, <3>2, <3>3, <3>5, PrefixLinear
      <4>2. IsPrefix(q, n) /\ IsPrefix(q, q)
        BY <2>2, <3>2, <3>3, <4>1, PrefixTrans, PrefixRefl
      <4> QED
        BY <2>5, <2>7, <4>2
    <3> QED
      BY <2>2, <3>3, <3>4, <3>5
  <2>8. \A m, n \in Nodes(S) : \A x \in Seq(K) : IsPrefix(x, m) /\ IsPrefix(x, n) =>
           \E c \in Nodes(S) : IsPrefix(x, c) /\ IsPrefix(c, m) /\ IsPrefix(c, n)
    <3> SUFFICES ASSUME NEW m \in Nodes(S), NEW n \in Nodes(S), NEW x \in Seq(K),
                        IsPrefix(x, m), IsPrefix(x, n)
                 PROVE  \E c \in Nodes(S) : IsPrefix(x, c) /\ IsPrefix(c, m) /\ IsPrefix(c, n)
      OBVIOUS
    <3>1. CASE m = q /\ n = q
      BY <2>2, <2>5, <3>1, PrefixRefl
    <3>2. CASE m = q /\ n \in Nodes(T)
      BY <2>7, <3>2
    <3>3. CASE m \in Nodes(T) /\ n = q
      BY <2>7, <3>3
    <3>4. CASE m \in Nodes(T) /\ n \in Nodes(T)
      BY <2>5, <3>4, BranchAt
    <3> QED
      BY <2>5, <3>1, <3>2, <3>3, <3>4
  <2>9. Nodes(S) \in SUBSET Seq(K)
    BY <2>2, <2>5 DEF TreeOK
  <2>10. TreeShape(S)
    <3>1. /\ Root \in Nodes(S) /\ Root \notin Paths(S)
          /\ \A p \in Paths(S) : \A k \in 1..Len(p) : SubSeq(p, 1, k) \in Paths(S)
          /\ Nodes(S) \ {Root} \subseteq Paths(S)
          /\ \A p \in Paths(S) : \E n \in Nodes(S) : IsPrefix(p, n)
      BY <2>0, <2>5 DEF TreeOK, TreeShape
    <3> QED
      BY <2>8, <2>9, <3>1, BranchIntro, Zenon DEF TreeShape
  <2>11. TreeOK(K, V, S)
    BY <2>4, <2>5, <2>6, <2>9, <2>10 DEF TreeOK
  <2> QED
    BY <1>2, <2>4, <2>5, <2>11 DEF S, e
<1> QED
  BY <1>1, <1>2

-----------------------------------------------------------------------------
(* Lock counts (at maps every holder of a lock to the node it holds),      *)
(* insert, inc_lock_ref, dec_lock_ref, evict.                              *)

\* A prefix of a node is stored.
LEMMA NodePrefixStored ==
  ASSUME NEW K, NEW V, NEW T, TreeOK(K, V, T), NEW n \in Nodes(T), NEW x \in Seq(K),
         IsPrefix(x, n), x # Root
  PROVE  x \in Paths(T)
<1>1. n \in Seq(K)
  BY DEF TreeOK
<1>2. Len(x) \in 1..Len(n) /\ x = SubSeq(n, 1, Len(x))
  BY <1>1, PrefixIsSub DEF Root
<1>3. n # Root
  BY <1>2 DEF Root
<1>4. n \in Paths(T)
  BY <1>3 DEF TreeOK, TreeShape
<1> QED
  BY <1>2, <1>4, Zenon DEF TreeOK, TreeShape

\* _split_node keeps the count of locks: the upper half has the holders of the lower.
LEMMA SplitLocks ==
  ASSUME NEW K, NEW V, NEW T, TreeOK(K, V, T), NEW q \in Paths(T) \cup {Root},
         NEW at, \A r \in DOMAIN at : at[r] \in Nodes(T), LocksCount(T, at)
  PROVE  LocksCount(Split(T, q), at)
<1> DEFINE S == Split(T, q)
           e == NodeAt(T, q)
<1>1. /\ Nodes(S) = Nodes(T) \cup {q}
      /\ \A n \in Nodes(T) : S.lock[n] = T.lock[n]
      /\ q \notin Nodes(T) => S.lock[q] = T.lock[e]
  BY SplitTree
<1> HIDE DEF S, e
<1>2. SUFFICES ASSUME NEW n \in Nodes(S) \ {Root}
               PROVE  S.lock[n] = Cardinality({r \in DOMAIN at : IsPrefix(n, at[r])})
  BY DEF LocksCount, S
<1>3. CASE n \in Nodes(T)
  BY <1>1, <1>3 DEF LocksCount
<1>4. CASE n = q /\ q \notin Nodes(T)
  <2>1. q \in Paths(T)
    BY <1>4, <1>2
  <2>2. e \in Nodes(T) /\ IsPrefix(q, e)
    BY <2>1, NodeAtDef DEF e
  <2>3. e \in Seq(K) /\ q \in Seq(K)
    BY <2>1, <2>2 DEF TreeOK
  <2>4. e # Root
    BY <1>2, <1>4, <2>2, <2>3 DEF Root, IsPrefix
  <2>5. ASSUME NEW r \in DOMAIN at PROVE IsPrefix(q, at[r]) <=> IsPrefix(e, at[r])
    <3>1. at[r] \in Nodes(T) /\ at[r] \in Seq(K)
      BY DEF TreeOK
    <3>2. IsPrefix(q, at[r]) => IsPrefix(e, at[r])
      BY <2>1, <3>1, NodeAtDef DEF e
    <3>3. IsPrefix(e, at[r]) => IsPrefix(q, at[r])
      BY <2>2, <2>3, <3>1, PrefixTrans
    <3> QED
      BY <3>2, <3>3
  <2>6. {r \in DOMAIN at : IsPrefix(q, at[r])} = {r \in DOMAIN at : IsPrefix(e, at[r])}
    BY <2>5
  <2>7. T.lock[e] = Cardinality({r \in DOMAIN at : IsPrefix(e, at[r])})
    BY <2>2, <2>4 DEF LocksCount
  <2> QED
    BY <1>1, <1>4, <2>6, <2>7
<1> QED
  BY <1>1, <1>3, <1>4

\* _insert_helper keeps the tree a tree, stores the whole key, changes the page of no
\* stored path, and keeps lock_ref exact: the new leaf is held by nobody.
LEMMA InsertTree ==
  ASSUME NEW K, NEW V, NEW T, TreeOK(K, V, T), NEW key \in Seq(K),
         NEW pages \in [1..Len(key) -> V]
  PROVE  /\ TreeOK(K, V, Insert(T, key, pages))
         /\ Nodes(T) \cup {key} \subseteq Nodes(Insert(T, key, pages))
         /\ Paths(T) \subseteq Paths(Insert(T, key, pages))
         /\ \A q \in Paths(T) : Insert(T, key, pages).val[q] = T.val[q]
         /\ \A at : (\A r \in DOMAIN at : at[r] \in Nodes(T)) /\ LocksCount(T, at)
                    => LocksCount(Insert(T, key, pages), at)
<1> DEFINE m == MatchLen(T, key)
           p == SubSeq(key, 1, m)
           S == Split(T, p)
           new == {SubSeq(key, 1, k) : k \in (m + 1)..Len(key)}
           R == Insert(T, key, pages)
<1>1. /\ m \in 0..Len(key)
      /\ m = 0 \/ p \in Paths(T)
      /\ \A k \in 1..Len(key) : SubSeq(key, 1, k) \in Paths(T) => k <= m
  BY MatchLenDef
<1>2. R = IF m = Len(key) THEN S
          ELSE [val  |-> [q \in Paths(T) \cup new |->
                        IF q \in Paths(T) THEN T.val[q] ELSE pages[Len(q)]],
            lock |-> [n \in Nodes(S) \cup {key} |->
                        IF n = key THEN 0 ELSE S.lock[n]],
            evictable |-> T.evictable + PageSize * (Len(key) - m),
            protected |-> T.protected]
  BY DEF Insert
<1> HIDE DEF m, R
<1>3. /\ p \in Seq(K) /\ Len(p) = m /\ IsPrefix(p, key)
      /\ \A j \in 0..m : SubSeq(p, 1, j) = SubSeq(key, 1, j)
  BY <1>1, SubIsPrefix
<1>4. p \in Paths(T) \cup {Root}
  BY <1>1, <1>3 DEF Root
<1> HIDE DEF p
<1>5. /\ TreeOK(K, V, S) /\ Nodes(S) = Nodes(T) \cup {p} /\ S.val = T.val
      /\ \A n \in Nodes(T) : S.lock[n] = T.lock[n]
  BY <1>4, SplitTree
<1>6. \A at : (\A r \in DOMAIN at : at[r] \in Nodes(T)) /\ LocksCount(T, at)
               => LocksCount(S, at)
  BY <1>4, SplitLocks
<1> HIDE DEF S
<1>7. CASE m = Len(key)
  <2>1. p = key
    BY <1>1, <1>3, <1>7, PrefixSame
  <2>2. R = S /\ Paths(S) = Paths(T)
    BY <1>2, <1>5, <1>7 DEF Paths
  <2> QED
    BY <2>1, <2>2, <1>5, <1>6 DEF R
<1>8. CASE m # Len(key)
  <2>1. /\ R.val = [q \in Paths(T) \cup new |->
                        IF q \in Paths(T) THEN T.val[q] ELSE pages[Len(q)]]
        /\ R.lock = [n \in Nodes(S) \cup {key} |-> IF n = key THEN 0 ELSE S.lock[n]]
        /\ R.evictable = T.evictable + PageSize * (Len(key) - m)
        /\ R.protected = T.protected
        /\ R = [val |-> R.val, lock |-> R.lock, evictable |-> R.evictable,
                protected |-> R.protected]
    BY <1>2, <1>8, Zenon
  <2>2. ASSUME NEW q \in new
        PROVE  q \in Seq(K) /\ Len(q) \in (m + 1)..Len(key) /\ q = SubSeq(key, 1, Len(q))
               /\ IsPrefix(q, key) /\ q # Root
    <3>1. PICK k \in (m + 1)..Len(key) : q = SubSeq(key, 1, k)
      OBVIOUS
    <3>2. k \in 0..Len(key)
      BY <1>1
    <3> QED
      BY <1>1, <3>1, <3>2, SubIsPrefix DEF Root
  <2>3. key \in new /\ key # Root
    <3>1. Len(key) \in (m + 1)..Len(key)
      BY <1>1, <1>8
    <3>2. key = SubSeq(key, 1, Len(key))
      OBVIOUS
    <3>3. key \in new
      BY <3>1, <3>2, Zenon
    <3>4. key # Root
      BY <1>1, <1>8 DEF Root
    <3> QED
      BY <3>3, <3>4
  <2>4. IsFiniteSet(new)
    <3> DEFINE I == (m + 1)..Len(key)
    <3>1. IsFiniteSet(I)
      BY <1>1, FS_Interval
    <3> DEFINE g == [k \in I |-> SubSeq(key, 1, k)]
    <3>2. new = {g[k] : k \in I}
      OBVIOUS
    <3>3. g \in Surjection(I, new)
      BY <3>2 DEF Surjection
    <3> QED
      BY <3>1, <3>3, FS_Surjection
  <2> HIDE DEF new
  <2>5. Nodes(R) = Nodes(S) \cup {key} /\ Paths(R) = Paths(T) \cup new
    BY <2>1 DEF Nodes, Paths
  <2>6. ASSUME NEW n \in Nodes(S), NEW x \in Seq(K), IsPrefix(x, key), IsPrefix(x, n)
        PROVE  Len(x) <= m
    <3>1. Len(x) \in 0..Len(key) /\ x = SubSeq(key, 1, Len(x))
      BY <2>6, PrefixIsSub
    <3>2. CASE x = Root
      BY <1>1, <3>2 DEF Root
    <3>3. CASE x # Root
      <4>1. x \in Paths(T)
        BY <1>5, <2>6, <3>3, NodePrefixStored DEF Paths
      <4>2. Len(x) # 0
        BY <3>3 DEF Root
      <4>3. Len(x) \in 1..Len(key)
        BY <3>1, <4>2
      <4>4. SubSeq(key, 1, Len(x)) \in Paths(T)
        BY <3>1, <4>1, Zenon
      <4> QED
        BY <1>1, <4>3, <4>4, Zenon
    <3> QED
      BY <3>2, <3>3
  <2>7. key \notin Nodes(S)
    BY <1>1, <1>8, <2>6, PrefixRefl
  <2>8. R \in [val : {R.val}, lock : {R.lock}, evictable : Int, protected : Int]
    BY <1>1, <2>1, PageSizeAssumption DEF TreeOK
  <2>9. R.val \in [Paths(R) -> V] /\ Paths(R) \in SUBSET Seq(K) /\ IsFiniteSet(Paths(R))
    <3>1. IsFiniteSet(Paths(T) \cup new)
      BY <2>4, FS_Union, Zenon DEF TreeOK
    <3>2. \A q \in new : Len(q) \in 1..Len(key)
      BY <1>1, <2>2
    <3>3. \A q \in new : pages[Len(q)] \in V
      BY <3>2
    <3>4. R.val \in [Paths(T) \cup new -> V]
      BY <2>1, <3>3 DEF TreeOK
    <3> QED
      BY <2>2, <2>5, <3>1, <3>4 DEF TreeOK
  <2>10. R.lock \in [Nodes(R) -> Int] /\ Nodes(R) \in SUBSET Seq(K) /\ R.lock[Root] = 1
    BY <1>5, <2>1, <2>3, <2>5 DEF TreeOK, TreeShape
  <2>11. ASSUME NEW n \in Nodes(S), NEW x \in Seq(K), IsPrefix(x, key), IsPrefix(x, n)
         PROVE  \E c \in Nodes(R) : IsPrefix(x, c) /\ IsPrefix(c, key) /\ IsPrefix(c, n)
    <3>1. IsPrefix(x, p)
      BY <1>3, <2>6, <2>11, PrefixLinear
    <3>2. PICK c \in Nodes(S) : IsPrefix(x, c) /\ IsPrefix(c, p) /\ IsPrefix(c, n)
      BY <1>5, <2>11, <3>1, BranchAt, Zenon
    <3>3. c \in Seq(K)
      BY <1>5 DEF TreeOK
    <3>4. IsPrefix(c, key)
      BY <1>3, <3>2, <3>3, PrefixTrans
    <3> QED
      BY <2>5, <3>2, <3>4
  <2>12. \A a, n \in Nodes(R) : \A x \in Seq(K) : IsPrefix(x, a) /\ IsPrefix(x, n) =>
           \E c \in Nodes(R) : IsPrefix(x, c) /\ IsPrefix(c, a) /\ IsPrefix(c, n)
    <3> SUFFICES ASSUME NEW a \in Nodes(R), NEW n \in Nodes(R), NEW x \in Seq(K),
                        IsPrefix(x, a), IsPrefix(x, n)
                 PROVE  \E c \in Nodes(R) : IsPrefix(x, c) /\ IsPrefix(c, a) /\ IsPrefix(c, n)
      OBVIOUS
    <3>1. CASE a = key /\ n = key
      BY <2>5, <3>1, PrefixRefl
    <3>2. CASE a = key /\ n \in Nodes(S)
      BY <2>11, <3>2
    <3>3. CASE a \in Nodes(S) /\ n = key
      BY <2>11, <3>3
    <3>4. CASE a \in Nodes(S) /\ n \in Nodes(S)
      BY <1>5, <2>5, <3>4, BranchAt
    <3> QED
      BY <2>5, <3>1, <3>2, <3>3, <3>4
  <2>13. \A q \in Paths(R) : \A k \in 1..Len(q) : SubSeq(q, 1, k) \in Paths(R)
    <3> SUFFICES ASSUME NEW q \in new, NEW k \in 1..Len(q)
                 PROVE  SubSeq(q, 1, k) \in Paths(R)
      BY <2>5 DEF TreeOK, TreeShape
    <3>1. SubSeq(q, 1, k) = SubSeq(key, 1, k) /\ k \in 1..Len(key)
      BY <1>1, <2>2, SubIsPrefix
    <3>2. CASE k <= m
      <4>1. p \in Paths(T)
        BY <1>1, <3>2
      <4>2. SubSeq(p, 1, k) \in Paths(T)
        BY <1>3, <3>2, <4>1 DEF TreeOK, TreeShape
      <4>3. k \in 0..m
        BY <1>1, <3>2
      <4>4. SubSeq(q, 1, k) \in Paths(T)
        BY <1>3, <3>1, <4>2, <4>3, Zenon
      <4> QED
        BY <2>5, <4>4, Zenon
    <3>3. CASE m < k
      BY <1>1, <2>5, <3>1, <3>3 DEF new
    <3> QED
      BY <1>1, <3>2, <3>3
  <2>14. TreeShape(R)
    <3>1. /\ Root \in Nodes(R) /\ Root \notin Paths(R)
          /\ Nodes(R) \ {Root} \subseteq Paths(R)
      BY <1>4, <1>5, <2>2, <2>3, <2>5, Zenon DEF TreeOK, TreeShape
    <3>2. \A q \in Paths(R) : \E n \in Nodes(R) : IsPrefix(q, n)
      BY <1>5, <2>2, <2>5 DEF TreeOK, TreeShape
    <3> QED
      BY <2>10, <2>12, <2>13, <3>1, <3>2, BranchIntro, Zenon DEF TreeShape
  <2>15. TreeOK(K, V, R)
    BY <2>8, <2>9, <2>10, <2>14 DEF TreeOK
  <2>16. ASSUME NEW at, \A r \in DOMAIN at : at[r] \in Nodes(T), LocksCount(T, at)
         PROVE  LocksCount(R, at)
    <3>1. LocksCount(S, at)
      BY <1>6, <2>16
    <3>2. ASSUME NEW r \in DOMAIN at PROVE ~IsPrefix(key, at[r])
      <4>1. at[r] \in Nodes(S)
        BY <1>5, <2>16
      <4>2. IsPrefix(key, at[r]) => Len(key) <= m
        BY <4>1, <2>6, PrefixRefl
      <4> QED
        BY <1>1, <1>8, <4>2
    <3>3. {r \in DOMAIN at : IsPrefix(key, at[r])} = {}
      BY <3>2
    <3>4. R.lock[key] = Cardinality({r \in DOMAIN at : IsPrefix(key, at[r])})
      BY <2>1, <3>3, FS_EmptySet, Zenon
    <3>5. \A n \in Nodes(S) : R.lock[n] = S.lock[n]
      BY <2>1, <2>7
    <3> QED
      BY <2>5, <3>1, <3>4, <3>5, Zenon DEF LocksCount
  <2> QED
    BY <1>5, <2>1, <2>5, <2>15, <2>16 DEF R
<1> QED
  BY <1>7, <1>8

\* The shape of a tree does not depend on lock_ref.
LEMMA RelockTree ==
  ASSUME NEW K, NEW V, NEW T, TreeOK(K, V, T), NEW lk \in [Nodes(T) -> Int],
         lk[Root] = 1,
         NEW R \in [val : {T.val}, lock : {lk}, evictable : Int, protected : Int]
  PROVE  TreeOK(K, V, R) /\ Nodes(R) = Nodes(T) /\ R.val = T.val /\ R.lock = lk
<1>1. /\ R \in [val : {R.val}, lock : {R.lock}, evictable : Int, protected : Int]
      /\ R.val = T.val /\ R.lock = lk
  OBVIOUS
<1>2. Nodes(R) = Nodes(T) /\ Paths(R) = Paths(T)
  BY <1>1 DEF Nodes, Paths
<1>3. TreeShape(R)
  BY <1>2 DEF TreeOK, TreeShape
<1>4. TreeOK(K, V, R)
  BY <1>1, <1>2, <1>3 DEF TreeOK
<1> QED
  BY <1>1, <1>2, <1>4

\* inc_lock_ref(n) counts one more holder, of n.
LEMMA IncLockTree ==
  ASSUME NEW K, NEW V, NEW T, TreeOK(K, V, T), NEW n \in Nodes(T)
  PROVE  /\ TreeOK(K, V, IncLockRef(T, n))
         /\ Nodes(IncLockRef(T, n)) = Nodes(T)
         /\ IncLockRef(T, n).val = T.val
         /\ IncLockRef(T, n).lock = [m \in Nodes(T) |->
                IF m \in Chain(T, n) THEN T.lock[m] + 1 ELSE T.lock[m]]
<1> DEFINE lk == [m \in Nodes(T) |-> IF m \in Chain(T, n) THEN T.lock[m] + 1 ELSE T.lock[m]]
           mv == Tokens(T, {m \in Chain(T, n) : T.lock[m] = 0})
<1>1. lk \in [Nodes(T) -> Int] /\ lk[Root] = 1
  BY DEF TreeOK, TreeShape, Chain
<1>2. mv \in Int
  BY TokensInt
<1>3. IncLockRef(T, n) = [val |-> T.val, lock |-> lk, evictable |-> T.evictable - mv,
                         protected |-> T.protected + mv]
  BY DEF IncLockRef
<1> HIDE DEF lk, mv
<1>4. IncLockRef(T, n) \in [val : {T.val}, lock : {lk}, evictable : Int, protected : Int]
  BY <1>2, <1>3 DEF TreeOK
<1>5. /\ TreeOK(K, V, IncLockRef(T, n)) /\ Nodes(IncLockRef(T, n)) = Nodes(T)
      /\ IncLockRef(T, n).val = T.val /\ IncLockRef(T, n).lock = lk
  BY <1>1, <1>4, RelockTree
<1> QED
  BY <1>5 DEF lk

\* dec_lock_ref(n) keeps the tree a tree.
LEMMA DecLockTree ==
  ASSUME NEW K, NEW V, NEW T, TreeOK(K, V, T), NEW n \in Nodes(T)
  PROVE  /\ TreeOK(K, V, DecLockRef(T, n))
         /\ Nodes(DecLockRef(T, n)) = Nodes(T)
         /\ DecLockRef(T, n).val = T.val
         /\ DecLockRef(T, n).lock = [m \in Nodes(T) |->
                IF m \in Chain(T, n) THEN T.lock[m] - 1 ELSE T.lock[m]]
<1> DEFINE lk == [m \in Nodes(T) |-> IF m \in Chain(T, n) THEN T.lock[m] - 1 ELSE T.lock[m]]
           mv == Tokens(T, {m \in Chain(T, n) : T.lock[m] = 1})
<1>1. lk \in [Nodes(T) -> Int] /\ lk[Root] = 1
  BY DEF TreeOK, TreeShape, Chain
<1>2. mv \in Int
  BY TokensInt
<1>3. DecLockRef(T, n) = [val |-> T.val, lock |-> lk, evictable |-> T.evictable + mv,
                         protected |-> T.protected - mv]
  BY DEF DecLockRef
<1> HIDE DEF lk, mv
<1>4. DecLockRef(T, n) \in [val : {T.val}, lock : {lk}, evictable : Int, protected : Int]
  BY <1>2, <1>3 DEF TreeOK
<1>5. /\ TreeOK(K, V, DecLockRef(T, n)) /\ Nodes(DecLockRef(T, n)) = Nodes(T)
      /\ DecLockRef(T, n).val = T.val /\ DecLockRef(T, n).lock = lk
  BY <1>1, <1>4, RelockTree
<1> QED
  BY <1>5 DEF lk

\* One holder r more, of node n: at2 extends at.
Joins(at, at2, r, n) ==
  /\ IsFiniteSet(DOMAIN at) /\ r \notin DOMAIN at
  /\ DOMAIN at2 = DOMAIN at \cup {r} /\ at2[r] = n
  /\ \A s \in DOMAIN at : at2[s] = at[s]

\* How many holders a node counts before and after one joins.
LEMMA JoinCount ==
  ASSUME NEW at, NEW at2, NEW r, NEW n, Joins(at, at2, r, n), NEW m
  PROVE  LET C == Cardinality({s \in DOMAIN at : IsPrefix(m, at[s])})
             D == Cardinality({s \in DOMAIN at2 : IsPrefix(m, at2[s])})
         IN  C \in Nat /\ D = IF IsPrefix(m, n) THEN C + 1 ELSE C
<1> DEFINE A == {s \in DOMAIN at : IsPrefix(m, at[s])}
           B == {s \in DOMAIN at2 : IsPrefix(m, at2[s])}
<1>1. IsFiniteSet(A) /\ r \notin A
  BY FS_Subset, A \subseteq DOMAIN at DEF Joins
<1>2. CASE IsPrefix(m, n)
  <2>1. B = A \cup {r}
    BY <1>2 DEF Joins
  <2> HIDE DEF A, B
  <2>2. Cardinality(A) \in Nat /\ Cardinality(B) = Cardinality(A) + 1
    BY <1>1, <2>1, FS_AddElement, FS_CardinalityType
  <2> QED
    BY <1>2, <2>2 DEF A, B
<1>3. CASE ~IsPrefix(m, n)
  <2>1. B = A
    BY <1>3 DEF Joins
  <2> HIDE DEF A, B
  <2>2. Cardinality(A) \in Nat /\ Cardinality(B) = Cardinality(A)
    BY <1>1, <2>1, FS_CardinalityType
  <2> QED
    BY <1>3, <2>2 DEF A, B
<1> QED
  BY <1>2, <1>3

\* inc_lock_ref changes neither the nodes nor what they cache.
LEMMA IncLockKeeps ==
  ASSUME NEW K, NEW V, NEW T, TreeOK(K, V, T), NEW n \in Nodes(T)
  PROVE  /\ TreeOK(K, V, IncLockRef(T, n))
         /\ Nodes(IncLockRef(T, n)) = Nodes(T)
         /\ IncLockRef(T, n).val = T.val
<1>1. TreeOK(K, V, IncLockRef(T, n))
  BY IncLockTree, Zenon
<1>2. Nodes(IncLockRef(T, n)) = Nodes(T)
  BY IncLockTree, Zenon
<1>3. IncLockRef(T, n).val = T.val
  BY DEF IncLockRef
<1> QED
  BY <1>1, <1>2, <1>3

\* dec_lock_ref changes neither the nodes nor what they cache.
LEMMA DecLockKeeps ==
  ASSUME NEW K, NEW V, NEW T, TreeOK(K, V, T), NEW n \in Nodes(T)
  PROVE  /\ TreeOK(K, V, DecLockRef(T, n))
         /\ Nodes(DecLockRef(T, n)) = Nodes(T)
         /\ DecLockRef(T, n).val = T.val
<1>1. TreeOK(K, V, DecLockRef(T, n))
  BY DecLockTree, Zenon
<1>2. Nodes(DecLockRef(T, n)) = Nodes(T)
  BY DecLockTree, Zenon
<1>3. DecLockRef(T, n).val = T.val
  BY Zenon DEF DecLockRef
<1> QED
  BY <1>1, <1>2, <1>3

\* inc_lock_ref for a new holder keeps the counts exact.
LEMMA IncLocks ==
  ASSUME NEW K, NEW V, NEW T, TreeOK(K, V, T), NEW n \in Nodes(T),
         NEW at, NEW at2, NEW r, Joins(at, at2, r, n), LocksCount(T, at)
  PROVE  LocksCount(IncLockRef(T, n), at2)
<1> DEFINE R == IncLockRef(T, n)
<1>1. Nodes(R) = Nodes(T) /\ R.lock = [m \in Nodes(T) |->
                IF m \in Chain(T, n) THEN T.lock[m] + 1 ELSE T.lock[m]]
  BY IncLockTree
<1> HIDE DEF R
<1>2. SUFFICES ASSUME NEW m \in Nodes(T) \ {Root}
               PROVE  R.lock[m] = Cardinality({s \in DOMAIN at2 : IsPrefix(m, at2[s])})
  BY <1>1 DEF R, LocksCount
<1>3. R.lock[m] = IF IsPrefix(m, n) THEN T.lock[m] + 1 ELSE T.lock[m]
  BY <1>1 DEF Chain
<1>4. T.lock[m] = Cardinality({s \in DOMAIN at : IsPrefix(m, at[s])})
  BY Zenon DEF LocksCount
<1> QED
  BY <1>3, <1>4, JoinCount

\* dec_lock_ref for a holder that leaves keeps the counts exact.
LEMMA DecLocks ==
  ASSUME NEW K, NEW V, NEW T, TreeOK(K, V, T), NEW n \in Nodes(T),
         NEW at, NEW at2, NEW r, Joins(at, at2, r, n), LocksCount(T, at2)
  PROVE  LocksCount(DecLockRef(T, n), at)
<1> DEFINE R == DecLockRef(T, n)
<1>1. Nodes(R) = Nodes(T) /\ R.lock = [m \in Nodes(T) |->
                IF m \in Chain(T, n) THEN T.lock[m] - 1 ELSE T.lock[m]]
  BY DecLockTree
<1> HIDE DEF R
<1>2. SUFFICES ASSUME NEW m \in Nodes(T) \ {Root}
               PROVE  R.lock[m] = Cardinality({s \in DOMAIN at : IsPrefix(m, at[s])})
  BY <1>1 DEF R, LocksCount
<1>3. R.lock[m] = IF IsPrefix(m, n) THEN T.lock[m] - 1 ELSE T.lock[m]
  BY <1>1 DEF Chain
<1>4. T.lock[m] = Cardinality({s \in DOMAIN at2 : IsPrefix(m, at2[s])})
  BY Zenon DEF LocksCount
<1> QED
  BY <1>3, <1>4, JoinCount

\* evict deletes whole subtrees without locks: what is left is a tree with exact lock
\* counts, and everything above a locked node stays, with its pages.
LEMMA DeleteTree ==
  ASSUME NEW K, NEW V, NEW T, TreeOK(K, V, T), NEW E \in SUBSET Reclaimable(T),
         \A n \in E : Below(T, n) \subseteq E
  PROVE  /\ TreeOK(K, V, Delete(T, E))
         /\ Nodes(Delete(T, E)) = Nodes(T) \ E
         /\ \A at : LocksCount(T, at) => LocksCount(Delete(T, E), at)
         /\ \A n \in Nodes(T) : T.lock[n] # 0 =>
              /\ n \in Nodes(Delete(T, E))
              /\ \A q \in Paths(T) : IsPrefix(q, n) =>
                   q \in Paths(Delete(T, E)) /\ Delete(T, E).val[q] = T.val[q]
<1> DEFINE R == Delete(T, E)
           P == {p \in Paths(T) : NodeAt(T, p) \notin E}
<1>0. Tokens(T, E) \in Int
  BY TokensInt
<1>1. /\ R.val = [q \in P |-> T.val[q]] /\ R.lock = [n \in Nodes(T) \ E |-> T.lock[n]]
      /\ R \in [val : {R.val}, lock : {R.lock}, evictable : Int, protected : Int]
  BY <1>0 DEF Delete, TreeOK
<1> HIDE DEF R
<1>2. Nodes(R) = Nodes(T) \ E /\ Paths(R) = P /\ E \subseteq Nodes(T)
  BY <1>1 DEF Nodes, Paths, Reclaimable
<1>3. ASSUME NEW n \in Nodes(T) PROVE n \in Below(T, n)
  BY PrefixRefl DEF TreeOK, Below
<1>4. ASSUME NEW n \in Nodes(T), NEW c \in Nodes(T), IsPrefix(c, n), n \notin E
      PROVE  c \notin E
  BY <1>4 DEF Below
<1>5. Root \in Nodes(R) /\ R.lock[Root] = 1
  <2>1. Root \in Nodes(T) /\ T.lock[Root] = 1
    BY DEF TreeOK, TreeShape
  <2>2. Root \notin Reclaimable(T)
    BY <1>3, <2>1 DEF Reclaimable
  <2> QED
    BY <1>1, <1>2, <2>1, <2>2
<1>6. R.val \in [Paths(R) -> V] /\ Paths(R) \in SUBSET Seq(K) /\ IsFiniteSet(Paths(R))
  <2>1. IsFiniteSet(P)
    BY FS_Subset, P \subseteq Paths(T) DEF TreeOK
  <2> QED
    BY <1>1, <1>2, <2>1 DEF TreeOK
<1>7. R.lock \in [Nodes(R) -> Int] /\ Nodes(R) \in SUBSET Seq(K)
  BY <1>1, <1>2 DEF TreeOK
<1>8. ASSUME NEW q \in Paths(T), NEW n \in Nodes(T), IsPrefix(q, n), n \notin E
      PROVE  q \in P
  BY <1>4, <1>8, NodeAtDef
<1>9. TreeShape(R)
  <2>1. Root \notin Paths(R)
    BY <1>2 DEF TreeOK, TreeShape
  <2>2. \A q \in Paths(R) : \A k \in 1..Len(q) : SubSeq(q, 1, k) \in Paths(R)
    <3> SUFFICES ASSUME NEW q \in P, NEW k \in 1..Len(q) PROVE SubSeq(q, 1, k) \in P
      BY <1>2
    <3> DEFINE x == SubSeq(q, 1, k)
               e == NodeAt(T, q)
    <3>1. q \in Seq(K) /\ x \in Paths(T) /\ x \in Seq(K)
      BY DEF TreeOK, TreeShape
    <3>2. IsPrefix(x, q)
      BY <3>1, SubIsPrefix
    <3>3. e \in Nodes(T) /\ IsPrefix(q, e) /\ e \notin E
      BY NodeAtDef
    <3> HIDE DEF x, e
    <3>4. e \in Seq(K)
      BY <3>3 DEF TreeOK
    <3>5. IsPrefix(x, e)
      BY <3>1, <3>2, <3>3, <3>4, PrefixTrans
    <3>6. x \in P
      BY <1>8, <3>1, <3>3, <3>5
    <3> QED
      BY <3>6 DEF x
  <2>3. Nodes(R) \ {Root} \subseteq Paths(R)
    <3> SUFFICES ASSUME NEW n \in Nodes(T), n \notin E, n # Root PROVE n \in P
      BY <1>2
    <3>1. n \in Paths(T) /\ IsPrefix(n, n)
      BY PrefixRefl DEF TreeOK, TreeShape
    <3> QED
      BY <1>8, <3>1
  <2>4. \A q \in Paths(R) : \E n \in Nodes(R) : IsPrefix(q, n)
    BY <1>2, NodeAtDef
  <2>5. \A m, n \in Nodes(R) : \A k \in 0..Len(m) :
         IsPrefix(SubSeq(m, 1, k), n) =>
           \E c \in Nodes(R) : k <= Len(c) /\ IsPrefix(c, m) /\ IsPrefix(c, n)
    <3> SUFFICES ASSUME NEW m \in Nodes(R), NEW n \in Nodes(R), NEW k \in 0..Len(m),
                        IsPrefix(SubSeq(m, 1, k), n)
                 PROVE  \E c \in Nodes(R) : k <= Len(c) /\ IsPrefix(c, m) /\ IsPrefix(c, n)
      OBVIOUS
    <3>1. PICK c \in Nodes(T) : k <= Len(c) /\ IsPrefix(c, m) /\ IsPrefix(c, n)
      BY <1>2 DEF TreeOK, TreeShape
    <3>2. c \in Nodes(R)
      BY <1>2, <1>4, <3>1
    <3> QED
      BY <3>1, <3>2
  <2> QED
    BY <1>5, <2>1, <2>2, <2>3, <2>4, <2>5, Zenon DEF TreeShape
<1>10. TreeOK(K, V, R)
  BY <1>1, <1>5, <1>6, <1>7, <1>9 DEF TreeOK
<1>11. \A at : LocksCount(T, at) => LocksCount(R, at)
  BY <1>1, <1>2 DEF LocksCount
<1>12. ASSUME NEW n \in Nodes(T), T.lock[n] # 0
       PROVE  /\ n \in Nodes(R)
              /\ \A q \in Paths(T) : IsPrefix(q, n) => q \in Paths(R) /\ R.val[q] = T.val[q]
  <2>1. n \notin E
    BY <1>3, <1>12, Zenon DEF Reclaimable
  <2> QED
    BY <1>1, <1>2, <1>8, <2>1
<1> QED
  BY <1>2, <1>10, <1>11, <1>12 DEF R

-----------------------------------------------------------------------------
(* What insert stores, and the owners of its pages.                        *)

\* The paths insert adds.
NewPaths(T, key) == {SubSeq(key, 1, k) : k \in (MatchLen(T, key) + 1)..Len(key)}

\* insert stores the paths of the key beyond the match, one page for each.
LEMMA InsertIs ==
  ASSUME NEW T, TreeOK(PageKey, Pages, T), NEW key \in Seq(PageKey), NEW pages
  PROVE  LET R == Insert(T, key, pages)
         IN  /\ R.val = [q \in Paths(T) \cup NewPaths(T, key) |->
                           IF q \in Paths(T) THEN T.val[q] ELSE pages[Len(q)]]
             /\ R.evictable = T.evictable + PageSize * (Len(key) - MatchLen(T, key))
             /\ R.protected = T.protected
             /\ \A q \in NewPaths(T, key) :
                  /\ q \in Seq(PageKey) /\ q \notin Paths(T) /\ q # Root /\ q = SubSeq(key, 1, Len(q))
                  /\ Len(q) \in (MatchLen(T, key) + 1)..Len(key) 
<1> DEFINE R == Insert(T, key, pages)
           m == MatchLen(T, key)
           N == NewPaths(T, key)
           S == Split(T, SubSeq(key, 1, m))
<1>1. /\ m \in 0..Len(key)
      /\ \A k \in 1..Len(key) : SubSeq(key, 1, k) \in Paths(T) => k <= m
  BY MatchLenDef, Zenon
<1>2. R = IF m = Len(key) THEN S
          ELSE [val  |-> [q \in Paths(T) \cup N |->
                        IF q \in Paths(T) THEN T.val[q] ELSE pages[Len(q)]],
            lock |-> [n \in Nodes(S) \cup {key} |->
                        IF n = key THEN 0 ELSE S.lock[n]],
            evictable |-> T.evictable + PageSize * (Len(key) - m),
            protected |-> T.protected]
  BY DEF Insert, NewPaths
<1>3. N = {SubSeq(key, 1, k) : k \in (m + 1)..Len(key)}
  BY DEF NewPaths
<1>4. S.val = T.val /\ S.evictable = T.evictable /\ S.protected = T.protected
  <2> DEFINE p == SubSeq(key, 1, m)
             lk == [n \in Nodes(T) \cup {p} |-> IF n = p THEN T.lock[NodeAt(T, p)] ELSE T.lock[n]]
  <2>1. S = IF p \in Nodes(T) THEN T ELSE [T EXCEPT !.lock = lk]
    BY DEF Split
  <2> HIDE DEF p, lk, S
  <2> QED
    BY <2>1 DEF TreeOK
<1> HIDE DEF m, N, R, S
<1>5. ASSUME NEW q \in N
      PROVE  /\ q \in Seq(PageKey) /\ q \notin Paths(T) /\ q # Root /\ q = SubSeq(key, 1, Len(q))
             /\ Len(q) \in (m + 1)..Len(key)
  <2>1. PICK k \in (m + 1)..Len(key) : q = SubSeq(key, 1, k)
    BY <1>3
  <2>2. k \in 1..Len(key) /\ ~(k <= m) /\ k \in 0..Len(key)
    BY <1>1
  <2>3. q \in Seq(PageKey) /\ Len(q) = k
    BY <2>1, <2>2, SubIsPrefix
  <2>4. q # Root
    BY <2>2, <2>3 DEF Root
  <2> QED
    BY <1>1, <2>1, <2>2, <2>3, <2>4
<1>6. CASE m = Len(key)
  <2>1. N = {}
    BY <1>1, <1>3, <1>6
  <2>2. T.val = [q \in Paths(T) |-> T.val[q]] /\ T.evictable \in Int
    BY DEF TreeOK
  <2>3. R.val = [q \in Paths(T) \cup N |-> IF q \in Paths(T) THEN T.val[q] ELSE pages[Len(q)]]
    BY <1>2, <1>4, <1>6, <2>1, <2>2
  <2>4. Len(key) - m = 0 /\ PageSize * 0 = 0
    BY <1>1, <1>6, PageSizeAssumption
  <2>5. R.evictable = T.evictable + PageSize * (Len(key) - m) /\ R.protected = T.protected
    BY <1>2, <1>4, <1>6, <2>2, <2>4
  <2> QED
    BY <1>5, <2>3, <2>5 DEF m, N, R
<1>7. CASE m # Len(key)
  <2>1. /\ R.val = [q \in Paths(T) \cup N |-> IF q \in Paths(T) THEN T.val[q] ELSE pages[Len(q)]]
        /\ R.evictable = T.evictable + PageSize * (Len(key) - m) /\ R.protected = T.protected
    BY <1>2, <1>7
  <2> QED
    BY <1>5, <2>1, Zenon DEF m, N, R
<1> QED
  BY <1>6, <1>7

\* insert takes the pages of the new paths from their request.
Beyond(T, key, pages) == {pages[i] : i \in (MatchLen(T, key) + 1)..Len(key)}

\* The pages stay parted between the free list, the tree and the requests over insert.
LEMMA PartedInsert ==
  ASSUME NEW T, TreeOK(PageKey, Pages, T), NEW f, NEW P, Parted(T, f, P), NEW r \in Reqs,
         NEW key \in Seq(PageKey), NEW pages, Beyond(T, key, pages) \subseteq P[r],
         \A i, j \in (MatchLen(T, key) + 1)..Len(key) : pages[i] = pages[j] => i = j
  PROVE  Parted(Insert(T, key, pages), f, [P EXCEPT ![r] = P[r] \ Beyond(T, key, pages)])
<1> DEFINE R == Insert(T, key, pages)
           N == NewPaths(T, key)
           B == Beyond(T, key, pages)
           m == MatchLen(T, key)
           Q == [P EXCEPT ![r] = P[r] \ B]
<1>0. R.val = [q \in Paths(T) \cup N |-> IF q \in Paths(T) THEN T.val[q] ELSE pages[Len(q)]]
  BY InsertIs
<1>1. \A q \in N : /\ q \notin Paths(T) /\ q = SubSeq(key, 1, Len(q))
                   /\ Len(q) \in (m + 1)..Len(key)
  <2> TAKE q \in N
  <2>1. PICK i \in (m + 1)..Len(key) : q = SubSeq(key, 1, i)
    BY Zenon DEF NewPaths
  <2>2. /\ m \in 0..Len(key)
        /\ \A k \in 1..Len(key) : SubSeq(key, 1, k) \in Paths(T) => k <= m
    BY MatchLenDef, Zenon
  <2>3. i \in 0..Len(key) /\ i \in 1..Len(key) /\ ~(i <= m)
    BY <2>2
  <2>4. Len(SubSeq(key, 1, i)) = i
    BY <2>3, SubIsPrefix
  <2> QED
    BY <2>1, <2>2, <2>3, <2>4
<1>2. \A i \in (m + 1)..Len(key) : \E q \in N : Len(q) = i
  <2>1. N = {SubSeq(key, 1, i) : i \in (m + 1)..Len(key)}
    BY Zenon DEF NewPaths
  <2>2. m \in 0..Len(key)
    BY MatchLenDef
  <2>3. \A i \in (m + 1)..Len(key) : i \in 0..Len(key)
    BY <2>2
  <2>4. \A i \in (m + 1)..Len(key) : Len(SubSeq(key, 1, i)) = i
    BY <2>3, SubIsPrefix, Zenon
  <2> QED
    BY <2>1, <2>4, Zenon
<1>b. /\ \A p \in B : \E i \in (m + 1)..Len(key) : p = pages[i]
      /\ \A i \in (m + 1)..Len(key) : pages[i] \in B
      /\ B \subseteq P[r] /\ \A i, j \in (m + 1)..Len(key) : pages[i] = pages[j] => i = j
  BY Zenon DEF Beyond
<1> HIDE DEF R, N, B, m
<1>3. /\ Paths(R) = Paths(T) \cup N /\ \A q \in Paths(T) : R.val[q] = T.val[q]
      /\ \A q \in N : R.val[q] = pages[Len(q)]
  BY <1>0, <1>1 DEF Paths
<1>4. f \in [Pages -> {0, 1}] /\ P \in [Reqs -> SUBSET Pages]
  BY DEF Parted
<1>5. /\ Q \in [Reqs -> SUBSET Pages] /\ \A s \in Reqs : Q[s] \subseteq P[s]
      /\ \A s \in Reqs : \A p \in P[s] : p \in Q[s] \/ (s = r /\ p \in B)
      /\ Q[r] = P[r] \ B
  BY <1>4, Zenon
<1> HIDE DEF Q
<1>6. \A q \in N : R.val[q] \in B
  BY <1>1, <1>3, <1>b, Zenon
<1>7. \A p \in B : \E q \in N : R.val[q] = p
  BY <1>2, <1>3, <1>b
<1>8. \A p \in B : p \in Pages /\ f[p] = 0 /\ \A q \in Paths(T) : T.val[q] # p
  BY <1>4, <1>b DEF Parted
<1>9. \A s \in Reqs : \A p \in Q[s] : p \notin B
  BY <1>5, <1>b, Zenon DEF Parted
<1>10. \A q \in Paths(R) : /\ R.val[q] \in Pages /\ f[R.val[q]] = 0
                           /\ \A s \in Reqs : R.val[q] \notin Q[s]
  <2>1. ASSUME NEW q \in Paths(T)
        PROVE  /\ R.val[q] \in Pages /\ f[R.val[q]] = 0
               /\ \A s \in Reqs : R.val[q] \notin Q[s]
    BY <1>3, <1>5, Zenon DEF Parted
  <2>2. ASSUME NEW q \in N
        PROVE  /\ R.val[q] \in Pages /\ f[R.val[q]] = 0
               /\ \A s \in Reqs : R.val[q] \notin Q[s]
    BY <1>6, <1>8, <1>9, Zenon
  <2> QED
    BY <1>3, <2>1, <2>2, Zenon
<1>11. ASSUME NEW p \in Paths(R), NEW q \in Paths(R), R.val[p] = R.val[q] PROVE p = q
  <2>1. CASE p \in Paths(T) /\ q \in Paths(T)
    BY <1>3, <1>11, <2>1, Zenon DEF Parted
  <2>2. CASE p \in N /\ q \in N
    <3>1. Len(p) = Len(q)
      BY <1>1, <1>3, <1>11, <1>b, <2>2
    <3> QED
      BY <1>1, <2>2, <3>1, Zenon
  <2>3. CASE p \in N /\ q \in Paths(T)
    BY <1>3, <1>6, <1>8, <1>11, <2>3, Zenon
  <2>4. CASE p \in Paths(T) /\ q \in N
    BY <1>3, <1>6, <1>8, <1>11, <2>4, Zenon
  <2> QED
    BY <1>3, <2>1, <2>2, <2>3, <2>4, Zenon
<1>12. \A s \in Reqs : \A p \in Q[s] : f[p] = 0
  BY <1>5 DEF Parted
<1>13. ASSUME NEW s \in Reqs, NEW t \in Reqs, NEW p \in Q[s], p \in Q[t] PROVE s = t
  BY <1>5, <1>13, Zenon DEF Parted
<1>14. ASSUME NEW p \in Pages
       PROVE  \/ f[p] = 1 \/ \E q \in Paths(R) : R.val[q] = p
              \/ \E s \in Reqs : p \in Q[s]
  <2>1. CASE \E q \in Paths(T) : T.val[q] = p
    BY <1>3, <2>1, Zenon
  <2>2. CASE p \in B
    BY <1>3, <1>7, <2>2, Zenon
  <2>3. CASE \E s \in Reqs : p \in P[s]
    BY <1>5, <2>2, <2>3, Zenon
  <2> QED
    BY <2>1, <2>3, Zenon DEF Parted
<1>15. Parted(R, f, Q)
  BY <1>4, <1>5, <1>10, <1>11, <1>12, <1>13, <1>14 DEF Parted
<1> QED
  BY <1>15, Zenon DEF R, Q, B

-----------------------------------------------------------------------------
(* A row of which pages go to the tree.                                    *)

\* What they rely on: last_node is the key of the matched tokens, prefix_indices passes the
\* match by less than a page (and the partial bigram), and the row has a page per block.
Cuttable(q) ==
  /\ q.ids \in Seq(Nat) /\ q.extra_key \in ExtraKeys /\ q.row \in Seq(Pages)
  /\ q.prefix \in Seq(Pages) /\ q.node \in Seq(PageKey) /\ q.fill \in Nat
  /\ q.matched = Len(q.node) * PageSize /\ q.matched + Shift <= q.fill
  /\ q.node = KeyOf(q, q.matched + Shift)
  /\ q.matched <= Len(q.prefix) /\ Len(q.prefix) < q.matched + PageSize + Shift
  /\ Blocks(q.row, q.matched)

\* old_prefix_len is on the page after the match.
LEMMA OldPrefix ==
  ASSUME NEW q, Cuttable(q)
  PROVE  LET k == Len(q.node)
         IN  /\ k \in Nat /\ k * PageSize \in Nat /\ q.matched = k * PageSize
             /\ OldPrefixLen(q) \in Nat /\ k * PageSize <= OldPrefixLen(q)
             /\ OldPrefixLen(q) < k * PageSize + PageSize
<1>0. q.node \in Seq(PageKey) /\ q.matched = Len(q.node) * PageSize
  BY DEF Cuttable
<1>1. Len(q.node) \in Nat /\ PageSize \in Nat \ {0} /\ Shift = (IF IsEagle THEN 1 ELSE 0)
  BY <1>0, PageSizeAssumption DEF Shift
<1>2. Len(q.node) * PageSize \in Nat /\ q.matched = Len(q.node) * PageSize
  BY <1>0, <1>1
<1>3. /\ q.matched \in Nat /\ Len(q.prefix) \in Nat /\ q.matched <= Len(q.prefix)
      /\ Len(q.prefix) < q.matched + PageSize + Shift
  BY <1>2 DEF Cuttable
<1>4. /\ OldPrefixLen(q) \in Nat /\ q.matched <= OldPrefixLen(q)
      /\ OldPrefixLen(q) < q.matched + PageSize
  BY <1>1, <1>3, ConstantsOK DEF OldPrefixLen
<1> QED
  BY <1>1, <1>2, <1>4, Zenon

\* The node a request holds is a prefix of its longer keys, so they match at least as far.
LEMMA MatchPassesNode ==
  ASSUME NEW T, TreeOK(PageKey, Pages, T), NEW q, Cuttable(q), q.node \in Nodes(T),
         NEW n \in Nat, n <= Len(q.ids), q.matched + Shift <= n
  PROVE  /\ KeyOf(q, n) \in Seq(PageKey)
         /\ MatchLen(T, KeyOf(q, n)) \in Nat /\ Len(KeyOf(q, n)) \in Nat
         /\ Len(q.node) <= MatchLen(T, KeyOf(q, n))
         /\ MatchLen(T, KeyOf(q, n)) <= Len(KeyOf(q, n))
         /\ Len(KeyOf(q, n)) * PageSize <= n
<1> DEFINE key == KeyOf(q, n)
           k == Len(q.node)
<1>1. /\ q.ids \in Seq(Nat) /\ q.extra_key \in ExtraKeys /\ n \in 0..Len(q.ids)
      /\ q.node \in Seq(PageKey) /\ k \in Nat /\ k * PageSize + Shift <= n
      /\ q.node = KeyOf(q, k * PageSize + Shift)
  BY DEF Cuttable
<1>2. key \in Seq(PageKey) /\ Len(key) * PageSize <= n
  BY <1>1, KeyOfType
<1>3. k <= Len(key) /\ q.node = SubSeq(key, 1, k)
  BY <1>1, KeyCut
<1> HIDE DEF key
<1>4. /\ MatchLen(T, key) \in 0..Len(key)
      /\ \A j \in 1..Len(key) : SubSeq(key, 1, j) \in Paths(T) => j <= MatchLen(T, key)
  BY <1>2, MatchLenDef
<1>5. k <= MatchLen(T, key)
  <2>1. CASE k = 0
    BY <1>2, <1>4, <2>1
  <2>2. CASE k # 0
    <3>1. q.node # Root
      BY <2>2 DEF Root
    <3>2. q.node \in Paths(T)
      BY <1>1, <3>1, PrefixRefl, NodePrefixStored
    <3>3. k \in 1..Len(key)
      BY <1>1, <1>2, <1>3, <2>2
    <3> QED
      BY <1>3, <1>4, <3>2, <3>3, Zenon
  <2> QED
    BY <2>1, <2>2
<1>6. MatchLen(T, key) \in Nat /\ MatchLen(T, key) <= Len(key) /\ Len(key) \in Nat
  BY <1>2, <1>4
<1> QED
  BY <1>2, <1>5, <1>6 DEF key

\* The pages a key of a row takes past a match.
LEMMA BeyondIs ==
  ASSUME NEW T, NEW q, NEW key \in Seq(PageKey), MatchLen(T, key) \in Nat
  PROVE  /\ Beyond(T, key, RowPages(q, key))
              = Ends(q.row, MatchLen(T, key), Len(key))
         /\ \A i \in (MatchLen(T, key) + 1)..Len(key) : RowPages(q, key)[i] = q.row[i * PageSize]
<1>1. \A i \in (MatchLen(T, key) + 1)..Len(key) : RowPages(q, key)[i] = q.row[i * PageSize]
  BY DEF RowPages
<1> QED
  BY <1>1 DEF Beyond, Ends

\* The request owns its row past the match.  Once the duplicates are freed and the new
\* pages are in the tree it owns what lies past the key.
LEMMA RowInserted ==
  ASSUME NEW T, TreeOK(PageKey, Pages, T), NEW f, NEW P, Parted(T, f, P), NEW r \in Reqs,
         NEW q, Cuttable(q), q.node \in Nodes(T), P[r] = Slice(q.row, q.matched, Len(q.row)),
         NEW n \in Nat, n <= Len(q.ids), n <= Len(q.row), q.matched + Shift <= n
  PROVE  LET key == KeyOf(q, n)
         IN  Parted(Insert(T, key, RowPages(q, key)),
                    Freed(f, Slice(q.row, OldPrefixLen(q), MatchLen(T, key) * PageSize)),
                    [P EXCEPT ![r] = Slice(q.row, Len(key) * PageSize, Len(q.row))])
<1> DEFINE key == KeyOf(q, n)
           w == q.row
           k == Len(q.node)
           g == MatchLen(T, key)
           h == Len(key)
           old == OldPrefixLen(q)
           pgs == RowPages(q, key)
           A == Slice(w, old, g * PageSize)
           B == Ends(w, g, h)
           X == Slice(w, k * PageSize, Len(w))
           Z == Slice(w, h * PageSize, Len(w))
<1>1. /\ key \in Seq(PageKey) /\ g \in Nat /\ h \in Nat /\ k <= g /\ g <= h
      /\ h * PageSize <= n
  BY MatchPassesNode, Zenon
<1>2. /\ k \in Nat /\ k * PageSize \in Nat /\ q.matched = k * PageSize
      /\ old \in Nat /\ k * PageSize <= old /\ old < k * PageSize + PageSize
  BY OldPrefix, Zenon
<1>3. w \in Seq(Pages) /\ Blocks(w, k * PageSize) /\ Len(w) \in Nat
  BY <1>2 DEF Cuttable
<1> HIDE DEF key, old
<1>4. h * PageSize <= Len(w)
  <2>1. h * PageSize \in Int
    BY <1>1, PageSizeAssumption
  <2>2. n \in Int /\ Len(w) \in Int
    BY <1>3
  <2> QED
    BY <1>1, <2>1, <2>2, AtMost, Zenon
<1> HIDE DEF g, h, k, w
<1>5. /\ X \subseteq Pages /\ A \subseteq X /\ B \subseteq X \ A
      /\ Z = (X \ A) \ B
      /\ \A i, j \in (g + 1)..h : w[i * PageSize] = w[j * PageSize] => i = j
  <2>1. k \in Nat /\ g \in Nat /\ h \in Nat /\ old \in Nat /\ k <= g /\ g <= h
    BY <1>1, <1>2, Zenon
  <2>2. k * PageSize <= old /\ old < k * PageSize + PageSize
    BY <1>2, Zenon
  <2>3. w \in Seq(Pages) /\ Blocks(w, k * PageSize)
    BY <1>3, Zenon
  <2>4. Cuts(w, k, g, h, old)
    BY <1>4, <2>1, <2>2, <2>3, ThreeCuts, Zenon
  <2> QED
    BY <2>4, Zenon DEF Cuts
<1>6. /\ Beyond(T, key, pgs) = B /\ \A i \in (g + 1)..h : pgs[i] = w[i * PageSize]
  BY <1>1, BeyondIs, Zenon DEF g, h, w
<1>7. P[r] = X /\ P \in [Reqs -> SUBSET Pages]
  BY <1>2 DEF Parted, w
<1> HIDE DEF A, B, X, Z, pgs
<1> DEFINE Q == [P EXCEPT ![r] = P[r] \ A]
<1>8. Parted(T, Freed(f, A), Q) /\ Q[r] = X \ A
  BY <1>5, <1>7, PartedFree, Zenon
<1> HIDE DEF Q
<1>9. Beyond(T, key, pgs) \subseteq Q[r]
  BY <1>5, <1>6, <1>8, Zenon
<1>10. \A i, j \in (g + 1)..h : pgs[i] = pgs[j] => i = j
  BY <1>5, <1>6, Zenon
<1>11. Parted(Insert(T, key, pgs), Freed(f, A), [Q EXCEPT ![r] = Q[r] \ Beyond(T, key, pgs)])
  BY <1>1, <1>8, <1>9, <1>10, PartedInsert DEF g, h
<1>12. [Q EXCEPT ![r] = Q[r] \ Beyond(T, key, pgs)] = [P EXCEPT ![r] = Z]
  BY <1>5, <1>6, <1>7, <1>8, Zenon DEF Q
<1>13. Parted(Insert(T, key, pgs), Freed(f, A), [P EXCEPT ![r] = Z])
  BY <1>11, <1>12, Zenon
<1> QED
  BY <1>13, Zenon DEF key, pgs, A, Z, w, old, g, h

\* cache_finished_req leaves no page with the request: duplicates are freed, the keyed rest
\* goes to the tree, and so does the tail to the free list.
LEMMA FinishedParted ==
  ASSUME NEW T, TreeOK(PageKey, Pages, T), NEW f, NEW P, Parted(T, f, P), NEW r \in Reqs,
         NEW q, Cuttable(q), q.node \in Nodes(T), q.fill <= Len(q.row),
         P[r] = Slice(q.row, q.matched, Len(q.row)),
         NEW ins \in BOOLEAN, ins => Len(q.row) <= Len(q.ids),
         NEW c, c = CacheFinished(T, f, q, ins)
  PROVE  Parted(c.tree, c.free, [P EXCEPT ![r] = {}])
<1> DEFINE n == Len(q.row)
           a == (n - Shift) \div PageSize
           key == KeyOf(q, n)
           old == OldPrefixLen(q)
           g == IF ins THEN MatchLen(T, key) ELSE a
           S == IF ins THEN Insert(T, key, RowPages(q, key)) ELSE T
           A == Slice(q.row, old, g * PageSize)
           Z == Slice(q.row, a * PageSize, n)
           Q == [P EXCEPT ![r] = Z]
<1>1. c.tree = DecLockRef(S, q.node) /\ c.free = Freed(Freed(f, A), Z)
  BY Zenon DEF CacheFinished, AlignedLen
<1>2. c.tree.val = S.val
  <2> HIDE DEF S, A, Z, Q
  <2> QED
    BY <1>1 DEF DecLockRef
<1>3. /\ q.row \in Seq(Pages) /\ n \in Nat /\ Shift \in 0..1 /\ q.fill \in Nat
      /\ q.matched + Shift <= q.fill /\ q.fill <= n
  BY DEF Cuttable, Shift
<1>4. /\ Len(q.node) \in Nat /\ Len(q.node) * PageSize \in Nat
      /\ q.matched = Len(q.node) * PageSize
      /\ old \in Nat /\ Len(q.node) * PageSize <= old
      /\ old < Len(q.node) * PageSize + PageSize
  BY OldPrefix, Zenon
<1>5. q.matched + Shift <= n /\ Shift <= n
  BY <1>3, <1>4
<1>6. P \in [Reqs -> SUBSET Pages] /\ P[r] \in SUBSET Pages
  BY DEF Parted
<1>7. Parted(S, Freed(f, A), Q)
  <2>1. CASE ins
    <3>1. Parted(Insert(T, key, RowPages(q, key)),
                 Freed(f, Slice(q.row, OldPrefixLen(q), MatchLen(T, key) * PageSize)),
                 [P EXCEPT ![r] = Slice(q.row, Len(key) * PageSize, Len(q.row))])
      <4>1. n <= Len(q.ids) /\ n <= Len(q.row)
        <5>1. n <= n
          BY <1>3
        <5> QED
          BY <2>1, <5>1, Zenon
      <4> QED
        BY <1>3, <1>5, <4>1, RowInserted, Zenon
    <3>2. Len(key) = a
      <4> DEFINE k == Len(q.node)
      <4>1. /\ q.ids \in Seq(Nat) /\ q.extra_key \in ExtraKeys /\ n \in 0..Len(q.ids)
        BY <1>3, <2>1 DEF Cuttable
      <4>2. k \in Nat /\ k * PageSize + Shift <= n
        BY <1>4, <1>5
      <4> QED
        BY <4>1, <4>2, KeyCut
    <3> HIDE DEF key, a
    <3> QED
      BY <2>1, <3>1, <3>2
  <2>2. CASE ~ins
    <3> DEFINE k == Len(q.node)
               w == q.row
               X == Slice(w, k * PageSize, n)
    <3>1. /\ a \in Int /\ a * PageSize <= n - Shift /\ n - Shift < a * PageSize + PageSize
      BY <1>3, DivPage
    <3> HIDE DEF a
    <3>2. a * PageSize \in Int /\ (a < k => a * PageSize + PageSize <= k * PageSize)
      <4>1. k \in Int
        BY <1>4
      <4> QED
        BY <3>1, <4>1, Apage, Zenon
    <3>3. k <= a /\ a \in Nat /\ a * PageSize <= n
      <4> DEFINE ad == a * PageSize
                 kd == k * PageSize
      <4>1. /\ ad \in Int /\ kd \in Nat /\ (a < k => ad + PageSize <= kd) /\ kd + Shift <= n
            /\ n - Shift < ad + PageSize /\ ad <= n - Shift
        BY <1>4, <1>5, <3>1, <3>2
      <4>2. k \in Nat /\ a \in Int
        BY <1>4, <3>1
      <4> HIDE DEF ad, kd, k
      <4>3. k <= a /\ a \in Nat /\ ad <= n
        BY <1>3, <4>1, <4>2, PageSizeAssumption
      <4> QED
        BY <4>3 DEF ad
    <3>4. Blocks(w, k * PageSize)
      BY <1>4 DEF Cuttable
    <3>5. w \in Seq(Pages) /\ k \in Nat /\ n = Len(w)
      BY <1>3, <1>4, Zenon
    <3> HIDE DEF k, w, old, n
    <3>6. /\ A \subseteq X /\ Z = (X \ A) \ Ends(w, a, a)
      <4>1. a <= a
        BY <3>3
      <4>2. old \in Nat /\ k * PageSize <= old /\ old < k * PageSize + PageSize
        BY <1>4 DEF k
      <4>3. a * PageSize <= Len(w)
        BY <3>3, <3>5, Zenon
      <4>4. /\ Slice(w, old, a * PageSize) \subseteq Slice(w, k * PageSize, Len(w))
            /\ Slice(w, a * PageSize, Len(w))
                 = (Slice(w, k * PageSize, Len(w)) \ Slice(w, old, a * PageSize)) \ Ends(w, a, a)
        <5>1. Cuts(w, k, a, a, old)
          BY <3>3, <3>4, <3>5, <4>1, <4>2, <4>3, ThreeCuts, Zenon
        <5> QED
          BY <5>1, Zenon DEF Cuts
      <4> QED
        BY <2>2, <3>5, <4>4 DEF w
    <3>7. Ends(w, a, a) = {}
      <4>1. (a + 1)..a = {}
        BY <3>3
      <4> QED
        BY <4>1 DEF Ends
    <3>8. P[r] = X
      BY <1>4, <3>5 DEF k, w
    <3> HIDE DEF A, Z, X
    <3>9. Parted(T, Freed(f, A), [P EXCEPT ![r] = P[r] \ A])
      BY <3>6, <3>8, PartedFree
    <3>10. [P EXCEPT ![r] = P[r] \ A] = Q
      BY <3>6, <3>7, <3>8
    <3> QED
      BY <2>2, <3>9, <3>10
  <2> QED
    BY <2>1, <2>2
<1> HIDE DEF n, a, key, old, g, S, A, Z
<1>8. Q[r] = Z
  BY <1>6
<1>9. [Q EXCEPT ![r] = Q[r] \ Z] = [P EXCEPT ![r] = {}]
  BY <1>6, Zenon
<1> HIDE DEF Q
<1>10. Parted(S, Freed(Freed(f, A), Z), [Q EXCEPT ![r] = Q[r] \ Z])
  BY <1>7, <1>8, PartedFree
<1> QED
  BY <1>1, <1>2, <1>9, <1>10, PartedSame

-----------------------------------------------------------------------------
(* A tree with its lock holders, and what tree operations do to the pair.  *)

LockedTree(T, at) ==
  /\ TreeOK(PageKey, Pages, T)
  /\ IsFiniteSet(DOMAIN at)
  /\ \A r \in DOMAIN at : at[r] \in Nodes(T)
  /\ LocksCount(T, at)

\* Every holder's path keeps its pages from T to R.
Keeps(T, R, at) ==
  \A r \in DOMAIN at : \A q \in Paths(T) : IsPrefix(q, at[r]) =>
    q \in Paths(R) /\ R.val[q] = T.val[q]

\* Keeping the held pages composes.
LEMMA KeepsTrans ==
  ASSUME NEW T, NEW R, NEW S, NEW at, Keeps(T, R, at), Keeps(R, S, at)
  PROVE  Keeps(T, S, at)
BY Zenon DEF Keeps

\* match_prefix, by its split, keeps lock_ref exact and the held pages in place.
LEMMA SplitStep ==
  ASSUME NEW T, NEW at, LockedTree(T, at), NEW q \in Paths(T) \cup {Root}
  PROVE  LockedTree(Split(T, q), at) /\ Keeps(T, Split(T, q), at) /\ q \in Nodes(Split(T, q))
<1>1. /\ TreeOK(PageKey, Pages, Split(T, q)) /\ Nodes(Split(T, q)) = Nodes(T) \cup {q}
      /\ Split(T, q).val = T.val
  BY SplitTree DEF LockedTree
<1>2. LocksCount(Split(T, q), at)
  BY SplitLocks DEF LockedTree
<1> QED
  BY <1>1, <1>2, Zenon DEF LockedTree, Keeps, Paths

\* insert keeps lock_ref exact and the held pages in place.
LEMMA InsertStep ==
  ASSUME NEW T, NEW at, LockedTree(T, at), NEW key \in Seq(PageKey),
         NEW pages \in [1..Len(key) -> Pages]
  PROVE  /\ LockedTree(Insert(T, key, pages), at) /\ Keeps(T, Insert(T, key, pages), at)
         /\ key \in Nodes(Insert(T, key, pages))
<1> DEFINE R == Insert(T, key, pages)
<1>1. /\ TreeOK(PageKey, Pages, R) /\ Nodes(T) \cup {key} \subseteq Nodes(R)
      /\ Paths(T) \subseteq Paths(R) /\ \A q \in Paths(T) : R.val[q] = T.val[q]
      /\ LocksCount(R, at)
  BY InsertTree DEF LockedTree
<1> HIDE DEF R
<1>2. LockedTree(R, at) /\ Keeps(T, R, at) /\ key \in Nodes(R)
  BY <1>1 DEF LockedTree, Keeps
<1> QED
  BY <1>2 DEF R

\* inc_lock_ref for a request that becomes a holder.
LEMMA IncStep ==
  ASSUME NEW T, NEW at, LockedTree(T, at), NEW n \in Nodes(T), NEW at2, NEW r,
         Joins(at, at2, r, n)
  PROVE  LockedTree(IncLockRef(T, n), at2) /\ Keeps(T, IncLockRef(T, n), at)
<1> DEFINE R == IncLockRef(T, n)
<1>1. TreeOK(PageKey, Pages, R) /\ Nodes(R) = Nodes(T) /\ R.val = T.val
  BY IncLockKeeps DEF LockedTree
<1>2. LocksCount(R, at2)
  BY IncLocks DEF LockedTree
<1> HIDE DEF R
<1>3. IsFiniteSet(DOMAIN at2)
  BY FS_AddElement DEF Joins
<1>4. LockedTree(R, at2) /\ Keeps(T, R, at)
  BY <1>1, <1>2, <1>3 DEF LockedTree, Keeps, Joins, Paths
<1> QED
  BY <1>4 DEF R

\* dec_lock_ref for a holder that leaves.
LEMMA DecStep ==
  ASSUME NEW T, NEW at, NEW at2, NEW r, NEW n, LockedTree(T, at2), Joins(at, at2, r, n)
  PROVE  /\ LockedTree(DecLockRef(T, n), at)
         /\ Nodes(DecLockRef(T, n)) = Nodes(T) /\ DecLockRef(T, n).val = T.val
<1> DEFINE R == DecLockRef(T, n)
<1>0. n \in Nodes(T)
  BY DEF LockedTree, Joins
<1>1. TreeOK(PageKey, Pages, R) /\ Nodes(R) = Nodes(T) /\ R.val = T.val
  BY <1>0, DecLockKeeps DEF LockedTree
<1>2. LocksCount(R, at)
  BY <1>0, DecLocks DEF LockedTree
<1> HIDE DEF R
<1>3. LockedTree(R, at)
  BY <1>1, <1>2 DEF LockedTree, Joins
<1> QED
  BY <1>1, <1>3 DEF R

\* A held node is locked.
LEMMA HeldIsLocked ==
  ASSUME NEW T, NEW at, LockedTree(T, at), NEW r \in DOMAIN at
  PROVE  T.lock[at[r]] # 0
<1> DEFINE n == at[r]
           H == {s \in DOMAIN at : IsPrefix(n, at[s])}
<1>1. n \in Nodes(T) /\ n \in Seq(PageKey)
  BY DEF LockedTree, TreeOK
<1>2. CASE n = Root
  BY <1>2 DEF LockedTree, TreeOK
<1>3. CASE n # Root
  <2>1. r \in H
    BY <1>1, PrefixRefl
  <2>2. IsFiniteSet(H)
    BY FS_Subset, H \subseteq DOMAIN at DEF LockedTree
  <2>3. T.lock[n] = Cardinality(H)
    BY <1>1, <1>3 DEF LockedTree, LocksCount
  <2> HIDE DEF H
  <2>4. Cardinality(H) # 0
    BY <2>1, <2>2, FS_EmptySet
  <2> QED
    BY <2>3, <2>4
<1> QED
  BY <1>2, <1>3

\* evict_from_tree_cache: whatever set of nodes goes, lock_ref stays exact and the held
\* pages stay.
LEMMA EvictStep ==
  ASSUME NEW T, NEW at, LockedTree(T, at), NEW f, NEW num, NEW E \in Evictions(T, f, num)
  PROVE  LockedTree(Delete(T, E), at) /\ Keeps(T, Delete(T, E), at)
<1> DEFINE R == Delete(T, E)
<1>1. E \in SUBSET Reclaimable(T) /\ \A n \in E : Below(T, n) \subseteq E
  BY Zenon DEF Evictions, EvictChoices
<1>2. /\ TreeOK(PageKey, Pages, R) /\ LocksCount(R, at)
      /\ \A n \in Nodes(T) : T.lock[n] # 0 =>
              /\ n \in Nodes(R)
              /\ \A q \in Paths(T) : IsPrefix(q, n) => q \in Paths(R) /\ R.val[q] = T.val[q]
  BY <1>1, DeleteTree, Zenon DEF LockedTree
<1> HIDE DEF R
<1>3. \A r \in DOMAIN at : at[r] \in Nodes(T) /\ T.lock[at[r]] # 0
  BY HeldIsLocked, Zenon DEF LockedTree
<1>4. LockedTree(R, at) /\ Keeps(T, R, at)
  BY <1>2, <1>3 DEF LockedTree, Keeps
<1> QED
  BY <1>4 DEF R

\* The slots the tree hands out for a node are pages.
LEMMA IndicesType ==
  ASSUME NEW T, TreeOK(PageKey, Pages, T), NEW path \in Nodes(T)
  PROVE  Indices(T, path) \in Seq(Pages) /\ Len(Indices(T, path)) = Len(path) * PageSize
<1>1. path \in Seq(PageKey)
  BY DEF TreeOK
<1>2. Len(path) * PageSize \in Nat
  BY <1>1, PageSizeAssumption
<1>3. ASSUME NEW i \in 1..(Len(path) * PageSize)
      PROVE  T.val[SubSeq(path, 1, (i - 1) \div PageSize + 1)] \in Pages
  <2> DEFINE j == (i - 1) \div PageSize + 1
             x == SubSeq(path, 1, j)
  <2>1. j \in 1..Len(path)
    BY <1>1, PageOfPosition
  <2> HIDE DEF j
  <2>2. x \in Seq(PageKey) /\ IsPrefix(x, path) /\ Len(x) = j
    BY <1>1, <2>1, SubIsPrefix
  <2> HIDE DEF x
  <2>3. x # Root
    BY <2>1, <2>2 DEF Root
  <2>4. x \in Paths(T)
    BY <2>2, <2>3, NodePrefixStored
  <2>5. T.val[x] \in Pages
    BY <2>4 DEF TreeOK
  <2> QED
    BY <2>5 DEF x, j
<1> DEFINE n == Len(path) * PageSize
           v(i) == T.val[SubSeq(path, 1, (i - 1) \div PageSize + 1)]
<1>4. Indices(T, path) = [i \in 1..n |-> v(i)]
  BY DEF Indices
<1> HIDE DEF n, v
<1>5. n \in Nat /\ \A i \in 1..n : v(i) \in Pages
  BY <1>2, <1>3 DEF n, v
<1> QED
  BY <1>4, <1>5 DEF n

-----------------------------------------------------------------------------
(* cache_unfinished_req and cache_finished_req.                            *)

\* cache_unfinished_req changes these fields of the request.
Recache(q, w, m, x, n) == [q EXCEPT !.row = w, !.matched = m, !.prefix = x, !.node = n]

\* The other fields, and the types, stay.
LEMMA Recached ==
  ASSUME NEW q \in Request, NEW w \in Seq(Pages), NEW m \in Nat, NEW x \in Seq(Pages),
         NEW n \in Seq(PageKey)
  PROVE  LET c == Recache(q, w, m, x, n)
         IN  /\ c \in Request /\ c.row = w /\ c.node = n /\ c.phase = q.phase
             /\ c.ids = q.ids /\ c.fill = q.fill /\ c.pend = q.pend
BY Zenon DEF Request, Recache

\* Holder r moves to node n.
Moved(at, at3, r, n) ==
  /\ DOMAIN at3 = DOMAIN at /\ at3[r] = n
  /\ \A s \in DOMAIN at : s # r => at3[s] = at[s]

\* Moving is leaving and joining.
LEMMA Unjoined ==
  ASSUME NEW at, NEW r \in DOMAIN at, IsFiniteSet(DOMAIN at), NEW n, NEW at3,
         Moved(at, at3, r, n)
  PROVE  \E at0 : Joins(at0, at, r, at[r]) /\ Joins(at0, at3, r, n)
<1> DEFINE at0 == [s \in DOMAIN at \ {r} |-> at[s]]
<1>1. IsFiniteSet(DOMAIN at \ {r})
  BY FS_Subset, Zenon
<1>2. Joins(at0, at, r, at[r]) /\ Joins(at0, at3, r, n)
  BY <1>1, Zenon DEF Joins, Moved
<1> QED
  BY <1>2

\* What cache_unfinished_req leaves of a request as it was.
SameBut(p, q) ==
  /\ Len(p.row) = Len(q.row) /\ p.phase = q.phase
  /\ p.ids = q.ids /\ p.fill = q.fill /\ p.pend = q.pend

\* cache_unfinished_req: the request's lock moves from its old node to the end of its
\* key; counts stay exact and no holder's pages change.
LEMMA CacheUnfinishedStep ==
  ASSUME NEW T, NEW f \in [Pages -> Nat], NEW q \in Request, NEW at, NEW r \in DOMAIN at,
         LockedTree(T, at), at[r] = q.node, q.fill <= Len(q.ids), q.fill <= Len(q.row),
         NEW c, c = CacheUnfinished(T, f, q)
  PROVE  /\ \A at3 : Moved(at, at3, r, c.req.node) => LockedTree(c.tree, at3)
         /\ Keeps(T, c.tree, at)
         /\ c.free \in [Pages -> Nat]
         /\ c.req \in Request /\ SameBut(c.req, q)
<1> DEFINE key == KeyOf(q, q.fill)
           old == OldPrefixLen(q)
           new == MatchLen(T, key) * PageSize
           pgs == RowPages(q, key)
           S   == Insert(T, key, pgs)
           idx == Indices(S, key)
           w   == [i \in DOMAIN q.row |-> IF i > old /\ i <= Len(idx) THEN idx[i] ELSE q.row[i]]
           x   == idx \o SubSeq(q.row, Len(idx) + 1, q.fill)
<1>1. /\ c.tree = IncLockRef(DecLockRef(S, q.node), key)
      /\ c.free = Freed(f, Slice(q.row, old, new))
      /\ c.req = Recache(q, w, Len(idx), x, key)
  BY DEF CacheUnfinished, Recache
<1>2. /\ q.ids \in Seq(Nat) /\ q.extra_key \in ExtraKeys /\ q.row \in Seq(Pages)
      /\ q.fill \in Nat
  BY Zenon DEF Request
<1>3. key \in Seq(PageKey) /\ Len(key) * PageSize <= q.fill
  BY <1>2, KeyOfType
<1> HIDE DEF key
<1>4. pgs \in [1..Len(key) -> Pages]
  <2>1. Len(key) * PageSize <= Len(q.row)
    BY <1>2, <1>3, PageSizeAssumption
  <2> QED
    BY <1>2, <1>3, <2>1, RowPagesType, Zenon
<1> HIDE DEF pgs, old, new
<1>5. LockedTree(S, at) /\ Keeps(T, S, at) /\ key \in Nodes(S)
  BY <1>3, <1>4, InsertStep, Zenon
<1> HIDE DEF S
<1>6. idx \in Seq(Pages) /\ Len(idx) = Len(key) * PageSize
  BY <1>5, IndicesType, Zenon DEF LockedTree
<1> HIDE DEF idx
<1>7. w \in Seq(Pages) /\ Len(w) = Len(q.row)
  <2>1. \A i \in 1..Len(q.row) :
           (IF i > old /\ i <= Len(idx) THEN idx[i] ELSE q.row[i]) \in Pages
    BY <1>2, <1>6
  <2>2. DOMAIN q.row = 1..Len(q.row) /\ Len(q.row) \in Nat
    BY <1>2
  <2> QED
    BY <2>1, <2>2
<1>8. x \in Seq(Pages)
  <2>1. Len(idx) \in Nat
    BY <1>6
  <2>2. SubSeq(q.row, Len(idx) + 1, q.fill) \in Seq(Pages)
    BY <1>2, <2>1, Rest, Zenon
  <2> QED
    BY <1>6, <2>2
<1> HIDE DEF w, x
<1>9. /\ c.req \in Request /\ c.req.row = w /\ c.req.node = key /\ c.req.phase = q.phase
      /\ c.req.ids = q.ids /\ c.req.fill = q.fill /\ c.req.pend = q.pend
  <2>1. Len(idx) \in Nat
    BY <1>6
  <2> QED
    BY <1>1, <1>3, <1>7, <1>8, <2>1, Recached
<1> DEFINE D == DecLockRef(S, q.node)
<1>10. TreeOK(PageKey, Pages, D) /\ Nodes(D) = Nodes(S) /\ D.val = S.val
  <2>1. TreeOK(PageKey, Pages, S) /\ q.node \in Nodes(S)
    BY <1>5, Zenon DEF LockedTree
  <2> QED
    BY <2>1, DecLockKeeps, Zenon
<1>11. ASSUME NEW at3, Moved(at, at3, r, key) PROVE LockedTree(c.tree, at3)
  <2>1. PICK at0 : Joins(at0, at, r, q.node) /\ Joins(at0, at3, r, key)
    BY <1>11, Unjoined, Zenon DEF LockedTree
  <2>2. LockedTree(D, at0)
    BY <1>5, <2>1, DecStep, Zenon
  <2> HIDE DEF D
  <2>3. key \in Nodes(D)
    BY <1>5, <1>10, Zenon
  <2>4. LockedTree(IncLockRef(D, key), at3)
    BY <2>1, <2>2, <2>3, IncStep, Zenon
  <2> QED
    BY <1>1, <2>4, Zenon DEF D
<1> HIDE DEF D
<1>12. c.tree.val = S.val
  <2>1. key \in Nodes(D)
    BY <1>5, <1>10
  <2>2. c.tree = IncLockRef(D, key)
    BY <1>1, Zenon DEF D
  <2>3. IncLockRef(D, key).val = D.val
    <3>1. TreeOK(PageKey, Pages, D)
      BY <1>10, Zenon
    <3> QED
      BY <2>1, <3>1, IncLockKeeps, Zenon
  <2> QED
    BY <1>10, <2>2, <2>3, Zenon
<1>13. \A at3 : Moved(at, at3, r, c.req.node) => LockedTree(c.tree, at3)
  BY <1>9, <1>11, Zenon
<1>14. Keeps(T, c.tree, at)
  BY <1>5, <1>12, Zenon DEF Keeps, Paths
<1>15. c.free \in [Pages -> Nat]
  <2>1. \A A : Freed(f, A) \in [Pages -> Nat]
    BY FreeType, Zenon
  <2> QED
    BY <1>1, <2>1, Zenon
<1>16. SameBut(c.req, q)
  BY <1>7, <1>9, Zenon DEF SameBut
<1> QED
  BY <1>7, <1>9, <1>13, <1>14, <1>15, <1>16, Zenon

\* cache_finished_req: the request's lock goes, the other locks and their pages stay.
LEMMA CacheFinishedStep ==
  ASSUME NEW T, NEW f \in [Pages -> Nat], NEW q, NEW at, NEW at2, NEW r,
         LockedTree(T, at2), Joins(at, at2, r, q.node),
         q.ids \in Seq(Nat), q.extra_key \in ExtraKeys, q.row \in Seq(Pages),
         NEW is_insert \in BOOLEAN, is_insert => Len(q.row) <= Len(q.ids),
         NEW c, c = CacheFinished(T, f, q, is_insert)
  PROVE  LockedTree(c.tree, at) /\ Keeps(T, c.tree, at) /\ c.free \in [Pages -> Nat]
<1> DEFINE key == KeyOf(q, Len(q.row))
           pgs == RowPages(q, key)
           S   == IF is_insert THEN Insert(T, key, pgs) ELSE T
<1>1. c.tree = DecLockRef(S, q.node)
  BY DEF CacheFinished
<1>2. c.free \in [Pages -> Nat]
  BY FreeType, Zenon DEF CacheFinished
<1>3. LockedTree(S, at2) /\ Keeps(T, S, at2)
  <2>1. CASE is_insert
    <3>1. key \in Seq(PageKey) /\ Len(key) * PageSize <= Len(q.row)
      BY <2>1, KeyOfType
    <3> HIDE DEF key
    <3>2. pgs \in [1..Len(key) -> Pages]
      BY <3>1, RowPagesType
    <3> HIDE DEF pgs
    <3> QED
      BY <2>1, <3>1, <3>2, InsertStep
  <2>2. CASE ~is_insert
    BY <2>2 DEF Keeps
  <2> QED
    BY <2>1, <2>2
<1> HIDE DEF S
<1> DEFINE D == DecLockRef(S, q.node)
<1>4. LockedTree(D, at) /\ D.val = S.val
  BY <1>3, DecStep, Zenon
<1>5. Keeps(T, c.tree, at)
  BY <1>1, <1>3, <1>4 DEF Keeps, Joins, Paths
<1> QED
  BY <1>1, <1>2, <1>4, <1>5, Zenon

-----------------------------------------------------------------------------
(* cache_unfinished_req on the pages of a row.                             *)

\* cache_unfinished_req, field by field: c is what it makes of tree T, free lists f and
\* request q.
Unfinished(T, f, q, c) ==
  LET key == KeyOf(q, q.fill)
      L == Len(key) * PageSize
      S == Insert(T, key, RowPages(q, key))
  IN  /\ c.tree.val = S.val
      /\ c.free = Freed(f, Slice(q.row, OldPrefixLen(q), MatchLen(T, key) * PageSize))
      /\ c.req.node = key /\ c.req.matched = L /\ L \in Nat /\ q.matched <= L
      /\ L + Shift <= q.fill /\ q.fill < L + PageSize + Shift
      /\ c.req.prefix \in Seq(Pages) /\ Len(c.req.prefix) = q.fill
      /\ \A i \in 1..q.fill : c.req.prefix[i] =
           IF i <= L THEN S.val[SubSeq(key, 1, Block(i) + 1)] ELSE q.row[i]
      /\ c.req.row \in Seq(Pages) /\ Len(c.req.row) = Len(q.row)
      /\ \A i \in 1..Len(q.row) : c.req.row[i] =
           IF i > OldPrefixLen(q) /\ i <= L THEN S.val[SubSeq(key, 1, Block(i) + 1)]
                                           ELSE q.row[i]
      /\ c.req.ids = q.ids /\ c.req.extra_key = q.extra_key /\ c.req.phase = q.phase
      /\ c.req.fill = q.fill /\ c.req.pend = q.pend

\* cache_unfinished_req does what Unfinished says.
LEMMA UnfinishedIs ==
  ASSUME NEW T, TreeOK(PageKey, Pages, T), NEW f, NEW q \in Request, Cuttable(q),
         q.node \in Nodes(T), q.fill <= Len(q.ids), q.fill <= Len(q.row)
  PROVE  Unfinished(T, f, q, CacheUnfinished(T, f, q))
<1> DEFINE c == CacheUnfinished(T, f, q)
           key == KeyOf(q, q.fill)
           L == Len(key) * PageSize
           old == OldPrefixLen(q)
           pgs == RowPages(q, key)
           S == Insert(T, key, pgs)
           idx == Indices(S, key)
           w == [i \in DOMAIN q.row |-> IF i > old /\ i <= Len(idx) THEN idx[i] ELSE q.row[i]]
           x == idx \o SubSeq(q.row, Len(idx) + 1, q.fill)
<1>1. /\ c.tree = IncLockRef(DecLockRef(S, q.node), key)
      /\ c.free = Freed(f, Slice(q.row, old, MatchLen(T, key) * PageSize))
      /\ c.req = Recache(q, w, Len(idx), x, key)
  BY Zenon DEF CacheUnfinished, Recache
<1>2. /\ q.ids \in Seq(Nat) /\ q.extra_key \in ExtraKeys /\ q.row \in Seq(Pages)
      /\ q.fill \in Nat /\ q.fill \in 0..Len(q.ids) /\ Len(q.row) \in Nat
      /\ DOMAIN q.row = 1..Len(q.row)
  BY DEF Request
<1>3. key \in Seq(PageKey) /\ Len(key) \in Nat
  BY <1>2, KeyOfType
<1>4. L + Shift <= q.fill /\ q.fill < L + PageSize + Shift /\ q.matched <= L
  <2> DEFINE k == Len(q.node)
  <2>1. /\ k \in Nat /\ q.matched = k * PageSize /\ k * PageSize + Shift <= q.fill
    BY DEF Cuttable
  <2>2. /\ k <= Len(key) /\ L + Shift <= q.fill /\ q.fill < L + PageSize + Shift
    BY <1>2, <2>1, KeyCut, Zenon
  <2> HIDE DEF key, k
  <2>3. k * PageSize <= L
    <3>1. k \in Int /\ Len(key) \in Int
      BY <1>3, <2>1
    <3>2. k * PageSize \in Int /\ L \in Int /\ (k < Len(key) => k * PageSize + PageSize <= L)
      BY <3>1, Apage, Zenon
    <3> QED
      BY <2>1, <2>2, <3>1, <3>2, PageSizeAssumption
  <2> QED
    BY <2>1, <2>2, <2>3
<1> HIDE DEF key, old
<1>5. L \in Nat /\ Shift \in Nat
  BY <1>3, PageSizeAssumption DEF Shift
<1>6. pgs \in [1..Len(key) -> Pages]
  <2>1. L <= Len(q.row)
    <3> HIDE DEF L
    <3> QED
      BY <1>2, <1>4, <1>5
  <2> QED
    BY <1>2, <1>3, <2>1, RowPagesType, Zenon
<1> HIDE DEF pgs
<1>7. TreeOK(PageKey, Pages, S) /\ key \in Nodes(S)
  BY <1>3, <1>6, InsertTree
<1>8. c.tree.val = S.val
  <2>1. IncLockRef(DecLockRef(S, q.node), key).val = DecLockRef(S, q.node).val
    BY Zenon DEF IncLockRef
  <2>2. DecLockRef(S, q.node).val = S.val
    BY DEF DecLockRef
  <2> QED
    BY <1>1, <2>1, <2>2, Zenon
<1> HIDE DEF S
<1>9. idx \in Seq(Pages) /\ Len(idx) = L
  BY <1>7, IndicesType
<1>10. \A i \in 1..L : idx[i] = S.val[SubSeq(key, 1, Block(i) + 1)]
  BY Zenon DEF Indices, Block
<1> HIDE DEF idx
<1>11. w \in Seq(Pages) /\ Len(w) = Len(q.row)
  <2>1. \A i \in 1..Len(q.row) :
           (IF i > old /\ i <= Len(idx) THEN idx[i] ELSE q.row[i]) \in Pages
    BY <1>2, <1>9
  <2> QED
    BY <1>2, <2>1
<1>12. \A i \in 1..Len(q.row) : w[i] =
         IF i > old /\ i <= L THEN S.val[SubSeq(key, 1, Block(i) + 1)] ELSE q.row[i]
  <2> TAKE i \in 1..Len(q.row)
  <2>1. w[i] = IF i > old /\ i <= L THEN idx[i] ELSE q.row[i]
    BY <1>2, <1>9, Zenon
  <2> HIDE DEF w
  <2>2. i <= L => i \in 1..L
    BY <1>5
  <2> QED
    BY <1>10, <2>1, <2>2, Zenon
<1> HIDE DEF L
<1>13. x \in Seq(Pages) /\ Len(x) = q.fill /\ \A i \in 1..q.fill : x[i] =
         IF i <= L THEN S.val[SubSeq(key, 1, Block(i) + 1)] ELSE q.row[i]
  <2>1. Len(idx) <= q.fill
    BY <1>2, <1>4, <1>5, <1>9
  <2>2. /\ x \in Seq(Pages) /\ Len(x) = q.fill
        /\ \A i \in 1..q.fill : x[i] = IF i <= Len(idx) THEN idx[i] ELSE q.row[i]
    <3> DEFINE s == idx
               v == q.row
               n == q.fill
    <3>1. s \in Seq(Pages) /\ v \in Seq(Pages) /\ n \in Nat /\ Len(s) <= n /\ n <= Len(v)
      BY <1>2, <1>9, <2>1, Zenon
    <3> HIDE DEF s, v, n
    <3>2. /\ Continue(s, v, n) \in Seq(Pages) /\ Len(Continue(s, v, n)) = n
          /\ \A i \in 1..n : Continue(s, v, n)[i] = IF i <= Len(s) THEN s[i] ELSE v[i]
      BY <3>1, Continued
    <3>3. x = Continue(s, v, n)
      BY DEF Continue, s, v, n
    <3> HIDE DEF x
    <3> QED
      BY <3>2, <3>3, Zenon DEF s, v, n
  <2> HIDE DEF x
  <2>3. \A i \in 1..q.fill : i <= L => i \in 1..L
    BY <1>5
  <2> QED
    BY <1>9, <1>10, <2>2, <2>3, Zenon
<1> HIDE DEF w, x
<1>14. /\ c.req.row = w /\ c.req.matched = Len(idx) /\ c.req.prefix = x /\ c.req.node = key
       /\ c.req.ids = q.ids /\ c.req.extra_key = q.extra_key /\ c.req.phase = q.phase
       /\ c.req.fill = q.fill /\ c.req.pend = q.pend
  BY <1>1 DEF Recache, Request
<1> HIDE DEF c
<1> QED
  BY <1>1, <1>4, <1>5, <1>8, <1>9, <1>11, <1>12, <1>13, <1>14, Zenon
     DEF c, key, L, old, pgs, S, Unfinished

\* After cache_unfinished_req the request owns what its row has past the new match.
LEMMA UnfinishedParted ==
  ASSUME NEW T, TreeOK(PageKey, Pages, T), NEW f, NEW P, Parted(T, f, P), NEW r \in Reqs,
         NEW q \in Request, Cuttable(q), q.node \in Nodes(T), q.fill <= Len(q.ids),
         q.fill <= Len(q.row), P[r] = Slice(q.row, q.matched, Len(q.row)),
         NEW c, c = CacheUnfinished(T, f, q)
  PROVE  Parted(c.tree, c.free, [P EXCEPT ![r] = Slice(q.row, c.req.matched, Len(q.row))])
<1> DEFINE key == KeyOf(q, q.fill)
           S == Insert(T, key, RowPages(q, key))
           g == Freed(f, Slice(q.row, OldPrefixLen(q), MatchLen(T, key) * PageSize))
           Q == [P EXCEPT ![r] = Slice(q.row, Len(key) * PageSize, Len(q.row))]
<1>0. Unfinished(T, f, q, c)
  BY UnfinishedIs
<1>1. c.tree.val = S.val /\ c.free = g /\ c.req.matched = Len(key) * PageSize
  BY <1>0, Zenon DEF Unfinished
<1>2. q.fill \in Nat /\ q.matched + Shift <= q.fill
  BY DEF Cuttable
<1>3. Parted(S, g, Q)
  BY <1>2, RowInserted, Zenon
<1> HIDE DEF key, S, g, Q
<1>4. Parted(c.tree, g, Q)
  BY <1>1, <1>3, PartedSame
<1> QED
  BY <1>1, <1>4, Zenon DEF Q
=============================================================================
