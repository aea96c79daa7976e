---------------------------- MODULE Compress_proofs ----------------------------
(***************************************************************************)
(* What the proofs about the web graph need of the operators of NodeCode,  *)
(* Huffman and Compress, for any graph, any number of pages, any window    *)
(* and any Half: find_ref finds a page that shares a link; the bits, the   *)
(* blocks, the intervals and the rest of a page give its links back to a   *)
(* reader; all that is written of a page is among what is counted; and the *)
(* Huffman codes of a finished tree are read again, the shorter the more   *)
(* often their values come.                                                *)
(***************************************************************************)
EXTENDS Compress, FiniteSetTheorems, SequenceTheorems, WellFoundedInduction, TLAPS

\* The least number of a set.
LEMMA MinOfNaturals ==
  ASSUME NEW S \in SUBSET Nat, S # {}
  PROVE  Min(S) \in S /\ \A y \in S : Min(S) <= y
<1>1. \E x \in S : \A y \in S : ~(<<y, x>> \in OpToRel(<, Nat))
  BY WFMin, NatLessThanWellFounded
<1>2. \A x \in S : \A y \in S : y < x => <<y, x>> \in OpToRel(<, Nat)
  BY DEF OpToRel
<1>3. \E x \in S : \A y \in S : x <= y
  <2>1. PICK x \in S : \A y \in S : ~(<<y, x>> \in OpToRel(<, Nat))
    BY <1>1
  <2>2. \A y \in S : ~(y < x)
    BY <1>2, <2>1
  <2>3. \A y \in S : x <= y
    BY <2>2
  <2> QED
    BY <2>3
<1> QED
  BY <1>3 DEF Min

\* A function from a set that is not empty to the naturals has a least value.
LEMMA LeastValue ==
  ASSUME NEW S, S # {}, NEW f \in [S -> Nat]
  PROVE  \E k \in S : \A m \in S : f[k] <= f[m]
<1> DEFINE V == {f[k] : k \in S}
<1>1. V \in SUBSET Nat /\ V # {}
  OBVIOUS
<1>2. Min(V) \in V /\ \A y \in V : Min(V) <= y
  BY <1>1, MinOfNaturals
<1> QED
  BY <1>2

-------------------------------------------------------------------------------
(* References. *)

\* The links of each page and of the root.
IsGraph(g) ==
  /\ g \in [0..PageCount -> SUBSET Nat] /\ g[Root] = {}
  /\ \A i \in 0..PageCount : IsFiniteSet(g[i])
\* A cost is a number.
LEMMA CostType ==
  ASSUME NEW links, NEW refLinks, IsFiniteSet(links), IsFiniteSet(refLinks)
  PROVE  cost(links, refLinks) \in Nat
<1>1. /\ Cardinality(refLinks) \in Nat
      /\ Cardinality(links \ refLinks) \in Nat
  BY FS_CardinalityType, FS_Difference
<1>2. IsFiniteSet(0..PageCount)
  BY NumbersAssumption, FS_Interval
<1>3. PageBits \in Nat
  BY <1>2, FS_CardinalityType, FS_Subset DEF PageBits
<1>4. PageBits * (Cardinality(links \ refLinks) + 1) \in Nat
  BY <1>1, <1>3
<1> QED
  BY <1>1, <1>4 DEF cost, difference

\* A page is described by the root or by a page before it.
LEMMA FindRefBefore ==
  ASSUME NEW g, IsGraph(g), NEW i \in Page
  PROVE  find_ref(g, i) \in 0..(i - 1)
<1> DEFINE candidates == (IF i > Window THEN i - Window ELSE 0) .. (i - 1)
           f == [k \in candidates |-> cost(g[i], g[k])]
           cheapest == Min({k \in candidates : \A m \in candidates : f[k] <= f[m]})
<1>1. candidates \subseteq 0..(i - 1) /\ candidates # {} /\ candidates \subseteq 0..PageCount
      /\ i \in 0..PageCount
  BY NumbersAssumption DEF Page
<1>2. f \in [candidates -> Nat]
  BY <1>1, CostType DEF IsGraph
<1>3. cheapest \in candidates
  <2> DEFINE T == {k \in candidates : \A m \in candidates : f[k] <= f[m]}
  <2>1. T # {}
    <3> HIDE DEF candidates, f
    <3> QED
      BY <1>1, <1>2, LeastValue
  <2>2. T \in SUBSET Nat
    BY <1>1
  <2>3. Min(T) \in T
    BY <2>1, <2>2, MinOfNaturals
  <2> QED
    BY <2>3
<1>4. cheapest = Min({k \in candidates : \A m \in candidates :
                        cost(g[i], g[k]) <= cost(g[i], g[m])})
  <2>1. {k \in candidates : \A m \in candidates : f[k] <= f[m]}
          = {k \in candidates : \A m \in candidates : cost(g[i], g[k]) <= cost(g[i], g[m])}
    OBVIOUS
  <2> QED
    BY <2>1
<1>5. find_ref(g, i) \in {Root, cheapest}
  BY <1>4 DEF find_ref
<1>6. Root \in 0..(i - 1)
  BY DEF Root, Page
<1> QED
  BY <1>1, <1>3, <1>5, <1>6

-------------------------------------------------------------------------------
(* Bits. *)

\* A link has a place in its list, and no two links have the same.
LEMMA PositionType ==
  ASSUME NEW S \in SUBSET Nat, IsFiniteSet(S), NEW x \in S
  PROVE  Position(S, x) \in 1..Cardinality(S)
<1> DEFINE B == {y \in S : y < x}
<1>1. B \in SUBSET (S \ {x})
  OBVIOUS
<1>2. IsFiniteSet(S \ {x}) /\ Cardinality(S \ {x}) = Cardinality(S) - 1
  BY FS_RemoveElement
<1>3. /\ Cardinality(B) <= Cardinality(S \ {x})
      /\ IsFiniteSet(B)
  BY <1>1, <1>2, FS_Subset
<1>4. Cardinality(B) \in Nat /\ Cardinality(S) \in Nat
  BY <1>3, FS_CardinalityType
<1> QED
  BY <1>2, <1>3, <1>4 DEF Position
\* The greater of two numbers comes later in the list.
LEMMA PositionGrows ==
  ASSUME NEW S \in SUBSET Nat, IsFiniteSet(S), NEW x \in S, NEW y \in S, x < y
  PROVE  Position(S, x) < Position(S, y)
<1> DEFINE X == {z \in S : z < x}
           Y == {z \in S : z < y}
<1>1. X \in SUBSET Y /\ X # Y
  <2>1. x \in Y /\ x \notin X
    OBVIOUS
  <2>2. ASSUME NEW z \in X PROVE z \in Y
    BY <2>2
  <2> QED
    BY <2>1, <2>2
<1>2. IsFiniteSet(Y) /\ IsFiniteSet(X)
  BY FS_Subset
<1>3. Cardinality(X) <= Cardinality(Y) /\ Cardinality(X) # Cardinality(Y)
  BY <1>1, <1>2, FS_Subset
<1>4. Cardinality(X) \in Nat /\ Cardinality(Y) \in Nat
  BY <1>2, FS_CardinalityType
<1> HIDE DEF X, Y
<1>5. Cardinality(X) + 1 < Cardinality(Y) + 1
  BY <1>3, <1>4
<1> QED
  BY <1>5 DEF Position, X, Y
\* No two numbers have the same place.
LEMMA PositionInjective ==
  ASSUME NEW S \in SUBSET Nat, IsFiniteSet(S), NEW x \in S, NEW y \in S,
         Position(S, x) = Position(S, y)
  PROVE  x = y
<1>1. Position(S, x) \in Int
  BY PositionType, FS_CardinalityType
<1>2. CASE x < y
  BY <1>1, <1>2, PositionGrows
<1>3. CASE y < x
  BY <1>1, <1>3, PositionGrows
<1> QED
  BY <1>2, <1>3
\* There is one bit for each link of the reference.
LEMMA BitsType ==
  ASSUME NEW refLinks, IsFiniteSet(refLinks), NEW links
  PROVE  /\ Bits(refLinks, links) \in Seq(BOOLEAN)
         /\ Len(Bits(refLinks, links)) = Cardinality(refLinks)
         /\ DOMAIN Bits(refLinks, links) = 1..Cardinality(refLinks)
<1>1. Cardinality(refLinks) \in Nat
  BY FS_CardinalityType
<1> DEFINE n == Cardinality(refLinks)
           bit(p) == \E l \in refLinks : l \in links /\ Position(refLinks, l) = p
<1>2. Bits(refLinks, links) = [p \in 1..n |-> bit(p)]
  BY DEF Bits
<1>3. \A p : bit(p) \in BOOLEAN
  OBVIOUS
<1> HIDE DEF n, bit
<1>4. [p \in 1..n |-> bit(p)] \in [1..n -> BOOLEAN]
  BY <1>3
<1>5. \A s \in [1..n -> BOOLEAN] : s \in Seq(BOOLEAN) /\ Len(s) = n /\ DOMAIN s = 1..n
  BY <1>1 DEF n
<1> QED
  BY <1>2, <1>4, <1>5 DEF n

\* The links of the reference that are marked are those the page has, too.
LEMMA MarkedLinks ==
  ASSUME NEW refLinks \in SUBSET Nat, IsFiniteSet(refLinks), NEW links
  PROVE  {l \in refLinks : /\ Position(refLinks, l) \in DOMAIN Bits(refLinks, links)
                           /\ Bits(refLinks, links)[Position(refLinks, l)]}
           = refLinks \cap links
<1> DEFINE bits == Bits(refLinks, links)
<1>1. DOMAIN bits = 1..Cardinality(refLinks)
  BY BitsType
<1>2. ASSUME NEW l \in refLinks
      PROVE  Position(refLinks, l) \in DOMAIN bits /\ (bits[Position(refLinks, l)] <=> l \in links)
  <2>1. Position(refLinks, l) \in 1..Cardinality(refLinks)
    BY PositionType
  <2>2. bits[Position(refLinks, l)]
          = \E k \in refLinks : k \in links /\ Position(refLinks, k) = Position(refLinks, l)
    BY <2>1 DEF Bits
  <2>3. (\E k \in refLinks : k \in links /\ Position(refLinks, k) = Position(refLinks, l))
          <=> l \in links
    BY PositionInjective
  <2> QED
    BY <1>1, <2>1, <2>2, <2>3
<1> QED
  BY <1>2

-------------------------------------------------------------------------------
(* Ascending lists. *)

\* Every place in the list of a set is the place of a number of the set.
LEMMA PlaceTaken ==
  ASSUME NEW S \in SUBSET Nat, IsFiniteSet(S), NEW k \in 1..Cardinality(S)
  PROVE  \E x \in S : Position(S, x) = k
<1> DEFINE n == Cardinality(S)
           place == [x \in S |-> Position(S, x)]
           T == {place[x] : x \in S}
<1>1. n \in Nat /\ IsFiniteSet(1..n) /\ Cardinality(1..n) = n
  <2>1. n \in Nat
    BY FS_CardinalityType
  <2> HIDE DEF n
  <2>2. IsFiniteSet(1..n)
    BY <2>1, FS_Interval
  <2>3. Cardinality(1..n) = IF 1 > n THEN 0 ELSE n - 1 + 1
    BY <2>1, FS_Interval
  <2> QED
    BY <2>1, <2>2, <2>3
<1>2. T \subseteq 1..n
  BY PositionType
<1>3. place \in Bijection(S, T)
  <2>1. place \in [S -> T]
    OBVIOUS
  <2>2. \A x, y \in S : place[x] = place[y] => x = y
    BY PositionInjective
  <2>3. \A t \in T : \E x \in S : place[x] = t
    OBVIOUS
  <2> HIDE DEF T, place
  <2> QED
    BY <2>1, <2>2, <2>3 DEF Bijection, Injection, Surjection, IsInjective
<1>4. Cardinality(T) = n
  <2> HIDE DEF T, place
  <2> QED
    BY <1>3, FS_Bijection DEF ExistsBijection
<1>5. T = 1..n
  <2> HIDE DEF T, n
  <2> QED
    BY <1>1, <1>2, <1>4, FS_Subset
<1> QED
  BY <1>5

\* The list of a finite set of naturals: as long as the set, each number at its
\* place.
LEMMA AscendingList ==
  ASSUME NEW S \in SUBSET Nat, IsFiniteSet(S)
  PROVE  LET a == Ascending(S) IN
         /\ a \in Seq(S) /\ Len(a) = Cardinality(S) /\ Len(a) \in Nat
         /\ DOMAIN a = 1..Cardinality(S)
         /\ \A k \in 1..Len(a) : a[k] \in S /\ Position(S, a[k]) = k
         /\ \A x \in S : Position(S, x) \in 1..Len(a) /\ a[Position(S, x)] = x
         /\ \A j, k \in 1..Len(a) : j < k => a[j] < a[k]
<1> DEFINE a == Ascending(S)
           n == Cardinality(S)
<1>1. n \in Nat
  BY FS_CardinalityType
<1>2. a = [k \in 1..n |-> CHOOSE x \in S : Position(S, x) = k]
  BY DEF Ascending
<1> HIDE DEF a
<1>3. \A k \in 1..n : a[k] \in S /\ Position(S, a[k]) = k
  BY <1>2, PlaceTaken
<1>4. a \in Seq(S) /\ Len(a) = n /\ DOMAIN a = 1..n
  <2> HIDE DEF n
  <2>1. a \in [1..n -> S]
    BY <1>2, <1>3
  <2> QED
    BY <1>1, <2>1
<1>5. \A x \in S : Position(S, x) \in 1..n
  BY PositionType
<1>6. ASSUME NEW x \in S PROVE a[Position(S, x)] = x
  <2> DEFINE y == a[Position(S, x)]
  <2>1. y \in S /\ Position(S, y) = Position(S, x)
    BY <1>3, <1>5
  <2> HIDE DEF y
  <2>2. y = x
    BY <2>1, PositionInjective
  <2> QED
    BY <2>2 DEF y
<1>7. ASSUME NEW j \in 1..n, NEW k \in 1..n, j < k
      PROVE  a[j] < a[k]
  <2>1. a[j] \in S /\ a[k] \in S /\ Position(S, a[j]) = j /\ Position(S, a[k]) = k
    BY <1>3
  <2>2. ~(a[k] < a[j])
    <3>1. a[k] < a[j] => Position(S, a[k]) < Position(S, a[j])
      BY <2>1, PositionGrows
    <3> QED
      BY <1>1, <1>7, <2>1, <3>1
  <2>3. a[j] # a[k]
    <3>1. a[j] = a[k] => Position(S, a[j]) = Position(S, a[k])
      OBVIOUS
    <3> QED
      BY <1>7, <2>1, <3>1
  <2>4. a[j] \in Nat /\ a[k] \in Nat
    BY <2>1
  <2> QED
    BY <2>2, <2>3, <2>4
<1> QED
  BY <1>1, <1>3, <1>4, <1>5, <1>6, <1>7 DEF a

\* No number of the set lies between two that are next to each other in the list.
LEMMA NothingBetween ==
  ASSUME NEW S \in SUBSET Nat, IsFiniteSet(S), NEW k \in 1..(Len(Ascending(S)) - 1),
         NEW x \in S, x > Ascending(S)[k]
  PROVE  x >= Ascending(S)[k + 1]
<1> DEFINE a == Ascending(S)
           p == Position(S, x)
<1>1. /\ Len(a) \in Nat
      /\ \A j \in 1..Len(a) : a[j] \in S
      /\ \A j \in 1..Len(a) : a[j] \in Nat
      /\ p \in 1..Len(a) /\ a[p] = x
      /\ \A i, j \in 1..Len(a) : i < j => a[i] < a[j]
  BY AscendingList
<1> HIDE DEF a, p
<1>2. k \in 1..Len(a) /\ k + 1 \in 1..Len(a)
  BY <1>1 DEF a
<1>3. k < p
  <2>1. p < k => a[p] < a[k]
    BY <1>1, <1>2
  <2>2. a[p] > a[k]
    BY <1>1 DEF a
  <2> QED
    BY <1>1, <1>2, <2>1, <2>2
<1>4. p = k + 1 \/ a[k + 1] < a[p]
  BY <1>1, <1>2, <1>3
<1>5. x \in Nat /\ a[k + 1] \in Nat /\ x >= a[k + 1]
  BY <1>1, <1>2, <1>4
<1> QED
  BY <1>5 DEF a

\* The first number of the list is the least, the last one the greatest.
LEMMA AscendingEnds ==
  ASSUME NEW S \in SUBSET Nat, IsFiniteSet(S), S # {}
  PROVE  /\ Len(Ascending(S)) >= 1
         /\ \A x \in S : Ascending(S)[1] <= x /\ x <= Ascending(S)[Len(Ascending(S))]
<1> DEFINE a == Ascending(S)
<1>1. /\ Len(a) \in Nat
      /\ \A j \in 1..Len(a) : a[j] \in Nat
      /\ \A x \in S : Position(S, x) \in 1..Len(a) /\ a[Position(S, x)] = x
      /\ \A i, j \in 1..Len(a) : i < j => a[i] < a[j]
  BY AscendingList
<1> HIDE DEF a
<1>2. ASSUME NEW x \in S
      PROVE  Len(a) >= 1 /\ a[1] <= x /\ x <= a[Len(a)]
  <2> DEFINE p == Position(S, x)
  <2>1. p \in 1..Len(a) /\ a[p] = x
    BY <1>1
  <2> HIDE DEF p
  <2>2. 1 \in 1..Len(a) /\ Len(a) \in 1..Len(a)
    BY <1>1, <2>1
  <2>3. p = 1 \/ a[1] < a[p]
    BY <1>1, <2>1, <2>2
  <2>4. p = Len(a) \/ a[p] < a[Len(a)]
    BY <1>1, <2>1, <2>2
  <2> QED
    BY <1>1, <2>1, <2>2, <2>3, <2>4
<1> QED
  BY <1>2 DEF a

-------------------------------------------------------------------------------
(* Recursive functions of numbers.  The prover has no induction over an        *)
(* operator, but the numbers a claim is true of are a set.                     *)
\* Induction: a set of numbers that 0 is in, and each number behind one of it.
LEMMA Induction ==
  ASSUME NEW n \in Nat, NEW P, 0 \in P, \A j \in 0..(n - 1) : j \in P => j + 1 \in P
  PROVE  \A j \in 0..n : j \in P
<1> SUFFICES ASSUME NEW k \in 0..n, k \notin P PROVE FALSE
  OBVIOUS
<1> DEFINE T == {j \in 0..n : j \notin P}
           m == Min(T)
<1>1. T \in SUBSET Nat /\ T # {}
  OBVIOUS
<1>2. m \in T /\ \A y \in T : m <= y
  BY <1>1, MinOfNaturals
<1>3. \A y \in 0..n : y < m => y \in P
  BY <1>2
<1>4. m \in 1..n /\ m \notin P
  BY <1>2
<1> HIDE DEF m, T
<1>5. m - 1 \in 0..(n - 1) /\ m - 1 \in P
  BY <1>3, <1>4
<1>6. (m - 1) + 1 = m
  BY <1>4
<1> QED
  BY <1>4, <1>5, <1>6

\* A function that begins with base and takes each value from the one before.
IsRecursion(f, V, base, n, step) ==
  f \in [0..n -> V] /\ f[0] = base /\ \A j \in 1..n : f[j] = step[j][f[j - 1]]
\* There is a function with these steps.
LEMMA RecursionExists ==
  ASSUME NEW V, NEW base \in V, NEW n \in Nat, NEW step \in [1..n -> [V -> V]]
  PROVE  \E f : IsRecursion(f, V, base, n, step)
<1> DEFINE P == {m \in 0..n : \E f : IsRecursion(f, V, base, m, step)}
<1>1. 0 \in P
  <2> DEFINE f == [j \in 0..0 |-> base]
  <2>1. IsRecursion(f, V, base, 0, step)
    BY DEF IsRecursion
  <2> QED
    BY <2>1
<1>2. ASSUME NEW m \in 0..(n - 1), m \in P
      PROVE  m + 1 \in P
  <2>1. PICK f : IsRecursion(f, V, base, m, step)
    BY <1>2
  <2> USE <2>1 DEF IsRecursion
  <2> DEFINE g == [j \in 0..(m + 1) |-> IF j = m + 1 THEN step[m + 1][f[m]] ELSE f[j]]
  <2>2. m + 1 \in 1..n /\ m \in 0..m /\ m + 1 \in 0..n
    OBVIOUS
  <2>3. step[m + 1][f[m]] \in V
    BY <2>2
  <2>4. g \in [0..(m + 1) -> V]
    BY <2>3
  <2>5. g[0] = base
    BY <2>1
  <2>6. ASSUME NEW j \in 1..(m + 1) PROVE g[j] = step[j][g[j - 1]]
    <3>1. CASE j = m + 1
      <4>1. g[j] = step[m + 1][f[m]] /\ g[j - 1] = f[m]
        BY <3>1
      <4> QED
        BY <3>1, <4>1
    <3>2. CASE j # m + 1
      <4>1. j \in 1..m /\ j - 1 \in 0..m /\ j \in 0..(m + 1) /\ j - 1 \in 0..(m + 1) /\ j - 1 # m + 1
        BY <3>2
      <4>2. g[j] = f[j] /\ g[j - 1] = f[j - 1]
        BY <3>2, <4>1
      <4> QED
        BY <2>1, <4>1, <4>2
    <3> QED
      BY <3>1, <3>2
  <2>7. IsRecursion(g, V, base, m + 1, step)
    BY <2>4, <2>5, <2>6
  <2> QED
    BY <2>2, <2>7
<1> HIDE DEF P
<1>3. \A j \in 0..n : j \in P
  BY <1>1, <1>2, Induction
<1>4. n \in 0..n
  OBVIOUS
<1> QED
  BY <1>3, <1>4 DEF P

-------------------------------------------------------------------------------
(* Sums. *)

\* The function Total is the last value of.
IsSum(sum, numbers, k) ==
  sum = [j \in 0..k |-> IF j = 0 THEN 0 ELSE sum[j - 1] + numbers[j]]
\* The function Total takes its value from exists.
LEMMA SumExists ==
  ASSUME NEW numbers, NEW k \in Nat, \A j \in 1..k : numbers[j] \in Int
  PROVE  \E sum \in [0..k -> Int] : IsSum(sum, numbers, k)
<1> DEFINE step == [j \in 1..k |-> [v \in Int |-> v + numbers[j]]]
<1>1. /\ step \in [1..k -> [Int -> Int]]
      /\ \A j \in 1..k : \A v \in Int : step[j][v] = v + numbers[j]
  OBVIOUS
<1> HIDE DEF step
<1>2. \E f : IsRecursion(f, Int, 0, k, step)
  <2> DEFINE V == Int
  <2>1. 0 \in V /\ step \in [1..k -> [V -> V]]
    BY <1>1
  <2> HIDE DEF V
  <2>2. \E f : IsRecursion(f, V, 0, k, step)
    BY <2>1, RecursionExists
  <2> QED
    BY <2>2 DEF V
<1> PICK f : IsRecursion(f, Int, 0, k, step)
  BY <1>2
<1> USE DEF IsRecursion
<1>3. ASSUME NEW j \in 0..k PROVE f[j] = IF j = 0 THEN 0 ELSE f[j - 1] + numbers[j]
  <2>1. CASE j = 0
    BY <2>1
  <2>2. CASE j # 0
    <3>1. j \in 1..k /\ j - 1 \in 0..k
      BY <2>2
    <3> QED
      BY <1>1, <2>2, <3>1
  <2> QED
    BY <2>1, <2>2
<1>4. IsSum(f, numbers, k)
  BY <1>3 DEF IsSum
<1> QED
  BY <1>4
\* Total is what any such function gives.
LEMMA TotalIsSum ==
  ASSUME NEW numbers, NEW k \in Nat, \A j \in 1..k : numbers[j] \in Int,
         NEW sum, IsSum(sum, numbers, k)
  PROVE  \A j \in 0..k : Total(numbers, j) = sum[j] /\ sum[j] \in Int
<1> SUFFICES ASSUME NEW m \in 0..k PROVE Total(numbers, m) = sum[m] /\ sum[m] \in Int
  OBVIOUS
<1> DEFINE s == CHOOSE t : IsSum(t, numbers, m)
<1>1. \E t : IsSum(t, numbers, m)
  <2>1. m \in Nat /\ \A j \in 1..m : numbers[j] \in Int
    OBVIOUS
  <2> QED
    BY <2>1, SumExists
<1>2. IsSum(s, numbers, m)
  BY <1>1
<1>3. Total(numbers, m) = s[m]
  BY DEF Total, IsSum
<1> HIDE DEF s
<1> DEFINE P == {j \in 0..m : s[j] = sum[j] /\ sum[j] \in Int}
<1>4. 0 \in P
  BY <1>2 DEF IsSum
<1>5. ASSUME NEW j \in 0..(m - 1), j \in P PROVE j + 1 \in P
  <2>1. j + 1 \in 1..m /\ j + 1 \in 0..k /\ j + 1 \in 0..m /\ j + 1 # 0 /\ (j + 1) - 1 = j
    OBVIOUS
  <2>2. s[j + 1] = s[j] + numbers[j + 1]
    BY <1>2, <2>1 DEF IsSum
  <2>3. sum[j + 1] = sum[j] + numbers[j + 1]
    BY <2>1 DEF IsSum
  <2>4. numbers[j + 1] \in Int
    BY <2>1
  <2> QED
    BY <1>5, <2>1, <2>2, <2>3, <2>4
<1> HIDE DEF P
<1>6. m \in P
  <2>1. m \in Nat /\ m \in 0..m
    OBVIOUS
  <2> QED
    BY <1>4, <1>5, <2>1, Induction
<1> QED
  BY <1>3, <1>6 DEF P

\* Total adds up.
LEMMA TotalStep ==
  ASSUME NEW numbers, NEW k \in Nat, \A j \in 1..k : numbers[j] \in Int
  PROVE  /\ Total(numbers, 0) = 0
         /\ \A j \in 0..k : Total(numbers, j) \in Int
         /\ \A j \in 1..k : Total(numbers, j) = Total(numbers, j - 1) + numbers[j]
<1>1. PICK sum : IsSum(sum, numbers, k)
  BY SumExists
<1>2. \A j \in 0..k : Total(numbers, j) = sum[j] /\ sum[j] \in Int
  BY <1>1, TotalIsSum
<1>3. sum[0] = 0 /\ \A j \in 1..k : sum[j] = sum[j - 1] + numbers[j]
  BY <1>1 DEF IsSum
<1>4. \A j \in 1..k : j \in 0..k /\ j - 1 \in 0..k
  OBVIOUS
<1> QED
  BY <1>2, <1>3, <1>4

\* Numbers that agree have the same sum.
LEMMA TotalSame ==
  ASSUME NEW numbers, NEW others, NEW k \in Nat,
         \A j \in 1..k : numbers[j] \in Int /\ others[j] = numbers[j]
  PROVE  \A j \in 0..k : Total(numbers, j) = Total(others, j)
<1> DEFINE P == {j \in 0..k : Total(numbers, j) = Total(others, j)}
<1>1. /\ Total(numbers, 0) = 0 /\ Total(others, 0) = 0
      /\ \A j \in 1..k : /\ Total(numbers, j) = Total(numbers, j - 1) + numbers[j]
                         /\ Total(others, j) = Total(others, j - 1) + others[j]
  BY TotalStep
<1>2. 0 \in P
  BY <1>1
<1>3. ASSUME NEW j \in 0..(k - 1), j \in P PROVE j + 1 \in P
  <2>1. j + 1 \in 1..k /\ j + 1 \in 0..k /\ (j + 1) - 1 = j
    OBVIOUS
  <2> QED
    BY <1>1, <1>3, <2>1
<1> HIDE DEF P
<1>4. \A j \in 0..k : j \in P
  BY <1>2, <1>3, Induction
<1> QED
  BY <1>4 DEF P

\* The sum of more numbers is not less; that of positive numbers is at least as many.
LEMMA TotalGrows ==
  ASSUME NEW numbers, NEW k \in Nat, \A j \in 1..k : numbers[j] \in Nat, NEW i \in 0..k
  PROVE  /\ \A j \in i..k : Total(numbers, i) <= Total(numbers, j)
         /\ (\A j \in 1..k : numbers[j] >= 1) =>
              \A j \in i..k : Total(numbers, i) + (j - i) <= Total(numbers, j)
<1> DEFINE T(j) == Total(numbers, j)
           positive == \A j \in 1..k : numbers[j] >= 1
           Good(j) == T(i) <= T(j) /\ (positive => T(i) + (j - i) <= T(j))
           P == {d \in 0..(k - i) : Good(i + d)}
<1>1. /\ \A j \in 0..k : T(j) \in Int
      /\ \A j \in 1..k : T(j) = T(j - 1) + numbers[j]
  BY TotalStep
<1> HIDE DEF T
<1>2. 0 \in P
  <2>1. i + 0 = i /\ T(i) \in Int
    BY <1>1
  <2> QED
    BY <2>1
<1>3. ASSUME NEW d \in 0..(k - i - 1), d \in P PROVE d + 1 \in P
  <2> DEFINE j == i + d
  <2>1. j \in 0..k /\ j + 1 \in 1..k /\ (j + 1) - 1 = j /\ j + 1 \in 0..k /\ d + 1 \in 0..(k - i)
        /\ j - i = d /\ (j + 1) - i = d + 1 /\ i + (d + 1) = j + 1
    OBVIOUS
  <2>2. T(j + 1) = T(j) + numbers[j + 1] /\ T(j) \in Int /\ T(j + 1) \in Int /\ T(i) \in Int
    BY <1>1, <2>1
  <2>3. Good(j) /\ numbers[j + 1] \in Nat /\ (positive => numbers[j + 1] >= 1)
    BY <1>3, <2>1
  <2> HIDE DEF j, positive
  <2>4. Good(j + 1)
    BY <2>1, <2>2, <2>3
  <2> QED
    BY <2>1, <2>4
<1> HIDE DEF P, Good
<1>4. \A d \in 0..(k - i) : d \in P
  <2>1. k - i \in Nat
    OBVIOUS
  <2> QED
    BY <1>2, <1>3, <2>1, Induction
<1>5. ASSUME NEW j \in i..k PROVE Good(j)
  <2>1. j - i \in 0..(k - i) /\ i + (j - i) = j
    OBVIOUS
  <2>2. Good(i + (j - i))
    BY <1>4, <2>1 DEF P
  <2> QED
    BY <2>1, <2>2
<1> QED
  BY <1>5 DEF Good, T

\* Equal numbers in a row.
LEMMA TotalConstant ==
  ASSUME NEW numbers, NEW N \in Nat, \A j \in 1..N : numbers[j] \in Int,
         NEW a \in 0..N, NEW b \in a..N, NEW c \in Int, \A j \in (a + 1)..b : numbers[j] = c
  PROVE  Total(numbers, b) = Total(numbers, a) + (b - a) * c
<1> DEFINE T(j) == Total(numbers, j)
           P == {d \in 0..(b - a) : T(a + d) = T(a) + d * c}
<1>1. /\ \A j \in 0..N : T(j) \in Int
      /\ \A j \in 1..N : T(j) = T(j - 1) + numbers[j]
  BY TotalStep
<1> HIDE DEF T
<1>2. 0 \in P
  <2>1. T(a) \in Int /\ a + 0 = a /\ 0 * c = 0
    BY <1>1
  <2> QED
    BY <2>1
<1>3. ASSUME NEW d \in 0..(b - a - 1), d \in P PROVE d + 1 \in P
  <2>1. a + (d + 1) \in 1..N /\ (a + (d + 1)) - 1 = a + d /\ a + (d + 1) \in (a + 1)..b
        /\ d + 1 \in 0..(b - a)
    OBVIOUS
  <2>2. T(a + (d + 1)) = T(a + d) + c /\ T(a + d) = T(a) + d * c
    BY <1>1, <1>3, <2>1
  <2>3. (d + 1) * c = d * c + c /\ d * c \in Int /\ T(a) \in Int
    BY <1>1
  <2>4. T(a + (d + 1)) = T(a) + (d + 1) * c
    BY <2>2, <2>3
  <2> QED
    BY <2>1, <2>4
<1> HIDE DEF P
<1>4. \A d \in 0..(b - a) : d \in P
  <2>1. b - a \in Nat
    OBVIOUS
  <2> QED
    BY <1>2, <1>3, <2>1, Induction
<1>5. b - a \in 0..(b - a) /\ a + (b - a) = b
  OBVIOUS
<1> QED
  BY <1>4, <1>5 DEF P, T

-------------------------------------------------------------------------------
(* Sequences one after the other. *)

\* The function FlattenSeq is the last value of.
IsFlat(f, seqs) ==
  f = [i \in 1..Len(seqs) |-> IF i = 1 THEN seqs[i] ELSE f[i - 1] \o seqs[i]]
\* The function FlattenSeq takes its value from exists.
LEMMA FlatExists ==
  ASSUME NEW X, NEW seqs \in Seq(Seq(X))
  PROVE  \E f : /\ IsRecursion(f, Seq(X), <<>>, Len(seqs),
                     [j \in 1..Len(seqs) |-> [v \in Seq(X) |-> v \o seqs[j]]])
                /\ IsFlat([j \in 1..Len(seqs) |-> f[j]], seqs)
<1> DEFINE n == Len(seqs)
           V == Seq(X)
           step == [j \in 1..n |-> [v \in V |-> v \o seqs[j]]]
<1>1. n \in Nat /\ \A j \in 1..n : seqs[j] \in Seq(X)
  OBVIOUS
<1>2. <<>> \in V /\ step \in [1..n -> [V -> V]]
  <2>1. ASSUME NEW j \in 1..n, NEW v \in V PROVE v \o seqs[j] \in V
    BY <1>1
  <2> HIDE DEF n, V
  <2>2. step \in [1..n -> [V -> V]]
    BY <2>1
  <2> QED
    BY <2>2 DEF V
<1>3. \A j \in 1..n : \A v \in V : step[j][v] = v \o seqs[j]
  OBVIOUS
<1> HIDE DEF V, step, n
<1>4. PICK f : IsRecursion(f, V, <<>>, n, step)
  BY <1>1, <1>2, RecursionExists
<1> DEFINE g == [j \in 1..n |-> f[j]]
<1>5. ASSUME NEW j \in 1..n PROVE g[j] = IF j = 1 THEN seqs[j] ELSE g[j - 1] \o seqs[j]
  <2>1. f[j] = f[j - 1] \o seqs[j]
    <3>1. j - 1 \in 0..n
      BY <1>1
    <3> QED
      BY <1>3, <1>4, <3>1 DEF IsRecursion
  <2>2. CASE j = 1
    <3>1. f[j - 1] = <<>>
      BY <1>4, <2>2 DEF IsRecursion
    <3>2. <<>> \o seqs[j] = seqs[j]
      BY <1>1
    <3> QED
      BY <2>1, <2>2, <3>1, <3>2
  <2>3. CASE j # 1
    <3>1. j - 1 \in 1..n
      BY <1>1, <2>3
    <3> QED
      BY <2>1, <2>3, <3>1
  <2> QED
    BY <2>2, <2>3
<1>6. IsFlat(g, seqs)
  BY <1>5 DEF IsFlat, n
<1> QED
  BY <1>4, <1>6 DEF V, step, n
\* FlattenSeq appends one sequence after the other.
LEMMA FlattenSteps ==
  ASSUME NEW X, NEW seqs \in Seq(Seq(X))
  PROVE  \E f \in [0..Len(seqs) -> Seq(X)] :
           /\ f[0] = <<>>
           /\ \A j \in 1..Len(seqs) : f[j] = f[j - 1] \o seqs[j]
           /\ FlattenSeq(seqs) = f[Len(seqs)]
<1> DEFINE n == Len(seqs)
           step == [j \in 1..n |-> [v \in Seq(X) |-> v \o seqs[j]]]
<1>1. PICK f : IsRecursion(f, Seq(X), <<>>, n, step) /\ IsFlat([j \in 1..n |-> f[j]], seqs)
  BY FlatExists
<1>2. f \in [0..n -> Seq(X)] /\ f[0] = <<>> /\ \A j \in 1..n : f[j] = f[j - 1] \o seqs[j]
  <2>1. \A j \in 1..n : \A v \in Seq(X) : step[j][v] = v \o seqs[j]
    OBVIOUS
  <2> HIDE DEF step
  <2>2. \A j \in 1..n : j - 1 \in 0..n
    OBVIOUS
  <2>3. /\ f \in [0..n -> Seq(X)] /\ f[0] = <<>>
        /\ \A j \in 1..n : f[j] = step[j][f[j - 1]]
    BY <1>1 DEF IsRecursion
  <2>4. \A j \in 1..n : f[j - 1] \in Seq(X)
    BY <2>2, <2>3
  <2> HIDE DEF n
  <2> QED
    BY <2>1, <2>3, <2>4
<1>3. FlattenSeq(seqs) = f[n]
  <2>0. n \in Nat
    OBVIOUS
  <2>1. CASE n = 0
    <3>1. seqs = <<>>
      BY <2>1
    <3> QED
      BY <1>2, <2>1, <3>1 DEF FlattenSeq
  <2>2. CASE n # 0
    <3> DEFINE c == CHOOSE g : IsFlat(g, seqs)
    <3>1. IsFlat(c, seqs)
      BY <1>1
    <3>2. FlattenSeq(seqs) = c[n]
      BY <2>2 DEF FlattenSeq, IsFlat
    <3> HIDE DEF c, step
    <3> DEFINE P == {d \in 0..(n - 1) : c[d + 1] = f[d + 1]}
    <3>3. 0 \in P
      <4>1. 1 \in 1..n
        BY <2>2
      <4>2. c[1] = seqs[1] /\ f[1] = seqs[1]
        BY <1>1, <3>1, <4>1 DEF IsFlat
      <4> QED
        BY <2>0, <2>2, <4>2
    <3>4. ASSUME NEW d \in 0..(n - 1 - 1), d \in P PROVE d + 1 \in P
      <4>1. d + 2 \in 1..n /\ d + 2 # 1 /\ (d + 2) - 1 = d + 1 /\ d + 1 \in 0..(n - 1)
            /\ (d + 1) + 1 = d + 2
        BY <2>0, <2>2
      <4>2. c[d + 2] = c[d + 1] \o seqs[d + 2]
        BY <3>1, <4>1 DEF IsFlat
      <4>3. f[d + 2] = f[d + 1] \o seqs[d + 2]
        BY <1>2, <4>1
      <4>4. c[d + 1] = f[d + 1]
        BY <3>4
      <4> HIDE DEF n
      <4> QED
        BY <4>1, <4>2, <4>3, <4>4
    <3> HIDE DEF P, n
    <3>5. \A d \in 0..(n - 1) : d \in P
      <4>1. n - 1 \in Nat
        BY <2>0, <2>2
      <4> QED
        BY <3>3, <3>4, <4>1, Induction
    <3>6. n - 1 \in 0..(n - 1) /\ (n - 1) + 1 = n
      BY <2>0, <2>2
    <3> QED
      BY <3>2, <3>5, <3>6 DEF P
  <2> QED
    BY <2>1, <2>2
<1> QED
  BY <1>2, <1>3

\* The lengths of sequences.
Lens(seqs) == [j \in DOMAIN seqs |-> Len(seqs[j])]

\* The parts of a flattened sequence are in it at their places.
LEMMA FlattenPlaces ==
  ASSUME NEW X, NEW seqs \in Seq(Seq(X))
  PROVE  /\ FlattenSeq(seqs) \in Seq(X)
         /\ Len(FlattenSeq(seqs)) = Total(Lens(seqs), Len(seqs))
         /\ \A j \in 1..Len(seqs) : \A t \in 1..Len(seqs[j]) :
              /\ Total(Lens(seqs), j - 1) + t \in 1..Len(FlattenSeq(seqs))
              /\ FlattenSeq(seqs)[Total(Lens(seqs), j - 1) + t] = seqs[j][t]
<1> DEFINE n == Len(seqs)
           off(j) == Total(Lens(seqs), j)
<1>1. n \in Nat /\ \A j \in 1..n : seqs[j] \in Seq(X) /\ Len(seqs[j]) \in Nat
  OBVIOUS
<1>2. \A j \in 1..n : Lens(seqs)[j] = Len(seqs[j])
  BY DEF Lens
<1>3. PICK f \in [0..n -> Seq(X)] :
        /\ f[0] = <<>>
        /\ \A j \in 1..n : f[j] = f[j - 1] \o seqs[j]
        /\ FlattenSeq(seqs) = f[n]
  BY FlattenSteps
<1>4. /\ off(0) = 0 /\ \A j \in 0..n : off(j) \in Int
      /\ \A j \in 1..n : off(j) = off(j - 1) + Len(seqs[j])
  <2>1. \A j \in 1..n : Lens(seqs)[j] \in Int
    BY <1>1, <1>2
  <2> HIDE DEF n
  <2> QED
    BY <1>1, <1>2, <2>1, TotalStep
<1> HIDE DEF n, off
<1> DEFINE Placed(m) ==
             /\ Len(f[m]) = off(m)
             /\ \A j \in 1..m : \A t \in 1..Len(seqs[j]) :
                  off(j - 1) + t \in 1..Len(f[m]) /\ f[m][off(j - 1) + t] = seqs[j][t]
           P == {m \in 0..n : Placed(m)}
<1>5. 0 \in P
  BY <1>1, <1>3, <1>4
<1>6. ASSUME NEW m \in 0..(n - 1), m \in P PROVE m + 1 \in P
  <2>1. m + 1 \in 1..n /\ (m + 1) - 1 = m /\ m \in 0..n /\ m + 1 \in 0..n
    BY <1>1
  <2> DEFINE s == f[m]
             t == seqs[m + 1]
  <2>2. s \in Seq(X) /\ t \in Seq(X) /\ f[m + 1] = s \o t
    BY <1>1, <1>3, <2>1
  <2>3. off(m + 1) = off(m) + Len(t) /\ off(m) = Len(s)
    BY <1>4, <1>6, <2>1
  <2> HIDE DEF s, t
  <2>4. /\ Len(s \o t) = Len(s) + Len(t) /\ Len(s) \in Nat /\ Len(t) \in Nat
        /\ \A q \in 1..(Len(s) + Len(t)) : (s \o t)[q] = IF q <= Len(s) THEN s[q] ELSE t[q - Len(s)]
    BY <2>2, ConcatProperties
  <2>5. ASSUME NEW j \in 1..(m + 1), NEW q \in 1..Len(seqs[j])
        PROVE  /\ off(j - 1) + q \in 1..Len(f[m + 1])
               /\ f[m + 1][off(j - 1) + q] = seqs[j][q]
    <3>1. CASE j = m + 1
      <4>1. q \in 1..Len(t) /\ off(j - 1) = Len(s)
        BY <2>1, <2>3, <3>1 DEF t
      <4>2. Len(s) + q \in 1..(Len(s) + Len(t)) /\ ~(Len(s) + q <= Len(s)) /\ (Len(s) + q) - Len(s) = q
        BY <2>4, <4>1
      <4> QED
        BY <2>2, <2>4, <3>1, <4>1, <4>2 DEF t
    <3>2. CASE j # m + 1
      <4>1. j \in 1..m
        BY <3>2
      <4>2. off(j - 1) + q \in 1..Len(s) /\ s[off(j - 1) + q] = seqs[j][q]
        BY <1>6, <4>1 DEF s
      <4>3. off(j - 1) + q \in 1..(Len(s) + Len(t)) /\ off(j - 1) + q <= Len(s)
        BY <2>4, <4>2
      <4> QED
        BY <2>2, <2>4, <4>2, <4>3
    <3> QED
      BY <3>1, <3>2
  <2>6. Placed(m + 1)
    BY <2>2, <2>3, <2>4, <2>5
  <2> QED
    BY <2>1, <2>6
<1> HIDE DEF P, Placed
<1>7. \A m \in 0..n : m \in P
  BY <1>1, <1>5, <1>6, Induction
<1>8. Placed(n) /\ f[n] \in Seq(X)
  BY <1>1, <1>3, <1>7 DEF P
<1> QED
  BY <1>3, <1>8 DEF Placed, n, off

\* Every value of a part is a value of the whole.
LEMMA FlattenHolds ==
  ASSUME NEW X, NEW seqs \in Seq(Seq(X)), NEW j \in 1..Len(seqs)
  PROVE  ToSet(seqs[j]) \subseteq ToSet(FlattenSeq(seqs))
<1> SUFFICES ASSUME NEW x \in ToSet(seqs[j]) PROVE x \in ToSet(FlattenSeq(seqs))
  OBVIOUS
<1>1. seqs[j] \in Seq(X)
  OBVIOUS
<1>2. PICK t \in 1..Len(seqs[j]) : x = seqs[j][t]
  BY <1>1 DEF ToSet
<1> DEFINE q == Total(Lens(seqs), j - 1) + t
<1>3. q \in 1..Len(FlattenSeq(seqs)) /\ FlattenSeq(seqs)[q] = x /\ FlattenSeq(seqs) \in Seq(X)
  BY <1>2, FlattenPlaces
<1> HIDE DEF q
<1> QED
  BY <1>3 DEF ToSet

-------------------------------------------------------------------------------
(* Runs. *)

\* Where the runs of a vector start, and where they end.
RunStarts(v) == {p \in DOMAIN v : p > 1 => v[p] # v[p - 1]}
EndOfRun(v, k) ==
  LET starts == Ascending(RunStarts(v))
  IN IF k < Len(starts) THEN starts[k + 1] - 1 ELSE Len(v)
\* The runs of a vector follow each other from its first place to its last.
LEMMA RunsOf ==
  ASSUME NEW X, NEW v \in Seq(X)
  PROVE  LET starts == Ascending(RunStarts(v))
             runs == RunLengths(v)
             n == Len(starts)
         IN /\ n \in Nat /\ starts \in Seq(Nat) /\ \A k \in 1..n : starts[k] \in 1..Len(v)
            /\ runs \in Seq(Nat) /\ Len(runs) = n /\ DOMAIN runs = 1..n
            /\ \A k \in 1..n : runs[k] >= 1 /\ runs[k] = EndOfRun(v, k) + 1 - starts[k]
            /\ \A k \in 0..n : EndOfRun(v, k) \in 0..Len(v)
            /\ EndOfRun(v, 0) = 0 /\ EndOfRun(v, n) = Len(v)
            /\ \A k \in 1..n : starts[k] = EndOfRun(v, k - 1) + 1
            /\ v # <<>> => n >= 1
<1> DEFINE S == RunStarts(v)
           starts == Ascending(S)
           n == Len(starts)
           N == Len(v)
<1>1. N \in Nat /\ DOMAIN v = 1..N
  OBVIOUS
<1>2. S \in SUBSET (1..N) /\ S \in SUBSET Nat
  BY <1>1 DEF RunStarts
<1>3. IsFiniteSet(S)
  <2>1. IsFiniteSet(1..N)
    BY <1>1, FS_Interval
  <2> HIDE DEF S, N
  <2> QED
    BY <1>2, <2>1, FS_Subset
<1>4. N >= 1 => 1 \in S
  BY <1>1 DEF RunStarts
<1> HIDE DEF S, N
<1>5. /\ n \in Nat /\ starts \in Seq(S) /\ DOMAIN starts = 1..n
      /\ \A k \in 1..n : starts[k] \in S
      /\ \A j, k \in 1..n : j < k => starts[j] < starts[k]
  BY <1>2, <1>3, AscendingList
<1>6. \A k \in 1..n : starts[k] \in 1..N
  BY <1>2, <1>5
<1>7. IF N = 0 THEN n = 0 ELSE n >= 1 /\ starts[1] = 1
  <2>1. CASE N = 0
    <3>1. 1 \notin 1..n
      BY <1>6, <2>1
    <3> QED
      BY <1>5, <2>1, <3>1
  <2>2. CASE N # 0
    <3>1. 1 \in S
      BY <1>1, <1>4, <2>2
    <3>2. n >= 1 /\ starts[1] <= 1
      BY <1>2, <1>3, <3>1, AscendingEnds
    <3>3. starts[1] \in 1..N
      BY <1>5, <1>6, <3>2
    <3> QED
      BY <1>1, <2>2, <3>2, <3>3
  <2> QED
    BY <2>1, <2>2
<1> DEFINE E(k) == IF k < n THEN starts[k + 1] - 1 ELSE N
<1>8. \A k : EndOfRun(v, k) = E(k)
  BY DEF EndOfRun, S, N
<1>9. RunLengths(v) = [k \in 1..n |-> (IF k < n THEN starts[k + 1] ELSE N + 1) - starts[k]]
  BY <1>5 DEF RunLengths, RunStarts, S, N
<1>10. starts \in Seq(Nat)
  <2> HIDE DEF starts
  <2> QED
    BY <1>2, <1>5, SeqMonotonic
<1> HIDE DEF n, starts
<1> DEFINE runs == [k \in 1..n |-> (IF k < n THEN starts[k + 1] ELSE N + 1) - starts[k]]
<1>11. ASSUME NEW k \in 1..n PROVE runs[k] \in Nat /\ runs[k] >= 1 /\ runs[k] = E(k) + 1 - starts[k]
  <2>1. runs[k] = (IF k < n THEN starts[k + 1] ELSE N + 1) - starts[k] /\ starts[k] \in 1..N
    BY <1>6
  <2>2. CASE k < n
    <3>1. k + 1 \in 1..n
      BY <1>5, <2>2
    <3>2. starts[k + 1] \in 1..N /\ starts[k] < starts[k + 1]
      BY <1>5, <1>6, <3>1
    <3> QED
      BY <1>1, <2>1, <2>2, <3>2
  <2>3. CASE ~(k < n)
    BY <1>1, <2>1, <2>3
  <2> QED
    BY <2>2, <2>3
<1>12. runs \in Seq(Nat) /\ Len(runs) = n /\ DOMAIN runs = 1..n
  <2>1. runs \in [1..n -> Nat]
    BY <1>11
  <2> HIDE DEF runs
  <2> QED
    BY <1>5, <2>1
<1>13. \A k \in 0..n : E(k) \in 0..N
  <2> SUFFICES ASSUME NEW k \in 0..n PROVE E(k) \in 0..N
    OBVIOUS
  <2>1. CASE k < n
    <3>1. k + 1 \in 1..n
      BY <1>5, <2>1
    <3> QED
      BY <1>1, <1>6, <2>1, <3>1
  <2>2. CASE ~(k < n)
    BY <1>1, <2>2
  <2> QED
    BY <2>1, <2>2
<1>14. E(0) = 0 /\ E(n) = N
  BY <1>1, <1>5, <1>7
<1>15. \A k \in 1..n : starts[k] = E(k - 1) + 1
  <2> SUFFICES ASSUME NEW k \in 1..n PROVE starts[k] = E(k - 1) + 1
    OBVIOUS
  <2>1. k - 1 < n /\ (k - 1) + 1 = k /\ starts[k] \in Int
    BY <1>5, <1>6
  <2> QED
    BY <2>1
<1>16. v # <<>> => n >= 1
  BY <1>7 DEF N
<1> HIDE DEF runs, E
<1> QED
  BY <1>5, <1>6, <1>8, <1>9, <1>10, <1>11, <1>12, <1>13, <1>14, <1>15, <1>16 DEF runs, starts, n, S, N

\* The lengths of the first runs add up to where the last of them ends.
LEMMA RunTotals ==
  ASSUME NEW X, NEW v \in Seq(X)
  PROVE  \A k \in 0..Len(RunLengths(v)) : Total(RunLengths(v), k) = EndOfRun(v, k)
<1> DEFINE runs == RunLengths(v)
           starts == Ascending(RunStarts(v))
           n == Len(runs)
           E(k) == EndOfRun(v, k)
           P == {k \in 0..n : Total(runs, k) = E(k)}
<1>1. /\ n \in Nat /\ n = Len(starts) /\ \A k \in 1..n : runs[k] \in Nat
      /\ \A k \in 1..n : starts[k] \in Nat
      /\ \A k \in 1..n : runs[k] = E(k) + 1 - starts[k]
      /\ \A k \in 0..n : E(k) \in Nat
      /\ E(0) = 0
      /\ \A k \in 1..n : starts[k] = E(k - 1) + 1
  <2>1. \A k \in 0..n : E(k) \in 0..Len(v)
    BY RunsOf
  <2>2. \A k \in 0..Len(v) : k \in Nat
    OBVIOUS
  <2>3. n \in Nat /\ n = Len(starts) /\ E(0) = 0 /\ runs \in Seq(Nat)
    BY RunsOf
  <2>4. \A k \in 1..n : starts[k] \in 1..Len(v)
    BY RunsOf
  <2>5. \A k \in 1..n : starts[k] = E(k - 1) + 1
    BY RunsOf
  <2>6. \A k \in 1..n : runs[k] = E(k) + 1 - starts[k]
    BY RunsOf
  <2>7. \A k \in 1..n : runs[k] \in Nat
    BY <2>3
  <2>8. \A k \in 1..Len(v) : k \in Nat
    OBVIOUS
  <2> HIDE DEF E, n, starts, runs
  <2> QED
    BY <2>1, <2>2, <2>3, <2>4, <2>5, <2>6, <2>7, <2>8
<1> HIDE DEF E, runs, starts
<1>2. /\ Total(runs, 0) = 0
      /\ \A k \in 1..n : Total(runs, k) = Total(runs, k - 1) + runs[k]
  <2>1. \A k \in 1..n : runs[k] \in Int
    BY <1>1
  <2> HIDE DEF n
  <2> QED
    BY <1>1, <2>1, TotalStep
<1> HIDE DEF n
<1>3. 0 \in P
  BY <1>1, <1>2
<1>4. ASSUME NEW k \in 0..(n - 1), k \in P PROVE k + 1 \in P
  <2>1. k + 1 \in 1..n /\ (k + 1) - 1 = k /\ k \in 0..n /\ k + 1 \in 0..n
    BY <1>1
  <2>2. runs[k + 1] = E(k + 1) + 1 - starts[k + 1] /\ starts[k + 1] = E(k) + 1
    BY <1>1, <2>1
  <2>3. E(k) \in Nat /\ E(k + 1) \in Nat
    BY <1>1, <2>1
  <2>4. Total(runs, k + 1) = Total(runs, k) + runs[k + 1] /\ Total(runs, k) = E(k)
    BY <1>2, <1>4, <2>1
  <2> QED
    BY <2>1, <2>2, <2>3, <2>4
<1> HIDE DEF P
<1>5. \A k \in 0..n : k \in P
  BY <1>1, <1>3, <1>4, Induction
<1> QED
  BY <1>5 DEF P, E, n, runs

\* Every place of a vector is in a run.
LEMMA InARun ==
  ASSUME NEW X, NEW v \in Seq(X), NEW p \in 1..Len(v)
  PROVE  \E k \in 1..Len(RunLengths(v)) : EndOfRun(v, k - 1) < p /\ p <= EndOfRun(v, k)
<1> DEFINE n == Len(RunLengths(v))
           E(k) == EndOfRun(v, k)
           T == {k \in 0..n : p <= E(k)}
           m == Min(T)
<1>1. n \in Nat /\ E(0) = 0 /\ E(n) = Len(v) /\ \A k \in 0..n : E(k) \in 0..Len(v)
  BY RunsOf
<1>2. Len(v) \in Nat
  OBVIOUS
<1> HIDE DEF n, E
<1>3. T \in SUBSET Nat /\ n \in T
  BY <1>1, <1>2
<1>4. m \in T /\ \A y \in T : m <= y
  BY <1>3, MinOfNaturals
<1>5. m \in 1..n /\ p <= E(m)
  BY <1>1, <1>2, <1>4
<1>6. m - 1 \notin T
  <2> HIDE DEF m
  <2> QED
    BY <1>4, <1>5
<1> HIDE DEF m
<1>7. m - 1 \in 0..n /\ E(m - 1) \in Int /\ E(m - 1) < p
  BY <1>1, <1>2, <1>5, <1>6
<1> QED
  BY <1>5, <1>7 DEF n, E

\* A vector has one value in a run.
LEMMA RunValue ==
  ASSUME NEW X, NEW v \in Seq(X), NEW k \in 1..Len(RunLengths(v)),
         NEW p \in Nat, EndOfRun(v, k - 1) < p, p <= EndOfRun(v, k)
  PROVE  p \in 1..Len(v) /\ v[p] = v[EndOfRun(v, k - 1) + 1]
<1> DEFINE S == RunStarts(v)
           starts == Ascending(S)
           n == Len(RunLengths(v))
           N == Len(v)
           E(j) == EndOfRun(v, j)
           a == starts[k]
           T == {q \in a..E(k) : v[q] # v[a]}
           m == Min(T)
<1>1. /\ n \in Nat /\ N \in Nat /\ n = Len(starts) /\ DOMAIN v = 1..N
      /\ a \in 1..N /\ a = E(k - 1) + 1
      /\ E(k) \in 0..N /\ E(k - 1) \in 0..N
      /\ E(k) = IF k < n THEN starts[k + 1] - 1 ELSE N
  <2>1. n \in Nat /\ n = Len(starts) /\ k - 1 \in 0..n /\ k \in 0..n /\ k \in 1..n
    BY RunsOf
  <2>2. \A j \in 0..n : E(j) \in 0..N
    BY RunsOf
  <2>3. \A j \in 1..n : starts[j] \in 1..N
    BY RunsOf
  <2>4. \A j \in 1..n : starts[j] = E(j - 1) + 1
    BY RunsOf
  <2>5. E(k) = IF k < n THEN starts[k + 1] - 1 ELSE N
    BY <2>1 DEF EndOfRun
  <2> HIDE DEF E, n, starts
  <2> QED
    BY <2>1, <2>2, <2>3, <2>4, <2>5
<1>2. S \in SUBSET Nat /\ S \in SUBSET (1..N) /\ IsFiniteSet(S)
  <2>1. S \in SUBSET (1..N) /\ IsFiniteSet(1..N)
    BY <1>1, FS_Interval DEF RunStarts
  <2> HIDE DEF S, N
  <2>2. IsFiniteSet(S)
    BY <2>1, FS_Subset
  <2>3. S \in SUBSET Nat
    BY <1>1, <2>1
  <2> QED
    BY <2>1, <2>2, <2>3
<1>3. ASSUME NEW q \in 1..N, q > 1, v[q] # v[q - 1] PROVE q \in S
  BY <1>1, <1>3 DEF RunStarts
<1>4. k \in 1..n
  OBVIOUS
<1> HIDE DEF S, n, N, E, starts
<1>5. ASSUME NEW q \in S, q > a PROVE q > E(k)
  <2>1. q \in Nat /\ n \in Nat /\ a \in Nat
    BY <1>1, <1>2
  <2>2. CASE k < n
    <3>1. k \in 1..(Len(starts) - 1)
      BY <1>1, <1>4, <2>2
    <3>2. q >= starts[k + 1]
      BY <1>2, <1>5, <3>1, NothingBetween DEF starts
    <3>3. starts[k + 1] \in Int /\ E(k) = starts[k + 1] - 1
      <4>1. k + 1 \in 1..Len(starts)
        BY <1>1, <3>1
      <4>2. starts[k + 1] \in S
        BY <1>2, <4>1, AscendingList DEF starts
      <4>3. starts[k + 1] \in Nat
        BY <1>2, <4>2
      <4> QED
        BY <1>1, <2>2, <4>3
    <3> QED
      BY <2>1, <3>2, <3>3
  <2>3. CASE ~(k < n)
    <3>1. k = n /\ S # {}
      BY <1>1, <1>4, <2>3
    <3>2. q <= starts[n]
      BY <1>1, <1>2, <3>1, AscendingEnds DEF starts
    <3> QED
      BY <1>5, <2>1, <3>1, <3>2
  <2> QED
    BY <2>2, <2>3
<1> HIDE DEF a
<1>6. T = {}
  <2> SUFFICES ASSUME T # {} PROVE FALSE
    OBVIOUS
  <2>1. T \in SUBSET Nat
    BY <1>1
  <2>2. m \in T /\ \A y \in T : m <= y
    BY <2>1, MinOfNaturals
  <2>3. m \in a..E(k) /\ v[m] # v[a]
    BY <2>2
  <2>4. m \in 1..N /\ m > a /\ m > 1 /\ m - 1 \in a..E(k)
    <3> HIDE DEF m
    <3>1. m # a
      BY <2>3
    <3> QED
      BY <1>1, <2>3, <3>1
  <2>5. v[m - 1] = v[a]
    <3>1. m - 1 \notin T
      <4> HIDE DEF m
      <4> QED
        BY <1>1, <2>2, <2>4
    <3> HIDE DEF m
    <3> QED
      BY <2>4, <3>1
  <2>6. m \in S
    <3> HIDE DEF m
    <3> QED
      BY <1>3, <2>3, <2>4, <2>5
  <2>7. m > E(k)
    BY <1>5, <2>4, <2>6
  <2> HIDE DEF m
  <2> QED
    BY <1>1, <2>3, <2>7
<1>7. p \in a..E(k)
  <2>1. E(k - 1) < p /\ p <= E(k)
    BY DEF E
  <2> QED
    BY <1>1, <2>1
<1>8. v[p] = v[a] /\ p \in 1..N
  BY <1>1, <1>6, <1>7
<1> QED
  BY <1>1, <1>8 DEF a, E, N

\* In a vector of bits odd runs have the first bit, even runs the other one.
LEMMA RunBit ==
  ASSUME NEW v \in Seq(BOOLEAN), NEW k \in 1..Len(RunLengths(v)),
         NEW p \in Nat, EndOfRun(v, k - 1) < p, p <= EndOfRun(v, k)
  PROVE  v[p] <=> (k % 2 = 1 <=> v[1])
<1> DEFINE n == Len(RunLengths(v))
           N == Len(v)
           E(j) == EndOfRun(v, j)
           Good(j) == v[E(j) + 1] <=> ((j + 1) % 2 = 1 <=> v[1])
           P == {j \in 0..(n - 1) : Good(j)}
<1>1. /\ n \in Nat /\ N \in Nat /\ E(0) = 0 /\ \A j \in 0..n : E(j) \in 0..N
      /\ \A j \in 1..n : E(j - 1) + 1 \in 1..N
      /\ \A j \in 1..n : E(j - 1) + 1 <= E(j)
      /\ \A j \in 1..n : E(j - 1) + 1 \in RunStarts(v)
  <2> DEFINE starts == Ascending(RunStarts(v))
             runs == RunLengths(v)
  <2>1. n \in Nat /\ N \in Nat /\ E(0) = 0 /\ n = Len(starts)
    BY RunsOf
  <2>2. \A j \in 0..n : E(j) \in 0..N
    BY RunsOf
  <2>3. \A j \in 1..n : starts[j] = E(j - 1) + 1
    BY RunsOf
  <2>4. \A j \in 1..n : starts[j] \in 1..N
    BY RunsOf
  <2>5. \A j \in 1..n : runs[j] >= 1 /\ runs[j] = E(j) + 1 - starts[j]
    BY RunsOf
  <2>6. \A j \in 1..n : starts[j] \in RunStarts(v)
    <3>1. RunStarts(v) \in SUBSET (1..N) /\ IsFiniteSet(1..N)
      <4>1. DOMAIN v = 1..N /\ N \in Nat
        OBVIOUS
      <4> HIDE DEF N
      <4> QED
        BY <4>1, FS_Interval DEF RunStarts
    <3>2. IsFiniteSet(RunStarts(v)) /\ RunStarts(v) \in SUBSET Nat
      <4> HIDE DEF N
      <4> QED
        BY <2>1, <3>1, FS_Subset
    <3> QED
      BY <2>1, <3>2, AscendingList
  <2> HIDE DEF n, N, E, starts, runs
  <2>7. ASSUME NEW j \in 1..n PROVE E(j - 1) + 1 <= E(j)
    <3>1. j \in 0..n /\ E(j) \in Int /\ starts[j] \in Int
      BY <2>1, <2>2, <2>4
    <3> QED
      BY <2>3, <2>5, <3>1
  <2> QED
    BY <2>1, <2>2, <2>3, <2>4, <2>6, <2>7
<1>2. \A j \in 1..N : v[j] \in BOOLEAN
  OBVIOUS
<1>3. \A j \in 1..n : \A q \in Nat : E(j - 1) < q /\ q <= E(j) => v[q] = v[E(j - 1) + 1]
  BY RunValue
<1>4. DOMAIN v = 1..N
  OBVIOUS
<1>5. k \in 1..n /\ E(k - 1) < p /\ p <= E(k)
  OBVIOUS
<1> HIDE DEF n, N, E
<1>6. 0 \in P
  <2>1. 0 \in 0..(n - 1)
    BY <1>1, <1>5
  <2>2. 1 \in 1..N
    BY <1>1, <1>5
  <2>3. (0 + 1) % 2 = 1
    OBVIOUS
  <2>4. v[E(0) + 1] = v[1] /\ v[1] \in BOOLEAN
    BY <1>1, <1>2, <2>2
  <2>5. Good(0)
    BY <2>3, <2>4
  <2> QED
    BY <2>1, <2>5
<1>7. ASSUME NEW j \in 0..(n - 1 - 1), j \in P PROVE j + 1 \in P
  <2>1. j + 1 \in 1..n /\ j + 2 \in 1..n /\ (j + 1) - 1 = j /\ (j + 2) - 1 = j + 1 /\ j \in 0..n
        /\ j + 1 \in 0..n /\ j + 1 \in 0..(n - 1) /\ (j + 1) + 1 = j + 2
    BY <1>1, <1>5
  <2> DEFINE q == E(j + 1)
  <2>2. q \in 1..N /\ q + 1 \in 1..N /\ q + 1 \in RunStarts(v) /\ E(j) < q /\ q <= E(j + 1)
    <3>1. E(j) + 1 <= q /\ E(j) + 1 \in 1..N /\ E(j) \in 0..N /\ q \in 0..N
      BY <1>1, <2>1
    <3>2. q + 1 \in 1..N /\ q + 1 \in RunStarts(v)
      BY <1>1, <2>1
    <3> HIDE DEF q
    <3>3. q \in 1..N /\ E(j) < q
      BY <1>1, <3>1
    <3> QED
      BY <3>1, <3>2, <3>3 DEF q
  <2> HIDE DEF q
  <2>3. v[q] = v[E(j) + 1]
    <3>1. q \in Nat
      BY <1>1, <2>2
    <3> QED
      BY <1>3, <2>1, <2>2, <3>1
  <2>4. v[q + 1] # v[q]
    <3>1. q + 1 > 1 /\ (q + 1) - 1 = q
      BY <1>1, <2>2
    <3> QED
      BY <2>2, <3>1 DEF RunStarts
  <2>5. v[q] \in BOOLEAN /\ v[q + 1] \in BOOLEAN /\ v[1] \in BOOLEAN
    <3>1. 1 \in 1..N
      BY <1>1, <2>2
    <3> QED
      BY <1>2, <2>2, <3>1
  <2>6. Good(j)
    BY <1>7
  <2>7. (j + 1) % 2 = 1 <=> (j + 2) % 2 # 1
    OBVIOUS
  <2>8. v[E(j + 1) + 1] <=> ((j + 2) % 2 = 1 <=> v[1])
    <3>1. v[E(j) + 1] <=> ((j + 1) % 2 = 1 <=> v[1])
      BY <2>6
    <3>2. v[q] <=> ((j + 1) % 2 = 1 <=> v[1])
      BY <2>3, <3>1
    <3>3. v[q + 1] <=> ~v[q]
      BY <2>4, <2>5
    <3> DEFINE odd == (j + 1) % 2 = 1
               odd2 == (j + 2) % 2 = 1
    <3>4. odd <=> ~odd2
      BY <2>7
    <3> HIDE DEF odd, odd2
    <3>5. v[q + 1] <=> (odd2 <=> v[1])
      BY <2>5, <3>2, <3>3, <3>4 DEF odd
    <3> QED
      BY <3>5 DEF odd2, q
  <2>9. Good(j + 1)
    BY <2>1, <2>8
  <2> QED
    BY <2>1, <2>9
<1> HIDE DEF P, Good
<1>8. \A j \in 0..(n - 1) : j \in P
  <2>1. n - 1 \in Nat
    BY <1>1, <1>5
  <2> QED
    BY <1>6, <1>7, <2>1, Induction
<1>9. k - 1 \in 0..(n - 1) /\ (k - 1) + 1 = k
  BY <1>1, <1>5
<1>10. Good(k - 1)
  BY <1>8, <1>9 DEF P
<1>11. v[p] = v[E(k - 1) + 1]
  BY <1>3, <1>5
<1> QED
  BY <1>9, <1>10, <1>11 DEF Good

-------------------------------------------------------------------------------
(* Copied links. *)

\* All runs of the bits but the last are written.
LEMMA BlocksOf ==
  ASSUME NEW v \in Seq(BOOLEAN)
  PROVE  LET blocks == block_encoding(v).blocks
             n == Len(RunLengths(v))
         IN /\ n \in Nat /\ blocks \in Seq(Nat)
            /\ v # <<>> => n >= 1 /\ Len(blocks) = n - 1
            /\ v = <<>> => blocks = <<>>
            /\ \A k \in 1..Len(blocks) : blocks[k] = RunLengths(v)[k] /\ blocks[k] >= 1
<1> DEFINE runs == RunLengths(v)
           n == Len(runs)
           blocks == block_encoding(v).blocks
<1>1. runs \in Seq(Nat) /\ n \in Nat /\ (v # <<>> => n >= 1) /\ \A k \in 1..n : runs[k] >= 1
  BY RunsOf
<1>2. blocks = IF v = <<>> THEN <<>> ELSE SubSeq(runs, 1, n - 1)
  BY DEF block_encoding, Front
<1> HIDE DEF runs, blocks
<1>3. CASE v = <<>>
  <2>1. blocks = <<>> /\ Len(<<>>) = 0 /\ <<>> \in Seq(Nat)
    BY <1>2, <1>3
  <2>2. \A k \in 1..Len(blocks) : blocks[k] = runs[k] /\ blocks[k] >= 1
    BY <2>1
  <2> HIDE DEF n
  <2> QED
    BY <1>1, <1>3, <2>1, <2>2 DEF n, runs, blocks
<1>4. CASE v # <<>>
  <2>1. n >= 1 /\ blocks = SubSeq(runs, 1, n - 1)
    BY <1>1, <1>2, <1>4
  <2>2. blocks \in Seq(Nat) /\ Len(blocks) = n - 1 /\ \A k \in 1..(n - 1) : blocks[k] = runs[k]
    <3>1. 1 \in 1..(n + 1) /\ n - 1 \in (1 - 1)..n
      BY <1>1, <2>1
    <3>2. /\ SubSeq(runs, 1, n - 1) \in Seq(Nat)
          /\ Len(SubSeq(runs, 1, n - 1)) = IF 1 <= n - 1 THEN n - 1 - 1 + 1 ELSE 0
          /\ \A k \in 1..(n - 1 - 1 + 1) : SubSeq(runs, 1, n - 1)[k] = runs[1 + k - 1]
      BY <1>1, <3>1, SubSeqProperties
    <3>3. n - 1 - 1 + 1 = n - 1 /\ \A k \in 1..(n - 1) : 1 + k - 1 = k
      BY <1>1
    <3> HIDE DEF n
    <3>4. (IF 1 <= n - 1 THEN n - 1 - 1 + 1 ELSE 0) = n - 1
      BY <1>1, <2>1
    <3> QED
      BY <2>1, <3>2, <3>3, <3>4
  <2>3. \A k \in 1..(n - 1) : k \in 1..n
    BY <1>1
  <2> HIDE DEF n
  <2>4. \A k \in 1..Len(blocks) : blocks[k] = runs[k] /\ blocks[k] >= 1
    BY <1>1, <2>2, <2>3
  <2> QED
    BY <1>1, <1>4, <2>1, <2>2, <2>4 DEF n, runs, blocks
<1> QED
  BY <1>3, <1>4

\* The reader finds the run a bit is in.
LEMMA BlockOfRun ==
  ASSUME NEW v \in Seq(BOOLEAN), v # <<>>, NEW w, w.blocks = block_encoding(v).blocks,
         NEW k \in 1..Len(RunLengths(v)),
         NEW p \in Nat, EndOfRun(v, k - 1) < p, p <= EndOfRun(v, k)
  PROVE  BlockOf(w, p) = k
<1> DEFINE runs == RunLengths(v)
           n == Len(runs)
           blocks == w.blocks
           E(j) == EndOfRun(v, j)
<1>1. /\ n \in Nat /\ n >= 1 /\ blocks \in Seq(Nat) /\ Len(blocks) = n - 1
      /\ \A j \in 1..(n - 1) : blocks[j] = runs[j]
  BY BlocksOf
<1>2. runs \in Seq(Nat) /\ \A j \in 1..n : runs[j] \in Nat
  <2>1. runs \in Seq(Nat)
    BY RunsOf
  <2> HIDE DEF runs
  <2> QED
    BY <2>1
<1>3. /\ \A j \in 0..n : Total(runs, j) = E(j)
      /\ \A j \in 0..n : E(j) \in Int
  <2>1. \A j \in 0..n : E(j) \in 0..Len(v)
    BY RunsOf
  <2>2. \A x \in 0..Len(v) : x \in Int
    OBVIOUS
  <2> HIDE DEF E
  <2>3. \A j \in 0..n : E(j) \in Int
    BY <2>1, <2>2
  <2> QED
    BY <2>3, RunTotals DEF E
<1>4. \A i \in 0..n : \A j \in i..n : Total(runs, i) <= Total(runs, j)
  <2> HIDE DEF n
  <2> QED
    BY <1>1, <1>2, TotalGrows
<1>5. \A j \in 0..(n - 1) : Total(blocks, j) = Total(runs, j)
  <2>1. n - 1 \in Nat /\ \A j \in 1..(n - 1) : j \in 1..n
    BY <1>1
  <2>2. \A j \in 1..(n - 1) : blocks[j] \in Int /\ runs[j] = blocks[j]
    <3> HIDE DEF n, blocks, runs
    <3> QED
      BY <1>1, <1>2, <2>1
  <2> HIDE DEF n, blocks, runs
  <2> QED
    BY <2>1, <2>2, TotalSame
<1>6. k \in 1..n /\ E(k - 1) < p /\ p <= E(k)
  OBVIOUS
<1> HIDE DEF n, blocks, E, runs
<1> DEFINE T == {j \in DOMAIN blocks : Total(blocks, j) < p}
<1>7. T = 1..(k - 1)
  <2>1. DOMAIN blocks = 1..(n - 1)
    BY <1>1
  <2>2. ASSUME NEW j \in 1..(n - 1) PROVE Total(blocks, j) < p <=> j \in 1..(k - 1)
    <3>1. Total(blocks, j) = E(j) /\ E(j) \in Int /\ E(k - 1) \in Int /\ E(k) \in Int
      <4>1. j \in 0..(n - 1) /\ j \in 0..n /\ k - 1 \in 0..n /\ k \in 0..n
        BY <1>1, <1>6
      <4> QED
        BY <1>3, <1>5, <4>1
    <3>2. CASE j \in 1..(k - 1)
      <4>1. j \in 0..n /\ k - 1 \in j..n
        BY <1>1, <1>6, <3>2
      <4>2. E(j) <= E(k - 1)
        BY <1>3, <1>4, <4>1
      <4> QED
        BY <1>6, <3>1, <3>2, <4>2
    <3>3. CASE j \notin 1..(k - 1)
      <4>1. k \in 0..n /\ j \in k..n /\ j \in 0..n
        BY <1>1, <1>6, <3>3
      <4>2. E(k) <= E(j)
        BY <1>3, <1>4, <4>1
      <4> QED
        BY <1>6, <3>1, <3>3, <4>2
    <3> QED
      BY <3>2, <3>3
  <2>3. \A j \in 1..(k - 1) : j \in 1..(n - 1)
    BY <1>1, <1>6
  <2> QED
    BY <2>1, <2>2, <2>3
<1>8. Cardinality(1..(k - 1)) = k - 1
  <2>1. Cardinality(1..(k - 1)) = IF 1 > k - 1 THEN 0 ELSE k - 1 - 1 + 1
    BY <1>1, <1>6, FS_Interval
  <2> QED
    BY <1>1, <1>6, <2>1
<1>9. BlockOf(w, p) = Cardinality(T) + 1
  BY DEF BlockOf, blocks
<1> HIDE DEF T
<1>10. (k - 1) + 1 = k
  BY <1>1, <1>6
<1> QED
  BY <1>7, <1>8, <1>9, <1>10

\* What the reader copies is what the page shares with its reference, unless the
\* flag is missing and the first bit is not set.
LEMMA CopiedAreShared ==
  ASSUME NEW refLinks \in SUBSET Nat, IsFiniteSet(refLinks), NEW links, NEW w,
         w.blocks = block_encoding(Bits(refLinks, links)).blocks,
         w.blockFlag = IF w.blocks = <<>> THEN <<>>
                       ELSE <<block_encoding(Bits(refLinks, links)).flag>>,
         refLinks # {} /\ w.blocks = <<>> => Bits(refLinks, links)[1]
  PROVE  ReadCopied(w, refLinks) = refLinks \cap links
<1> DEFINE v == Bits(refLinks, links)
           ref == Ascending(refLinks)
           N == Cardinality(refLinks)
           First == IF w.blockFlag = <<>> THEN TRUE ELSE w.blockFlag[1]
<1>1. /\ v \in Seq(BOOLEAN) /\ Len(v) = N /\ DOMAIN v = 1..N /\ N \in Nat
  BY BitsType, FS_CardinalityType
<1>2. /\ ref \in Seq(refLinks) /\ Len(ref) = N /\ DOMAIN ref = 1..N
      /\ \A k \in 1..N : ref[k] \in refLinks /\ Position(refLinks, ref[k]) = k
      /\ \A x \in refLinks : Position(refLinks, x) \in 1..N /\ ref[Position(refLinks, x)] = x
  BY AscendingList
<1>3. ASSUME NEW q \in 1..N PROVE v[q] <=> ref[q] \in links
  <2>1. v[q] = \E l \in refLinks : l \in links /\ Position(refLinks, l) = q
    BY <1>1, <1>3 DEF Bits
  <2>2. (\E l \in refLinks : l \in links /\ Position(refLinks, l) = q) <=> ref[q] \in links
    <3> HIDE DEF ref, N
    <3> QED
      BY <1>2
  <2> QED
    BY <2>1, <2>2
<1>4. ASSUME NEW q \in 1..N PROVE v[q] <=> ((BlockOf(w, q) % 2 = 1) = First)
  <2>1. v # <<>> /\ N >= 1 /\ q \in Nat
    BY <1>1, <1>4
  <2>2. PICK k \in 1..Len(RunLengths(v)) : EndOfRun(v, k - 1) < q /\ q <= EndOfRun(v, k)
    BY <1>1, <1>4, InARun
  <2>3. BlockOf(w, q) = k
    <3> HIDE DEF v
    <3> QED
      BY <1>1, <2>1, <2>2, BlockOfRun DEF v
  <2>4. v[q] <=> (k % 2 = 1 <=> v[1])
    <3> HIDE DEF v
    <3> QED
      BY <1>1, <2>1, <2>2, RunBit
  <2>5. First = v[1] /\ v[1] \in BOOLEAN
    <3>1. v[1] \in BOOLEAN
      BY <1>1, <2>1
    <3>2. block_encoding(v).flag = v[1]
      <4>1. block_encoding(v).flag = (v # <<>> /\ v[1])
        BY DEF block_encoding
      <4> HIDE DEF v
      <4> QED
        BY <2>1, <3>1, <4>1
    <3>3. CASE w.blocks = <<>>
      <4>1. refLinks # {}
        BY <1>1, <2>1, FS_EmptySet
      <4>2. v[1]
        BY <3>3, <4>1
      <4>3. First = TRUE
        BY <3>3
      <4> HIDE DEF v, First
      <4> QED
        BY <3>1, <4>2, <4>3
    <3>4. CASE w.blocks # <<>>
      <4> DEFINE f == block_encoding(v).flag
      <4>1. w.blockFlag = <<f>>
        BY <3>4
      <4> HIDE DEF f
      <4>0. <<f>> # <<>> /\ <<f>>[1] = f
        OBVIOUS
      <4>2. First = f
        BY <4>0, <4>1
      <4> HIDE DEF v, First
      <4> QED
        BY <3>1, <3>2, <4>2 DEF f
    <3> QED
      BY <3>3, <3>4
  <2> HIDE DEF v, First
  <2> DEFINE odd == k % 2 = 1
  <2>6. odd \in BOOLEAN
    OBVIOUS
  <2>7. (BlockOf(w, q) % 2 = 1) = odd
    BY <2>3
  <2> HIDE DEF odd
  <2>8. (odd <=> v[1]) <=> (odd = First)
    BY <2>5, <2>6
  <2> QED
    BY <2>4, <2>7, <2>8 DEF odd
<1>5. ReadCopied(w, refLinks) = {ref[p] : p \in {q \in DOMAIN ref : (BlockOf(w, q) % 2 = 1) = First}}
  BY DEF ReadCopied
<1> HIDE DEF v, First
<1>6. {q \in DOMAIN ref : (BlockOf(w, q) % 2 = 1) = First} = {q \in 1..N : ref[q] \in links}
  <2> HIDE DEF ref, N
  <2> QED
    BY <1>2, <1>3, <1>4
<1>7. {ref[p] : p \in {q \in 1..N : ref[q] \in links}} = refLinks \cap links
  <2> HIDE DEF ref, N
  <2>1. \A p \in 1..N : ref[p] \in refLinks
    BY <1>2
  <2>2. \A x \in refLinks : \E p \in 1..N : ref[p] = x
    BY <1>2
  <2> QED
    BY <2>1, <2>2
<1> QED
  BY <1>5, <1>6, <1>7

\* A page is described by another one only when they share a link: else describing
\* it by the root is as cheap.
LEMMA SharedLink ==
  ASSUME NEW g, IsGraph(g), NEW i \in Page, find_ref(g, i) # Root
  PROVE  g[i] \cap g[find_ref(g, i)] # {}
<1> DEFINE r == find_ref(g, i)
<1>1. r \in 0..PageCount /\ i \in 0..PageCount
  <2>1. r \in 0..(i - 1)
    BY FindRefBefore
  <2> HIDE DEF r
  <2> QED
    BY <2>1, NumbersAssumption DEF Page
<1>2. ~(cost(g[i], g[r]) >= cost(g[i], g[Root]))
  BY DEF find_ref
<1> HIDE DEF r
<1>3. IsFiniteSet(g[r]) /\ IsFiniteSet(g[i]) /\ g[Root] = {}
  BY <1>1 DEF IsGraph
<1>4. ASSUME g[i] \cap g[r] = {} PROVE FALSE
  <2> DEFINE bits == PageBits * (Cardinality(g[i]) + 1)
  <2>1. g[i] \ g[r] = g[i] /\ g[i] \ {} = g[i]
    BY <1>4
  <2>2. Cardinality(g[r]) \in Nat /\ Cardinality({}) = 0
    BY <1>3, FS_CardinalityType, FS_EmptySet
  <2>3. cost(g[i], g[r]) = Cardinality(g[r]) + bits
    BY <2>1 DEF cost, difference
  <2>4. cost(g[i], g[Root]) = 0 + bits
    BY <1>3, <2>1, <2>2 DEF cost, difference
  <2>5. 0 + bits \in Int
    <3>1. cost(g[i], {}) \in Nat
      BY <1>3, CostType, FS_EmptySet
    <3> HIDE DEF bits
    <3> QED
      BY <1>3, <2>4, <3>1
  <2>6. bits \in Int
    <3>1. IsFiniteSet(0..PageCount)
      BY NumbersAssumption, FS_Interval
    <3>2. PageBits \in Nat
      BY <3>1, FS_CardinalityType, FS_Subset DEF PageBits
    <3>3. Cardinality(g[i]) \in Nat
      BY <1>3, FS_CardinalityType
    <3> QED
      BY <3>2, <3>3
  <2> HIDE DEF bits
  <2> QED
    BY <1>2, <2>2, <2>3, <2>4, <2>6
<1> QED
  BY <1>4 DEF r

\* When there is one block only and a link is shared, all links are.
LEMMA OneBlockIsCopied ==
  ASSUME NEW refLinks \in SUBSET Nat, IsFiniteSet(refLinks), NEW links,
         links \cap refLinks # {}, block_encoding(Bits(refLinks, links)).blocks = <<>>
  PROVE  Bits(refLinks, links)[1]
<1> DEFINE v == Bits(refLinks, links)
           N == Cardinality(refLinks)
           n == Len(RunLengths(v))
<1>1. /\ v \in Seq(BOOLEAN) /\ Len(v) = N /\ DOMAIN v = 1..N /\ N \in Nat
  BY BitsType, FS_CardinalityType
<1>2. PICK l \in refLinks : l \in links
  OBVIOUS
<1> DEFINE p == Position(refLinks, l)
<1>3. p \in 1..N
  BY PositionType
<1>4. v[p] = \E k \in refLinks : k \in links /\ Position(refLinks, k) = p
  BY <1>3 DEF Bits
<1>5. v[p]
  BY <1>2, <1>4
<1>6. v # <<>> /\ n \in Nat
  <2>1. v # <<>>
    BY <1>1, <1>3
  <2> HIDE DEF v
  <2> QED
    BY <1>1, <2>1, RunsOf
<1>7. n = 1
  <2>1. n >= 1 /\ Len(block_encoding(v).blocks) = n - 1
    <3> HIDE DEF v
    <3> QED
      BY <1>1, <1>6, BlocksOf
  <2>2. block_encoding(v).blocks = <<>>
    OBVIOUS
  <2> HIDE DEF v, n
  <2> QED
    BY <1>6, <2>1, <2>2
<1>8. EndOfRun(v, 0) = 0 /\ EndOfRun(v, n) = Len(v)
  <2> HIDE DEF v
  <2> QED
    BY <1>1, RunsOf
<1>9. v[p] = v[1]
  <2> HIDE DEF v, p
  <2>1. 1 \in 1..Len(RunLengths(v)) /\ EndOfRun(v, 1) = N /\ 1 - 1 = 0 /\ p \in Nat
    BY <1>1, <1>3, <1>7, <1>8
  <2>2. EndOfRun(v, 1 - 1) < p /\ p <= EndOfRun(v, 1)
    BY <1>1, <1>3, <1>8, <2>1
  <2>3. v[p] = v[EndOfRun(v, 1 - 1) + 1]
    BY <1>1, <2>1, <2>2, RunValue
  <2>4. EndOfRun(v, 1 - 1) + 1 = 1
    BY <1>8, <2>1
  <2> QED
    BY <2>3, <2>4
<1> HIDE DEF v, p
<1>10. v[1]
  BY <1>5, <1>9
<1> QED
  BY <1>10 DEF v

-------------------------------------------------------------------------------
(* Intervals and lone links. *)

\* A finite set has a number behind which the run of a number ends.
LEMMA RunEndIs ==
  ASSUME NEW S \in SUBSET Nat, IsFiniteSet(S), NEW x \in S
  PROVE  /\ RunEnd(S, x) \in S /\ x <= RunEnd(S, x) /\ RunEnd(S, x) + 1 \notin S
         /\ \A y \in x..RunEnd(S, x) : y \in S
         /\ \A z \in Nat : x <= z /\ (\A y \in x..z : y \in S) => z <= RunEnd(S, x)
<1> DEFINE T == {y \in S : y >= x /\ y + 1 \notin S}
           e == RunEnd(S, x)
           last == Ascending(S)[Len(Ascending(S))]
<1>1. last \in S /\ \A y \in S : y <= last
  <2>1. Len(Ascending(S)) >= 1 /\ \A y \in S : y <= last
    BY AscendingEnds
  <2>2. Len(Ascending(S)) \in Nat /\ \A k \in 1..Len(Ascending(S)) : Ascending(S)[k] \in S
    BY AscendingList
  <2> QED
    BY <2>1, <2>2
<1> HIDE DEF last
<1>2. last \in T /\ T \in SUBSET Nat
  <2>1. last + 1 \notin S
    <3>1. last + 1 \in S => last + 1 <= last
      BY <1>1
    <3>2. last \in Nat
      BY <1>1
    <3> QED
      BY <3>1, <3>2
  <2> QED
    BY <1>1, <2>1
<1>3. e \in T /\ \A y \in T : e <= y
  <2>1. Min(T) \in T /\ \A y \in T : Min(T) <= y
    BY <1>2, MinOfNaturals
  <2> QED
    BY <2>1 DEF RunEnd
<1> HIDE DEF e
<1>4. e \in S /\ x <= e /\ e + 1 \notin S /\ e \in Nat /\ x \in Nat
  BY <1>3
<1>5. \A y \in x..e : y \in S
  <2> DEFINE B == {y \in x..e : y \notin S}
             m == Min(B)
  <2> SUFFICES ASSUME B # {} PROVE FALSE
    OBVIOUS
  <2>1. B \in SUBSET Nat
    BY <1>4
  <2>2. m \in B /\ \A y \in B : m <= y
    BY <2>1, MinOfNaturals
  <2>3. m \in x..e /\ m \notin S
    BY <2>2
  <2>4. m - 1 \notin B
    <3>1. m \in Nat
      BY <2>1, <2>2
    <3> HIDE DEF m
    <3> QED
      BY <2>2, <3>1
  <2> HIDE DEF m
  <2>5. m - 1 \in x..e /\ m - 1 \in S /\ (m - 1) + 1 = m
    <3>1. m # x
      BY <2>3
    <3>2. m - 1 \in x..e
      BY <1>4, <2>3, <3>1
    <3> QED
      BY <1>4, <2>3, <2>4, <3>2
  <2>6. m - 1 \in T
    BY <1>4, <2>3, <2>5
  <2>7. e <= m - 1
    BY <1>3, <2>6
  <2> QED
    BY <1>4, <2>3, <2>7
<1>6. ASSUME NEW z \in Nat, x <= z, \A y \in x..z : y \in S
      PROVE  z <= e
  <2>1. ~(e < z)
    <3>1. e < z => e + 1 \in x..z
      BY <1>4, <1>6
    <3> QED
      BY <1>4, <1>6, <3>1
  <2> QED
    BY <1>4, <1>6, <2>1
<1> QED
  BY <1>4, <1>5, <1>6 DEF e

Starts(S) == {x \in S : IsRun(S, x)}
Alones(S) == {x \in S : IsAlone(S, x)}
InRuns(S) == UNION {x..RunEnd(S, x) : x \in Starts(S)}

\* Every link is in a run or alone, and none is both.
LEMMA RunsAndAlones ==
  ASSUME NEW S \in SUBSET Nat, IsFiniteSet(S)
  PROVE  /\ S = InRuns(S) \cup Alones(S)
         /\ InRuns(S) \cap Alones(S) = {}
         /\ Starts(S) \in SUBSET Nat /\ IsFiniteSet(Starts(S))
         /\ Alones(S) \in SUBSET Nat /\ IsFiniteSet(Alones(S))
         /\ InRuns(S) \in SUBSET Nat /\ IsFiniteSet(InRuns(S))
<1>1. Starts(S) \subseteq S /\ Alones(S) \subseteq S
  BY DEF Starts, Alones
<1>2. InRuns(S) \subseteq S
  <2> SUFFICES ASSUME NEW x \in Starts(S), NEW y \in x..RunEnd(S, x) PROVE y \in S
    BY DEF InRuns
  <2> QED
    BY <1>1, RunEndIs
<1>3. ASSUME NEW y \in S PROVE y \in InRuns(S) \cup Alones(S)
  <2> DEFINE B == {d \in 0..(y + 1) : y - d \notin S}
             m == Min(B)
             s == y - m + 1
  <2>0. y \in Nat
    OBVIOUS
  <2>1. B \in SUBSET Nat /\ y + 1 \in B
    <3>1. y - (y + 1) = -1 /\ -1 \notin Nat
      BY <2>0
    <3>2. -1 \notin S
      BY <3>1
    <3> QED
      BY <2>0, <3>1, <3>2
  <2>2. m \in B /\ \A d \in B : m <= d
    BY <2>1, MinOfNaturals
  <2>3. m \in 0..(y + 1) /\ y - m \notin S
    BY <2>2
  <2>4. \A d \in 0..(y + 1) : d < m => y - d \in S
    <3>1. \A d \in 0..(y + 1) : y - d \notin S => m <= d
      BY <2>2
    <3> HIDE DEF m
    <3> QED
      BY <2>0, <2>3, <3>1
  <2> HIDE DEF m
  <2>5. m # 0
    BY <2>0, <2>3
  <2>6. s \in S /\ s - 1 \notin S /\ s \in Nat /\ s <= y
    <3>1. m - 1 \in 0..(y + 1) /\ m - 1 < m /\ y - (m - 1) = s /\ s - 1 = y - m /\ s <= y
      BY <2>0, <2>3, <2>5
    <3>2. s \in S
      BY <2>4, <3>1
    <3> QED
      BY <2>3, <3>1, <3>2
  <2>7. \A z \in s..y : z \in S
    <3> SUFFICES ASSUME NEW z \in s..y PROVE z \in S
      OBVIOUS
    <3>1. y - z \in 0..(y + 1) /\ y - z < m /\ y - (y - z) = z
      BY <2>0, <2>3, <2>6
    <3> QED
      BY <2>4, <3>1
  <2> HIDE DEF s
  <2>8. CASE s + 1 \in S
    <3>1. s \in Starts(S)
      BY <2>6, <2>8 DEF Starts, IsRun
    <3>2. y <= RunEnd(S, s) /\ RunEnd(S, s) \in S
      BY <2>0, <2>6, <2>7, RunEndIs
    <3>3. y \in s..RunEnd(S, s)
      BY <2>0, <2>6, <3>2
    <3> QED
      BY <3>1, <3>3 DEF InRuns
  <2>9. CASE s + 1 \notin S
    <3>1. y = s
      <4>1. s < y => s + 1 \in s..y
        BY <2>0, <2>6
      <4> QED
        BY <2>0, <2>6, <2>7, <2>9, <4>1
    <3>2. s \in Alones(S)
      BY <2>6, <2>9 DEF Alones, IsAlone
    <3> QED
      BY <3>1, <3>2
  <2> QED
    BY <2>8, <2>9
<1>4. ASSUME NEW y \in InRuns(S), y \in Alones(S) PROVE FALSE
  <2>1. PICK x \in Starts(S) : y \in x..RunEnd(S, x)
    BY DEF InRuns
  <2>2. x \in S /\ x + 1 \in S /\ x \in Nat
    BY <1>1 DEF Starts, IsRun
  <2>3. y - 1 \notin S /\ y + 1 \notin S
    BY <1>4 DEF Alones, IsAlone
  <2> DEFINE e == RunEnd(S, x)
  <2>4. e \in Nat /\ \A z \in x..e : z \in S
    BY <2>2, RunEndIs
  <2>5. y \in x..e
    BY <2>1
  <2> HIDE DEF e
  <2>6. y = x
    <3>1. y # x => y - 1 \in x..e
      BY <2>2, <2>4, <2>5
    <3> QED
      BY <2>3, <2>4, <3>1
  <2> QED
    BY <2>2, <2>3, <2>6
<1>5. \A T \in SUBSET S : IsFiniteSet(T) /\ T \in SUBSET Nat
  BY FS_Subset
<1> QED
  BY <1>1, <1>2, <1>3, <1>4, <1>5

\* A number is made of its halves.
LEMMA PairIsNumber ==
  ASSUME NEW x \in Nat
  PROVE  LET p == number_to_pair(x) IN
         /\ p.multiplier \in Nat /\ p.remainer \in 0..(Half - 1)
         /\ p.multiplier * Half + p.remainer = x
         /\ p.multiplier = 0 <=> x < Half
<1> DEFINE d == x \div Half
           r == x % Half
<1>1. Half \in Nat /\ Half > 1
  BY NumbersAssumption
<1>2. d \in Nat /\ r \in 0..(Half - 1) /\ x = Half * d + r
  BY <1>1
<1> HIDE DEF d, r
<1>3. d * Half + r = x
  BY <1>1, <1>2
<1>4. d = 0 <=> x < Half
  <2>1. d = 0 => x < Half
    BY <1>1, <1>2
  <2>2. d >= 1 => Half * d >= Half
    BY <1>1, <1>2
  <2> QED
    BY <1>1, <1>2, <2>1, <2>2
<1> QED
  BY <1>2, <1>3, <1>4 DEF number_to_pair, d, r

\* Where the intervals of a page start and end, and what is written of them.
StartOf(S, k) == Ascending(Starts(S))[k]
EndOf(S, k) == RunEnd(S, StartOf(S, k))
StartGap(S, nodeid, k) ==
  IF k = 1 THEN Distance(StartOf(S, 1), nodeid) ELSE StartOf(S, k) - EndOf(S, k - 1) - 1
\* Where the intervals are, in their order.
LEMMA IntervalPlaces ==
  ASSUME NEW S \in SUBSET Nat, IsFiniteSet(S), NEW i \in Nat
  PROVE  LET n == Len(Ascending(Starts(S))) IN
         /\ n \in Nat /\ DOMAIN Ascending(Starts(S)) = 1..n
         /\ \A k \in 1..n : /\ StartOf(S, k) \in Nat /\ StartOf(S, k) \in Starts(S)
                            /\ EndOf(S, k) \in Nat /\ StartOf(S, k) < EndOf(S, k)
                            /\ StartGap(S, i, k) \in Nat
         /\ \A x \in Starts(S) : \E k \in 1..n : StartOf(S, k) = x
<1> DEFINE a == Ascending(Starts(S))
           n == Len(a)
<1>1. Starts(S) \in SUBSET Nat /\ IsFiniteSet(Starts(S))
  BY RunsAndAlones
<1>2. /\ n \in Nat /\ DOMAIN a = 1..n
      /\ \A k \in 1..n : a[k] \in Starts(S)
      /\ \A x \in Starts(S) : \E k \in 1..n : a[k] = x
      /\ \A j, k \in 1..n : j < k => a[j] < a[k]
  <2>1. DOMAIN a = 1..Cardinality(Starts(S)) /\ n = Cardinality(Starts(S)) /\ n \in Nat
    BY <1>1, AscendingList
  <2>2. /\ \A k \in 1..n : a[k] \in Starts(S)
        /\ \A x \in Starts(S) : Position(Starts(S), x) \in 1..n /\ a[Position(Starts(S), x)] = x
        /\ \A j, k \in 1..n : j < k => a[j] < a[k]
    BY <1>1, AscendingList
  <2> HIDE DEF a, n
  <2> QED
    BY <2>1, <2>2
<1>3. \A x \in Starts(S) : x \in S /\ x \in Nat /\ x + 1 \in S /\ x - 1 \notin S
  BY DEF Starts, IsRun
<1>4. ASSUME NEW x \in Starts(S)
      PROVE  RunEnd(S, x) \in Nat /\ x < RunEnd(S, x) /\ \A y \in x..RunEnd(S, x) : y \in S
  <2>1. RunEnd(S, x) \in S /\ RunEnd(S, x) + 1 \notin S /\ x <= RunEnd(S, x)
    BY <1>3, RunEndIs
  <2>2. RunEnd(S, x) # x
    BY <1>3, <2>1
  <2>3. \A y \in x..RunEnd(S, x) : y \in S
    BY <1>3, RunEndIs
  <2> DEFINE e == RunEnd(S, x)
  <2>4. e \in Nat /\ x \in Nat /\ x <= e /\ e # x
    BY <1>3, <2>1, <2>2
  <2> HIDE DEF e
  <2>5. x < e
    BY <2>4
  <2> QED
    BY <2>3, <2>4, <2>5 DEF e
<1> HIDE DEF n, a
<1>5. \A k \in 1..n : StartOf(S, k) = a[k] /\ EndOf(S, k) = RunEnd(S, a[k])
  BY DEF StartOf, EndOf, a
<1>6. ASSUME NEW k \in 1..n PROVE StartGap(S, i, k) \in Nat
  <2>1. CASE k = 1
    <3>1. StartOf(S, 1) \in Nat
      BY <1>2, <1>3, <1>5, <2>1
    <3>2. StartGap(S, i, k) = Distance(StartOf(S, 1), i)
      BY <2>1 DEF StartGap
    <3> QED
      BY <3>1, <3>2 DEF Distance
  <2>2. CASE k # 1
    <3> DEFINE x == a[k - 1]
               y == a[k]
               e == RunEnd(S, x)
    <3>1. k - 1 \in 1..n /\ k - 1 < k
      BY <1>2, <2>2
    <3>2. x \in Starts(S) /\ y \in Starts(S) /\ x < y
      BY <1>2, <3>1
    <3>3. e \in Nat /\ (\A z \in x..e : z \in S) /\ x \in Nat /\ y \in Nat /\ y - 1 \notin S
      BY <1>3, <1>4, <3>2
    <3> HIDE DEF x, y, e
    <3>4. e < y
      <4>1. y <= e => y - 1 \in x..e
        BY <3>2, <3>3
      <4> QED
        BY <3>3, <4>1
    <3>5. StartGap(S, i, k) = y - e - 1
      BY <1>5, <2>2, <3>1 DEF StartGap, x, y, e
    <3> QED
      BY <3>3, <3>4, <3>5
  <2> QED
    BY <2>1, <2>2
<1>7. \A k \in 1..n : /\ StartOf(S, k) \in Nat /\ StartOf(S, k) \in Starts(S)
                      /\ EndOf(S, k) \in Nat /\ StartOf(S, k) < EndOf(S, k)
  BY <1>2, <1>3, <1>4, <1>5
<1> QED
  BY <1>2, <1>5, <1>6, <1>7 DEF n, a

\* What is written of the intervals.
LEMMA WrittenIntervals ==
  ASSUME NEW S \in SUBSET Nat, IsFiniteSet(S), NEW i \in Nat,
         NEW nd, nd.interval = interval_encoding(S, i)
  PROVE  LET n == Len(Ascending(Starts(S)))
             w == Written(nd)
         IN /\ Len(nd.interval.intervals) = n
            /\ DOMAIN w.intervals = 1..n /\ Len(w.intervals) = n
            /\ n # 0 => w.startFlag = <<StartOf(S, 1) >= i>>
            /\ \A k \in 1..n :
                 LET p == number_to_pair(StartGap(S, i, k)) IN
                 /\ nd.interval.intervals[k].start = p
                 /\ w.intervals[k].multiplier = IF p.multiplier = 0 THEN <<>> ELSE <<p.multiplier>>
                 /\ w.intervals[k].remainer = p.remainer
                 /\ w.intervals[k].length = EndOf(S, k) - StartOf(S, k)
<1> DEFINE a == Ascending(Starts(S))
           n == Len(a)
           iv == nd.interval.intervals
           w == Written(nd)
           wiv == [k \in DOMAIN iv |->
                     [multiplier |-> LET m == iv[k].start.multiplier
                                     IN IF m = 0 THEN <<>> ELSE <<m>>,
                      remainer |-> iv[k].start.remainer,
                      length |-> iv[k].length]]
<1>1. n \in Nat /\ DOMAIN a = 1..n
  BY IntervalPlaces
<1>2. iv = [k \in 1..n |-> [start |-> number_to_pair(StartGap(S, i, k)),
                            length |-> EndOf(S, k) - StartOf(S, k)]]
  <2>1. iv = [k \in DOMAIN a |->
                [start |-> number_to_pair(IF k = 1 THEN Distance(a[1], i)
                                          ELSE a[k] - RunEnd(S, a[k - 1]) - 1),
                 length |-> RunEnd(S, a[k]) - a[k]]]
    BY DEF interval_encoding, Starts
  <2>2. \A k : /\ StartGap(S, i, k) = IF k = 1 THEN Distance(a[1], i)
                                      ELSE a[k] - RunEnd(S, a[k - 1]) - 1
               /\ EndOf(S, k) - StartOf(S, k) = RunEnd(S, a[k]) - a[k]
    BY DEF StartGap, EndOf, StartOf
  <2> HIDE DEF a, n, iv
  <2> QED
    BY <1>1, <2>1, <2>2
<1>3. nd.interval.flag = (a = <<>> \/ a[1] >= i)
  BY DEF interval_encoding, Starts
<1>4. w.intervals = wiv
  BY DEF Written
<1>5. w.startFlag = IF iv = <<>> THEN <<>> ELSE <<nd.interval.flag>>
  BY DEF Written
<1>6. ASSUME n # 0 PROVE w.startFlag = <<StartOf(S, 1) >= i>>
  <2>1. a # <<>> /\ iv # <<>>
    <3>1. a # <<>>
      BY <1>6
    <3>2. DOMAIN iv = 1..n
      BY <1>2
    <3> HIDE DEF iv, n
    <3>3. 1 \in DOMAIN iv
      BY <1>1, <1>6, <3>2
    <3> QED
      BY <3>1, <3>3
  <2> HIDE DEF a, iv, w
  <2>2. nd.interval.flag = (a[1] >= i)
    BY <1>3, <2>1
  <2> QED
    BY <1>5, <2>1, <2>2 DEF StartOf, a
<1> HIDE DEF iv, w, n, a
<1>7. DOMAIN iv = 1..n /\ Len(iv) = n
  BY <1>1, <1>2
<1>8. DOMAIN wiv = 1..n /\ Len(wiv) = n
  BY <1>1, <1>7
<1>9. ASSUME NEW k \in 1..n
      PROVE  LET p == number_to_pair(StartGap(S, i, k)) IN
             /\ iv[k].start = p
             /\ wiv[k].multiplier = IF p.multiplier = 0 THEN <<>> ELSE <<p.multiplier>>
             /\ wiv[k].remainer = p.remainer
             /\ wiv[k].length = EndOf(S, k) - StartOf(S, k)
  <2>1. /\ iv[k].start = number_to_pair(StartGap(S, i, k))
        /\ iv[k].length = EndOf(S, k) - StartOf(S, k)
    BY <1>2
  <2> QED
    BY <1>7, <2>1
<1> HIDE DEF wiv
<1> QED
  BY <1>4, <1>6, <1>7, <1>8, <1>9 DEF iv, w, n, a

\* The reader finds the start of an interval when it knows the end of the one before.
LEMMA StartIsRead ==
  ASSUME NEW S \in SUBSET Nat, IsFiniteSet(S), NEW i \in Nat,
         NEW nd, nd.interval = interval_encoding(S, i),
         NEW k \in 1..Len(Ascending(Starts(S))),
         NEW before, k # 1 => before = EndOf(S, k - 1)
  PROVE  ReadStart(Written(nd), i, k, before) = StartOf(S, k)
<1> DEFINE w == Written(nd)
           n == Len(Ascending(Starts(S)))
           gap == StartGap(S, i, k)
           p == number_to_pair(gap)
           iv == w.intervals[k]
           x == (IF iv.multiplier = <<>> THEN 0 ELSE iv.multiplier[1]) * Half + iv.remainer
<1>1. /\ n \in Nat /\ StartOf(S, k) \in Nat /\ gap \in Nat /\ (n # 0 => StartOf(S, 1) \in Nat)
      /\ k # 1 => EndOf(S, k - 1) \in Nat
  <2>1. n \in Nat /\ k \in 1..n
    BY IntervalPlaces
  <2>2. \A m \in 1..n : StartOf(S, m) \in Nat /\ EndOf(S, m) \in Nat /\ StartGap(S, i, m) \in Nat
    BY IntervalPlaces
  <2> HIDE DEF n
  <2> QED
    BY <2>1, <2>2
<1>2. /\ iv.multiplier = IF p.multiplier = 0 THEN <<>> ELSE <<p.multiplier>>
      /\ iv.remainer = p.remainer
  BY WrittenIntervals
<1>3. n # 0 => w.startFlag = <<StartOf(S, 1) >= i>>
  BY WrittenIntervals
<1>4. n # 0 /\ k \in 1..n
  BY <1>1
<1> HIDE DEF w, n, gap
<1>5. x = gap
  <2>1. p.multiplier \in Nat /\ p.multiplier * Half + p.remainer = gap
    BY <1>1, PairIsNumber
  <2> HIDE DEF p, iv
  <2> DEFINE m == p.multiplier
  <2> HIDE DEF m
  <2>2. (IF iv.multiplier = <<>> THEN 0 ELSE iv.multiplier[1]) = m
    <3>1. CASE m = 0
      BY <1>2, <3>1 DEF m
    <3>2. CASE m # 0
      <4>1. iv.multiplier = <<m>>
        BY <1>2, <3>2 DEF m
      <4>2. <<m>> # <<>> /\ <<m>>[1] = m
        OBVIOUS
      <4> QED
        BY <4>1, <4>2
    <3> QED
      BY <3>1, <3>2
  <2> QED
    BY <1>2, <2>1, <2>2 DEF m
<1>6. ReadStart(w, i, k, before) = IF k = 1 THEN Signed(i, w.startFlag[1], x) ELSE before + x + 1
  BY DEF ReadStart
<1> HIDE DEF x
<1>7. CASE k = 1
  <2> DEFINE s == StartOf(S, 1)
             f == s >= i
  <2>1. gap = Distance(s, i) /\ s \in Nat
    BY <1>1, <1>4, <1>7 DEF StartGap, gap
  <2>2. w.startFlag[1] = f
    <3>1. w.startFlag = <<f>>
      BY <1>3, <1>4
    <3> HIDE DEF f
    <3>2. <<f>>[1] = f
      OBVIOUS
    <3> QED
      BY <3>1, <3>2
  <2>3. ReadStart(w, i, k, before) = Signed(i, f, Distance(s, i))
    BY <1>5, <1>6, <1>7, <2>1, <2>2
  <2> HIDE DEF s
  <2>4. Signed(i, f, Distance(s, i)) = s
    BY <2>1 DEF Signed, Distance
  <2> QED
    BY <1>7, <2>3, <2>4 DEF s, w
<1>8. CASE k # 1
  <2>1. gap = StartOf(S, k) - EndOf(S, k - 1) - 1
    BY <1>8 DEF StartGap, gap
  <2> QED
    BY <1>1, <1>5, <1>6, <1>8, <2>1 DEF w
<1> QED
  BY <1>7, <1>8

\* The function ReadRuns uses.
IsEnd(f, w, i) ==
  f = [k \in 0..Len(w.intervals) |->
         IF k = 0 THEN 0 ELSE ReadStart(w, i, k, f[k - 1]) + w.intervals[k].length]
\* The reader finds the links that are in intervals.
LEMMA RunsAreRead ==
  ASSUME NEW S \in SUBSET Nat, IsFiniteSet(S), NEW i \in Nat,
         NEW nd, nd.interval = interval_encoding(S, i)
  PROVE  ReadRuns(Written(nd), i) = InRuns(S)
<1> DEFINE w == Written(nd)
           n == Len(Ascending(Starts(S)))
           g == [k \in 0..n |-> IF k = 0 THEN 0 ELSE EndOf(S, k)]
           f == CHOOSE h : IsEnd(h, w, i)
<1>1. /\ n \in Nat
      /\ \A k \in 1..n : StartOf(S, k) \in Nat /\ EndOf(S, k) \in Nat
                         /\ StartOf(S, k) \in Starts(S)
      /\ \A x \in Starts(S) : \E k \in 1..n : StartOf(S, k) = x
  BY IntervalPlaces
<1>2. /\ DOMAIN w.intervals = 1..n /\ Len(w.intervals) = n
      /\ \A k \in 1..n : w.intervals[k].length = EndOf(S, k) - StartOf(S, k)
  <2>1. DOMAIN w.intervals = 1..n /\ Len(w.intervals) = n
    BY WrittenIntervals
  <2>2. \A k \in 1..n : w.intervals[k].length = EndOf(S, k) - StartOf(S, k)
    BY WrittenIntervals
  <2> QED
    BY <2>1, <2>2
<1>3. \A k \in 1..n : \A b : (k # 1 => b = EndOf(S, k - 1)) => ReadStart(w, i, k, b) = StartOf(S, k)
  BY StartIsRead
<1>4. ReadRuns(w, i) = UNION {(f[k] - w.intervals[k].length)..f[k] : k \in DOMAIN w.intervals}
  BY DEF ReadRuns, IsEnd
<1> HIDE DEF w, n
<1>5. IsEnd(g, w, i)
  <2>1. ASSUME NEW k \in 0..n
        PROVE  g[k] = IF k = 0 THEN 0 ELSE ReadStart(w, i, k, g[k - 1]) + w.intervals[k].length
    <3>1. CASE k = 0
      BY <3>1
    <3>2. CASE k # 0
      <4>1. k \in 1..n /\ k - 1 \in 0..n
        BY <1>1, <3>2
      <4>2. k # 1 => g[k - 1] = EndOf(S, k - 1)
        <5>1. k # 1 => k - 1 # 0
          BY <4>1
        <5> QED
          BY <4>1, <5>1
      <4>3. ReadStart(w, i, k, g[k - 1]) = StartOf(S, k)
        <5> HIDE DEF g
        <5> QED
          BY <1>3, <4>1, <4>2
      <4>4. StartOf(S, k) + (EndOf(S, k) - StartOf(S, k)) = EndOf(S, k)
        BY <1>1, <4>1
      <4>5. g[k] = EndOf(S, k)
        BY <3>2
      <4> HIDE DEF g
      <4> QED
        BY <1>2, <3>2, <4>1, <4>3, <4>4, <4>5
    <3> QED
      BY <3>1, <3>2
  <2> QED
    BY <1>2, <2>1 DEF IsEnd
<1>6. IsEnd(f, w, i)
  <2> HIDE DEF g
  <2> QED
    BY <1>5
<1> HIDE DEF f, g
<1>7. \A k \in 1..n : f[k] = ReadStart(w, i, k, f[k - 1]) + w.intervals[k].length
  <2>1. \A k \in 1..n : k \in 0..n /\ k # 0
    BY <1>1
  <2> QED
    BY <1>2, <1>6, <2>1 DEF IsEnd
<1> DEFINE P == {k \in 0..n : k # 0 => f[k] = EndOf(S, k)}
<1>8. 0 \in P
  BY <1>1
<1>9. ASSUME NEW k \in 0..(n - 1), k \in P PROVE k + 1 \in P
  <2>1. k + 1 \in 1..n /\ (k + 1) - 1 = k /\ k + 1 \in 0..n /\ k + 1 # 0 /\ (k + 1 # 1 => k # 0)
    BY <1>1
  <2>2. f[k + 1] = ReadStart(w, i, k + 1, f[k]) + w.intervals[k + 1].length
    BY <1>7, <2>1
  <2>3. k + 1 # 1 => f[k] = EndOf(S, (k + 1) - 1)
    BY <1>9, <2>1
  <2>4. ReadStart(w, i, k + 1, f[k]) = StartOf(S, k + 1)
    BY <1>3, <2>1, <2>3
  <2>5. StartOf(S, k + 1) + (EndOf(S, k + 1) - StartOf(S, k + 1)) = EndOf(S, k + 1)
    BY <1>1, <2>1
  <2>6. f[k + 1] = EndOf(S, k + 1)
    BY <1>2, <2>1, <2>2, <2>4, <2>5
  <2> QED
    BY <2>1, <2>6
<1> HIDE DEF P
<1>10. \A k \in 0..n : k \in P
  BY <1>1, <1>8, <1>9, Induction
<1>11. ASSUME NEW k \in 1..n
       PROVE  (f[k] - w.intervals[k].length)..f[k] = StartOf(S, k)..RunEnd(S, StartOf(S, k))
  <2>1. k \in 0..n /\ k # 0
    BY <1>1
  <2>2. f[k] = EndOf(S, k)
    BY <1>10, <2>1 DEF P
  <2>3. EndOf(S, k) - (EndOf(S, k) - StartOf(S, k)) = StartOf(S, k)
    BY <1>1
  <2> QED
    BY <1>2, <2>2, <2>3 DEF EndOf
<1>12. ReadRuns(w, i) = UNION {StartOf(S, k)..RunEnd(S, StartOf(S, k)) : k \in 1..n}
  BY <1>2, <1>4, <1>11
<1>13. UNION {StartOf(S, k)..RunEnd(S, StartOf(S, k)) : k \in 1..n} = InRuns(S)
  BY <1>1 DEF InRuns
<1> QED
  BY <1>12, <1>13 DEF w

-------------------------------------------------------------------------------
(* The rest of the links. *)

\* Which numbers fit a half, and what each number is written as.
Fits(numbers) == [k \in DOMAIN numbers |-> numbers[k] < Half]
Pieces(numbers) ==
  [k \in DOMAIN numbers |->
     IF numbers[k] < Half THEN <<numbers[k]>>
     ELSE LET p == number_to_pair(numbers[k]) IN <<p.multiplier, p.remainer>>]
\* A number that fits a half is one half, another is two.
LEMMA PiecesOf ==
  ASSUME NEW numbers \in Seq(Nat)
  PROVE  /\ Fits(numbers) \in Seq(BOOLEAN) /\ Len(Fits(numbers)) = Len(numbers)
         /\ Pieces(numbers) \in Seq(Seq(Nat)) /\ Len(Pieces(numbers)) = Len(numbers)
         /\ \A k \in 1..Len(numbers) :
              /\ Fits(numbers)[k] = (numbers[k] < Half)
              /\ Lens(Pieces(numbers))[k] = IF numbers[k] < Half THEN 1 ELSE 2
              /\ numbers[k] < Half => Pieces(numbers)[k] = <<numbers[k]>>
              /\ ~(numbers[k] < Half) =>
                   LET p == number_to_pair(numbers[k])
                   IN Pieces(numbers)[k] = <<p.multiplier, p.remainer>>
<1> DEFINE N == Len(numbers)
           v == Fits(numbers)
           s == Pieces(numbers)
<1>1. N \in Nat /\ DOMAIN numbers = 1..N /\ \A k \in 1..N : numbers[k] \in Nat
  OBVIOUS
<1>2. v = [k \in 1..N |-> numbers[k] < Half]
  BY <1>1 DEF Fits
<1>3. v \in Seq(BOOLEAN) /\ Len(v) = N
  <2>1. v \in [1..N -> BOOLEAN]
    <3> DEFINE fits(k) == numbers[k] < Half
    <3>1. \A k : fits(k) \in BOOLEAN
      OBVIOUS
    <3>2. v = [k \in 1..N |-> fits(k)]
      BY <1>2
    <3> HIDE DEF fits, v, N
    <3> QED
      BY <3>1, <3>2
  <2> HIDE DEF v, N
  <2> QED
    BY <1>1, <2>1
<1>4. \A k \in 1..N : v[k] = (numbers[k] < Half)
  BY <1>2
<1>5. ASSUME NEW k \in 1..N
      PROVE  /\ s[k] \in Seq(Nat)
             /\ Len(s[k]) = IF numbers[k] < Half THEN 1 ELSE 2
             /\ numbers[k] < Half => s[k] = <<numbers[k]>>
             /\ ~(numbers[k] < Half) =>
                   LET p == number_to_pair(numbers[k]) IN s[k] = <<p.multiplier, p.remainer>>
  <2> DEFINE x == numbers[k]
             p == number_to_pair(x)
  <2>1. s[k] = IF x < Half THEN <<x>> ELSE <<p.multiplier, p.remainer>>
    BY <1>1 DEF Pieces
  <2>2. x \in Nat /\ p.multiplier \in Nat /\ p.remainer \in 0..(Half - 1)
    BY <1>1, PairIsNumber
  <2>3. p.remainer \in Nat
    BY <2>2, NumbersAssumption
  <2> HIDE DEF x, p
  <2> DEFINE m == p.multiplier
             r == p.remainer
  <2> HIDE DEF m, r
  <2>4. /\ <<x>> \in Seq(Nat) /\ Len(<<x>>) = 1
        /\ <<m, r>> \in Seq(Nat) /\ Len(<<m, r>>) = 2
    BY <2>2, <2>3 DEF m, r
  <2>5. s[k] = IF x < Half THEN <<x>> ELSE <<m, r>>
    BY <2>1 DEF m, r
  <2> HIDE DEF s
  <2> QED
    BY <2>4, <2>5 DEF x, p, m, r
<1>6. DOMAIN s = 1..N
  BY <1>1 DEF Pieces
<1>7. s \in Seq(Seq(Nat)) /\ Len(s) = N
  <2>1. s = [k \in 1..N |-> s[k]]
    BY <1>1 DEF Pieces
  <2> HIDE DEF s, N
  <2>2. s \in [1..N -> Seq(Nat)]
    BY <1>5, <2>1
  <2> QED
    BY <1>1, <2>2
<1>8. \A k \in 1..N : Lens(s)[k] = Len(s[k])
  BY <1>6 DEF Lens
<1> HIDE DEF v, s, N
<1> QED
  BY <1>3, <1>4, <1>5, <1>7, <1>8 DEF v, s, N

\* What a run of one kind is made of: so many halves for each number.
LEMMA RunOfHalves ==
  ASSUME NEW numbers \in Seq(Nat), NEW rest,
         rest.lengths = RunLengths(Fits(numbers)),
         rest.bigFirst = (numbers # <<>> /\ numbers[1] >= Half),
         NEW k \in 1..Len(RunLengths(Fits(numbers))),
         NEW p \in Nat, EndOfRun(Fits(numbers), k - 1) < p, p <= EndOfRun(Fits(numbers), k)
  PROVE  /\ p \in 1..Len(numbers)
         /\ Lens(Pieces(numbers))[p] = (IF IsBigRun(rest, k) THEN 2 ELSE 1)
         /\ numbers[p] < Half <=> ~IsBigRun(rest, k)
<1> DEFINE v == Fits(numbers)
           N == Len(numbers)
<1>1. /\ v \in Seq(BOOLEAN) /\ Len(v) = N /\ N \in Nat
      /\ \A j \in 1..N : v[j] = (numbers[j] < Half)
      /\ \A j \in 1..N : Lens(Pieces(numbers))[j] = IF numbers[j] < Half THEN 1 ELSE 2
      /\ \A j \in 1..N : numbers[j] \in Nat
  <2>1. N \in Nat /\ \A j \in 1..N : numbers[j] \in Nat
    OBVIOUS
  <2>2. v \in Seq(BOOLEAN) /\ Len(v) = N /\ \A j \in 1..N : v[j] = (numbers[j] < Half)
    BY PiecesOf
  <2>3. \A j \in 1..N : Lens(Pieces(numbers))[j] = IF numbers[j] < Half THEN 1 ELSE 2
    BY PiecesOf
  <2> QED
    BY <2>1, <2>2, <2>3
<1>2. p \in 1..N
  <2>1. p \in 1..Len(v)
    <3> HIDE DEF v
    <3> QED
      BY <1>1, RunValue DEF v
  <2> QED
    BY <1>1, <2>1
<1>3. v[p] <=> (k % 2 = 1 <=> v[1])
  <2> HIDE DEF v
  <2> QED
    BY <1>1, RunBit DEF v
<1> HIDE DEF v
<1>4. 1 \in 1..N
  <2> HIDE DEF N
  <2> QED
    BY <1>1, <1>2
<1>5. numbers # <<>>
  BY <1>4
<1>6. rest.bigFirst <=> ~v[1]
  <2>1. rest.bigFirst = (numbers[1] >= Half)
    BY <1>5
  <2>2. v[1] = (numbers[1] < Half) /\ numbers[1] \in Nat /\ Half \in Nat
    BY <1>1, <1>4, NumbersAssumption
  <2>3. numbers[1] >= Half <=> ~(numbers[1] < Half)
    BY <2>2
  <2> DEFINE atLeast == numbers[1] >= Half
             less == numbers[1] < Half
  <2>4. rest.bigFirst = atLeast /\ v[1] = less /\ (atLeast <=> ~less)
    BY <2>1, <2>2, <2>3
  <2>5. atLeast \in BOOLEAN /\ less \in BOOLEAN
    OBVIOUS
  <2> HIDE DEF atLeast, less
  <2> QED
    BY <2>4, <2>5
<1>7. IsBigRun(rest, k) <=> ~v[p]
  <2>1. IsBigRun(rest, k) = IF k % 2 = 1 THEN rest.bigFirst ELSE ~rest.bigFirst
    BY DEF IsBigRun
  <2> DEFINE big == rest.bigFirst
             odd == k % 2 = 1
  <2>2. (big <=> ~v[1]) /\ (v[p] <=> (odd <=> v[1])) /\ IsBigRun(rest, k) = IF odd THEN big ELSE ~big
    BY <1>3, <1>6, <2>1
  <2> HIDE DEF big, odd
  <2>3. CASE odd
    BY <2>2, <2>3
  <2>4. CASE ~odd
    BY <2>2, <2>4
  <2> QED
    BY <2>3, <2>4
<1>8. v[p] = (numbers[p] < Half)
  BY <1>1, <1>2
<1>9. Lens(Pieces(numbers))[p] = (IF IsBigRun(rest, k) THEN 2 ELSE 1)
  <2>1. Lens(Pieces(numbers))[p] = IF numbers[p] < Half THEN 1 ELSE 2
    BY <1>1, <1>2
  <2>2. numbers[p] < Half <=> ~IsBigRun(rest, k)
    BY <1>7, <1>8
  <2> QED
    BY <2>1, <2>2
<1> QED
  BY <1>2, <1>7, <1>8, <1>9

\* The rest of a page whose numbers are given.
IsRest(rest, numbers) ==
  /\ rest.lengths = RunLengths(Fits(numbers))
  /\ rest.bigFirst = (numbers # <<>> /\ numbers[1] >= Half)
  /\ rest.halves = FlattenSeq(Pieces(numbers))

\* The halves of the first runs are those of the numbers in them.
LEMMA RunHalvesOf ==
  ASSUME NEW numbers \in Seq(Nat), NEW rest, IsRest(rest, numbers)
  PROVE  LET n == Len(RunLengths(Fits(numbers)))
             halves == RunHalves(rest)
         IN /\ n \in Nat /\ DOMAIN halves = 1..n /\ DOMAIN rest.lengths = 1..n
            /\ \A k \in 1..n : halves[k] \in Nat /\ halves[k] >= 1
            /\ \A k \in 0..n : Total(halves, k) =
                                 Total(Lens(Pieces(numbers)), EndOfRun(Fits(numbers), k))
<1> DEFINE v == Fits(numbers)
           N == Len(numbers)
           runs == RunLengths(v)
           n == Len(runs)
           halves == RunHalves(rest)
           lens == Lens(Pieces(numbers))
           E(k) == EndOfRun(v, k)
           c(k) == IF IsBigRun(rest, k) THEN 2 ELSE 1
<1>1. /\ v \in Seq(BOOLEAN) /\ Len(v) = N /\ N \in Nat
      /\ \A j \in 1..N : lens[j] \in Nat
  <2>1. /\ v \in Seq(BOOLEAN) /\ Len(v) = N /\ N \in Nat
        /\ \A j \in 1..N : lens[j] = IF numbers[j] < Half THEN 1 ELSE 2
    BY PiecesOf
  <2> HIDE DEF v, N, lens
  <2> QED
    BY <2>1
<1>2. /\ n \in Nat /\ runs \in Seq(Nat) /\ DOMAIN runs = 1..n
      /\ \A k \in 1..n : runs[k] \in Nat /\ runs[k] >= 1 /\ runs[k] = E(k) - E(k - 1)
      /\ \A k \in 0..n : E(k) \in 0..N
      /\ E(0) = 0
      /\ \A k \in 1..n : E(k - 1) \in 0..N /\ E(k) \in E(k - 1)..N
  <2> DEFINE starts == Ascending(RunStarts(v))
  <2> HIDE DEF v
  <2>1. n \in Nat /\ runs \in Seq(Nat) /\ DOMAIN runs = 1..n /\ E(0) = 0
    BY <1>1, RunsOf
  <2>2. \A k \in 1..n : runs[k] >= 1 /\ runs[k] = E(k) + 1 - starts[k]
    BY <1>1, RunsOf
  <2>3. \A k \in 1..n : starts[k] = E(k - 1) + 1
    BY <1>1, RunsOf
  <2>4. \A k \in 0..n : E(k) \in 0..N
    BY <1>1, RunsOf
  <2> HIDE DEF E, n, runs, starts, N
  <2>5. ASSUME NEW k \in 1..n
        PROVE  /\ runs[k] \in Nat /\ runs[k] = E(k) - E(k - 1)
               /\ E(k - 1) \in 0..N /\ E(k) \in E(k - 1)..N
    <3>1. k - 1 \in 0..n /\ k \in 0..n
      BY <2>1
    <3>2. E(k) \in 0..N /\ E(k - 1) \in 0..N
      BY <2>4, <3>1
    <3>3. runs[k] \in Nat
      BY <2>1
    <3>4. runs[k] >= 1 /\ runs[k] = E(k) + 1 - (E(k - 1) + 1)
      BY <2>2, <2>3
    <3>5. \A x, y \in Int : x + 1 - (y + 1) = x - y
      OBVIOUS
    <3>6. runs[k] = E(k) - E(k - 1)
      BY <3>2, <3>4, <3>5
    <3>7. E(k) \in E(k - 1)..N
      BY <3>2, <3>4, <3>6
    <3> QED
      BY <3>2, <3>3, <3>6, <3>7
  <2> QED
    BY <2>1, <2>2, <2>4, <2>5
<1>3. halves = [k \in 1..n |-> runs[k] * c(k)] /\ DOMAIN rest.lengths = 1..n
  <2>1. rest.lengths = runs
    BY DEF IsRest
  <2> HIDE DEF runs
  <2> QED
    BY <1>2, <2>1 DEF RunHalves
<1>4. \A k \in 1..n : \A p \in Nat : E(k - 1) < p /\ p <= E(k) => lens[p] = c(k)
  BY RunOfHalves DEF IsRest
<1>5. \A k : c(k) \in {1, 2}
  OBVIOUS
<1> HIDE DEF v, N, runs, n, halves, lens, E, c
<1>6. ASSUME NEW k \in 1..n PROVE halves[k] \in Nat /\ halves[k] >= 1 /\ halves[k] = runs[k] * c(k)
  <2>1. halves[k] = runs[k] * c(k) /\ runs[k] \in Nat /\ runs[k] >= 1
    BY <1>2, <1>3
  <2>2. CASE c(k) = 1
    BY <2>1, <2>2
  <2>3. CASE c(k) = 2
    BY <2>1, <2>3
  <2> QED
    BY <1>5, <2>2, <2>3
<1>7. /\ Total(halves, 0) = 0
      /\ \A k \in 1..n : Total(halves, k) = Total(halves, k - 1) + halves[k]
  <2>1. \A k \in 1..n : halves[k] \in Int
    BY <1>6
  <2> QED
    BY <1>2, <2>1, TotalStep
<1>8. Total(lens, 0) = 0 /\ \A j \in 0..N : Total(lens, j) \in Int
  <2>1. \A j \in 1..N : lens[j] \in Int
    BY <1>1
  <2> QED
    BY <1>1, <2>1, TotalStep
<1>9. ASSUME NEW k \in 1..n PROVE Total(lens, E(k)) = Total(lens, E(k - 1)) + halves[k]
  <2> DEFINE a == E(k - 1)
             b == E(k)
             d == c(k)
  <2>1. a \in 0..N /\ b \in a..N /\ d \in Int
    BY <1>2, <1>5
  <2>2. \A j \in (a + 1)..b : lens[j] = d
    <3> SUFFICES ASSUME NEW j \in (a + 1)..b PROVE lens[j] = d
      OBVIOUS
    <3>1. j \in Nat /\ a < j /\ j <= b
      BY <1>1, <2>1
    <3> QED
      BY <1>4, <3>1
  <2>3. halves[k] = (b - a) * d
    BY <1>2, <1>6
  <2>4. \A j \in 1..N : lens[j] \in Int
    BY <1>1
  <2> HIDE DEF a, b, d
  <2>5. Total(lens, b) = Total(lens, a) + (b - a) * d
    <3>1. N \in Nat
      BY <1>1
    <3>2. a \in 0..N /\ b \in a..N /\ d \in Int
      BY <2>1
    <3> QED
      BY <2>2, <2>4, <3>1, <3>2, TotalConstant, Zenon
  <2> QED
    BY <2>3, <2>5 DEF a, b
<1> DEFINE P == {k \in 0..n : Total(halves, k) = Total(lens, E(k))}
<1>10. 0 \in P
  BY <1>2, <1>7, <1>8
<1>11. ASSUME NEW k \in 0..(n - 1), k \in P PROVE k + 1 \in P
  <2>1. k + 1 \in 1..n /\ (k + 1) - 1 = k /\ k + 1 \in 0..n
    BY <1>2
  <2>2. Total(halves, k + 1) = Total(halves, k) + halves[k + 1]
    BY <1>7, <2>1
  <2>3. Total(lens, E(k + 1)) = Total(lens, E(k)) + halves[k + 1]
    BY <1>9, <2>1
  <2> QED
    BY <1>11, <2>1, <2>2, <2>3
<1> HIDE DEF P
<1>12. \A k \in 0..n : k \in P
  BY <1>2, <1>10, <1>11, Induction
<1>13. \A k \in 0..n : Total(halves, k) = Total(lens, E(k))
  BY <1>12 DEF P
<1>14. DOMAIN halves = 1..n
  BY <1>3
<1> QED
  BY <1>2, <1>3, <1>6, <1>13, <1>14 DEF v, runs, n, halves, lens, E

\* Whatever create_result does to its index, it stays inside the halves, and the
\* sizes it writes are positive.  One run is written as it is.
LEMMA RestInBounds ==
  ASSUME NEW numbers \in Seq(Nat), NEW rest, IsRest(rest, numbers)
  PROVE  LET w == WrittenRest(rest)
             n == Len(RunLengths(Fits(numbers)))
         IN /\ n \in Nat /\ DOMAIN w = 1..n /\ (numbers # <<>> => n >= 1)
            /\ rest.halves \in Seq(Nat)
            /\ Len(rest.halves) = Total(Lens(Pieces(numbers)), Len(numbers))
            /\ \A k \in 1..n : w[k].size >= 1 /\ ToSet(w[k].halves) \subseteq ToSet(rest.halves)
            /\ n = 1 => w[1].halves = rest.halves
<1> DEFINE v == Fits(numbers)
           N == Len(numbers)
           runs == RunLengths(v)
           n == Len(runs)
           halves == RunHalves(rest)
           lens == Lens(Pieces(numbers))
           E(k) == EndOfRun(v, k)
           w == WrittenRest(rest)
           L == Len(rest.halves)
           Index(k) == Total(halves, k - 1) - (k - 1)
<1>1. /\ n \in Nat /\ DOMAIN halves = 1..n
      /\ \A k \in 1..n : halves[k] \in Nat /\ halves[k] >= 1
      /\ \A k \in 0..n : Total(halves, k) = Total(lens, E(k))
  <2>1. n \in Nat /\ DOMAIN halves = 1..n
    BY RunHalvesOf
  <2>2. \A k \in 1..n : halves[k] \in Nat /\ halves[k] >= 1
    BY RunHalvesOf
  <2>3. \A k \in 0..n : Total(halves, k) = Total(lens, E(k))
    BY RunHalvesOf
  <2> QED
    BY <2>1, <2>2, <2>3
<1>2. /\ v \in Seq(BOOLEAN) /\ Len(v) = N /\ N \in Nat
      /\ Pieces(numbers) \in Seq(Seq(Nat)) /\ Len(Pieces(numbers)) = N
  BY PiecesOf
<1>3. \A j \in 1..N : lens[j] \in Nat /\ lens[j] >= 1
  <2>1. \A j \in 1..N : lens[j] = IF numbers[j] < Half THEN 1 ELSE 2
    BY PiecesOf
  <2> HIDE DEF N, lens
  <2> QED
    BY <2>1
<1>4. rest.halves \in Seq(Nat) /\ L = Total(lens, N)
  <2>1. rest.halves = FlattenSeq(Pieces(numbers))
    BY DEF IsRest
  <2>2. /\ FlattenSeq(Pieces(numbers)) \in Seq(Nat)
        /\ Len(FlattenSeq(Pieces(numbers))) = Total(lens, Len(Pieces(numbers)))
    BY <1>2, FlattenPlaces
  <2> QED
    BY <1>2, <2>1, <2>2
<1>5. /\ E(n) = N /\ \A k \in 0..n : E(k) \in 0..N
      /\ v # <<>> => n >= 1
  <2> HIDE DEF v
  <2> QED
    BY <1>2, RunsOf
<1>6. numbers # <<>> => v # <<>>
  <2>1. numbers # <<>> => N # 0
    OBVIOUS
  <2> HIDE DEF v, N
  <2>2. v = <<>> => Len(v) = 0
    OBVIOUS
  <2> QED
    BY <1>2, <2>1, <2>2
<1>7. \A k \in 0..n : Total(runs, k) = E(k)
  <2> HIDE DEF v
  <2> QED
    BY <1>2, RunTotals
<1>8. w = [k \in 1..n |-> [size |-> L + 1 - Total(runs, k),
                           halves |-> SubSeq(rest.halves, Index(k) + 1, Index(k) + halves[k])]]
  <2>1. rest.lengths = runs
    BY DEF IsRest
  <2>2. w = [k \in DOMAIN halves |->
                [size |-> L + 1 - Total(rest.lengths, k),
                 halves |-> SubSeq(rest.halves, Index(k) + 1, Index(k) + halves[k])]]
    BY DEF WrittenRest
  <2> HIDE DEF halves, runs, w, L, Index
  <2> QED
    BY <1>1, <2>1, <2>2
<1> HIDE DEF v, N, runs, n, halves, lens, E, w, L
<1>9. N <= L /\ L \in Nat
  <2>1. L \in Nat
    BY <1>4 DEF L
  <2>2. Total(lens, 0) = 0
    BY <1>2, <1>3, TotalStep
  <2>3. N \in 0..N /\ 0 \in 0..N
    BY <1>2
  <2>4. \A j \in 0..N : Total(lens, 0) + (j - 0) <= Total(lens, j)
    BY <1>2, <1>3, <2>3, TotalGrows
  <2>5. Total(lens, 0) + (N - 0) <= Total(lens, N)
    BY <2>3, <2>4
  <2> QED
    BY <1>2, <1>4, <2>1, <2>2, <2>5
<1>10. Total(halves, n) = L
  BY <1>1, <1>4, <1>5
<1>11. /\ Total(halves, 0) = 0
       /\ \A k \in 0..n : Total(halves, k) \in Int
       /\ \A k \in 1..n : Total(halves, k) = Total(halves, k - 1) + halves[k]
  <2>1. n \in Nat /\ \A k \in 1..n : halves[k] \in Int
    BY <1>1
  <2> QED
    BY <2>1, TotalStep
<1>12. ASSUME NEW k \in 1..n
       PROVE  /\ Index(k) \in Nat /\ Index(k) + halves[k] \in Nat /\ Index(k) + halves[k] <= L
              /\ L + 1 - Total(runs, k) >= 1
  <2>1. k - 1 \in 0..n /\ k \in 0..n /\ n \in k..n /\ 0 \in 0..n /\ k - 1 \in 0..n
    BY <1>1
  <2>2. Total(halves, 0) + ((k - 1) - 0) <= Total(halves, k - 1)
    BY <1>1, <2>1, TotalGrows
  <2>3. Total(halves, k) <= Total(halves, n)
    BY <1>1, <2>1, TotalGrows
  <2>4. /\ Total(halves, k - 1) \in Int /\ Total(halves, k) \in Int /\ halves[k] \in Nat
        /\ Total(halves, k) = Total(halves, k - 1) + halves[k]
    BY <1>1, <1>11, <2>1
  <2>5. Total(runs, k) \in 0..N
    BY <1>5, <1>7, <2>1
  <2> DEFINE t == Total(halves, k - 1)
             h == halves[k]
  <2> HIDE DEF t, h
  <2>6. t - (k - 1) \in Nat /\ t - (k - 1) + h \in Nat /\ t - (k - 1) + h <= L
    BY <1>9, <1>10, <1>11, <2>1, <2>2, <2>3, <2>4, SMTT(30) DEF t, h
  <2>7. L + 1 - Total(runs, k) >= 1
    BY <1>2, <1>9, <2>5
  <2> QED
    BY <2>6, <2>7 DEF t, h
<1>13. ASSUME NEW k \in 1..n
       PROVE  w[k].size >= 1 /\ ToSet(w[k].halves) \subseteq ToSet(rest.halves)
  <2> DEFINE i == Index(k)
             h == halves[k]
             s == SubSeq(rest.halves, i + 1, i + h)
  <2>1. i \in Nat /\ i + h \in Nat /\ i + h <= L /\ h \in Nat
    BY <1>1, <1>12
  <2>2. w[k].size = L + 1 - Total(runs, k) /\ w[k].halves = s
    BY <1>8
  <2>3. DOMAIN rest.halves = 1..L /\ \A j \in 1..L : rest.halves[j] \in Nat
    BY <1>4 DEF L
  <2> HIDE DEF i, h
  <2>4. /\ s \in Seq(Nat) /\ \A j \in 1..((i + h) - (i + 1) + 1) : s[j] = rest.halves[(i + 1) + j - 1]
        /\ Len(s) = IF i + 1 <= i + h THEN (i + h) - (i + 1) + 1 ELSE 0
    <3>1. \A j \in (i + 1)..(i + h) : rest.halves[j] \in Nat
      BY <1>9, <2>1, <2>3
    <3>2. i + 1 \in Int /\ i + h \in Int
      BY <2>1
    <3> QED
      BY <3>1, <3>2, SubSeqProperties
  <2>5. Len(s) = h /\ (i + h) - (i + 1) + 1 = h
    BY <2>1, <2>4
  <2> HIDE DEF s
  <2>6. ASSUME NEW j \in 1..h PROVE s[j] \in ToSet(rest.halves)
    <3>1. s[j] = rest.halves[i + j] /\ i + j \in 1..L
      BY <1>9, <2>1, <2>4, <2>5
    <3> QED
      BY <2>3, <3>1 DEF ToSet
  <2>7. DOMAIN s = 1..h
    BY <2>4, <2>5
  <2>8. ToSet(s) \subseteq ToSet(rest.halves)
    BY <2>6, <2>7 DEF ToSet
  <2> QED
    BY <1>12, <2>2, <2>8
<1>14. ASSUME n = 1 PROVE w[1].halves = rest.halves
  <2>1. 1 \in 1..n
    BY <1>14
  <2>2. Total(halves, 1 - 1) = 0 /\ halves[1] = L
    BY <1>10, <1>11, <1>14, <2>1, <1>1
  <2>3. Index(1) = 0
    BY <2>2
  <2>4. w[1].halves = SubSeq(rest.halves, Index(1) + 1, Index(1) + halves[1])
    BY <1>8, <2>1
  <2>5. w[1].halves = SubSeq(rest.halves, 1, L)
    BY <1>9, <2>2, <2>3, <2>4
  <2> QED
    BY <1>4, <2>5, SubSeqFull DEF L
<1>15. DOMAIN w = 1..n
  BY <1>8
<1> QED
  BY <1>1, <1>4, <1>5, <1>6, <1>13, <1>14, <1>15 DEF v, N, runs, n, lens, w, L

\* The links in no interval, and the numbers they are written as.
AloneAt(S, k) == Ascending(Alones(S))[k]
Gaps(S, nodeid) ==
  [k \in DOMAIN Ascending(Alones(S)) |->
     IF k = 1 THEN Distance(AloneAt(S, 1), nodeid) ELSE AloneAt(S, k) - AloneAt(S, k - 1) - 2]
\* The gaps are numbers, one for each link that is in no interval.
LEMMA GapsOf ==
  ASSUME NEW S \in SUBSET Nat, IsFiniteSet(S), NEW i \in Nat
  PROVE  LET n == Cardinality(Alones(S)) IN
         /\ n \in Nat /\ Gaps(S, i) \in Seq(Nat) /\ Len(Gaps(S, i)) = n
         /\ Ascending(Alones(S)) = <<>> <=> n = 0
         /\ \A k \in 1..n :
              /\ AloneAt(S, k) \in Nat /\ AloneAt(S, k) \in Alones(S)
              /\ Gaps(S, i)[k] = IF k = 1 THEN Distance(AloneAt(S, 1), i)
                                          ELSE AloneAt(S, k) - AloneAt(S, k - 1) - 2
         /\ \A x \in Alones(S) : \E k \in 1..n : AloneAt(S, k) = x
<1> DEFINE A == Alones(S)
           a == Ascending(A)
           n == Cardinality(A)
           gap(k) == IF k = 1 THEN Distance(AloneAt(S, 1), i)
                              ELSE AloneAt(S, k) - AloneAt(S, k - 1) - 2
           g == Gaps(S, i)
<1>1. A \in SUBSET Nat /\ IsFiniteSet(A)
  BY RunsAndAlones
<1>2. /\ n \in Nat /\ Len(a) = n /\ DOMAIN a = 1..n
      /\ \A k \in 1..n : a[k] \in A
      /\ \A x \in A : \E k \in 1..n : a[k] = x
      /\ \A j, k \in 1..n : j < k => a[j] < a[k]
  <2>1. DOMAIN a = 1..n /\ Len(a) = n /\ n \in Nat /\ a \in Seq(A)
    BY <1>1, AscendingList
  <2>2. \A x \in A : Position(A, x) \in 1..Len(a) /\ a[Position(A, x)] = x
    BY <1>1, AscendingList
  <2>3. \A j, k \in 1..Len(a) : j < k => a[j] < a[k]
    BY <1>1, AscendingList
  <2>4. \A k \in 1..Len(a) : a[k] \in A
    BY <1>1, AscendingList
  <2> HIDE DEF a, n, A
  <2> QED
    BY <2>1, <2>2, <2>3, <2>4
<1>3. a = <<>> <=> n = 0
  <2>1. a \in Seq(A)
    BY <1>1, AscendingList
  <2> HIDE DEF a, n, A
  <2> QED
    BY <1>2, <2>1
<1>4. \A x \in A : x \in S /\ x \in Nat /\ x + 1 \notin S
  BY DEF Alones, IsAlone
<1>5. \A k \in 1..n : AloneAt(S, k) = a[k]
  BY DEF AloneAt
<1>6. g = [k \in DOMAIN a |-> gap(k)]
  BY DEF Gaps
<1> HIDE DEF A, a, n, g
<1>7. ASSUME NEW k \in 1..n PROVE gap(k) \in Nat
  <2>1. CASE k = 1
    <3>1. AloneAt(S, 1) \in Nat
      BY <1>2, <1>4, <1>5, <2>1
    <3> QED
      BY <2>1, <3>1 DEF Distance
  <2>2. CASE k # 1
    <3> DEFINE x == a[k - 1]
               y == a[k]
    <3>1. k - 1 \in 1..n /\ k - 1 < k
      BY <1>2, <2>2
    <3>2. x \in Nat /\ y \in Nat /\ x < y /\ x + 1 \notin S /\ y \in S
      BY <1>2, <1>4, <3>1
    <3>3. AloneAt(S, k) = y /\ AloneAt(S, k - 1) = x
      BY <1>5, <3>1
    <3> HIDE DEF x, y
    <3>4. y # x + 1
      BY <3>2
    <3> QED
      BY <2>2, <3>2, <3>3, <3>4
  <2> QED
    BY <2>1, <2>2
<1>8. \A k \in 1..n : g[k] = gap(k)
  BY <1>2, <1>6
<1>9. g \in Seq(Nat) /\ Len(g) = n
  <2>1. g = [k \in 1..n |-> gap(k)]
    BY <1>2, <1>6
  <2> HIDE DEF gap
  <2>2. g \in [1..n -> Nat]
    BY <1>7, <2>1
  <2> QED
    BY <1>2, <2>2
<1>10. \A k \in 1..n : AloneAt(S, k) \in Nat /\ AloneAt(S, k) \in A
  BY <1>2, <1>4, <1>5
<1>11. \A x \in A : \E k \in 1..n : AloneAt(S, k) = x
  BY <1>2, <1>5
<1> QED
  BY <1>2, <1>3, <1>8, <1>9, <1>10, <1>11 DEF A, a, n, g
\* What rest_links_encoding makes of the gaps.
LEMMA RestOf ==
  ASSUME NEW S \in SUBSET Nat, IsFiniteSet(S), NEW i \in Nat
  PROVE  /\ IsRest(rest_links_encoding(S, i), Gaps(S, i))
         /\ rest_links_encoding(S, i).flag =
              (Ascending(Alones(S)) # <<>> /\ AloneAt(S, 1) >= i)
<1> DEFINE g == Gaps(S, i)
           little == big_to_little_encoding(g)
<1>1. little.lengths = RunLengths(Fits(g)) /\ little.halves = FlattenSeq(Pieces(g))
  BY DEF big_to_little_encoding, Fits, Pieces
<1>2. rest_links_encoding(S, i) =
        [flag |-> Ascending(Alones(S)) # <<>> /\ Ascending(Alones(S))[1] >= i,
         bigFirst |-> g # <<>> /\ g[1] >= Half,
         lengths |-> little.lengths, halves |-> little.halves]
  BY DEF rest_links_encoding, Gaps, AloneAt, Alones
<1> HIDE DEF g, little
<1> QED
  BY <1>1, <1>2 DEF IsRest, AloneAt, g

\* When they are all of one kind, the numbers are found in the one run of halves.
LEMMA OneRunIsRead ==
  ASSUME NEW numbers \in Seq(Nat), NEW rest, IsRest(rest, numbers),
         Len(rest.lengths) <= 1, numbers # <<>>
  PROVE  LET halves == WrittenRest(rest)[1].halves IN
         /\ rest.halves # <<>>
         /\ \A k \in 1..Len(numbers) :
              numbers[k] = IF rest.bigFirst THEN halves[2 * k - 1] * Half + halves[2 * k]
                                            ELSE halves[k]
<1> DEFINE v == Fits(numbers)
           N == Len(numbers)
           n == Len(RunLengths(v))
           s == Pieces(numbers)
           lens == Lens(s)
           h == rest.halves
           big == rest.bigFirst
           c == IF big THEN 2 ELSE 1
<1>1. v \in Seq(BOOLEAN) /\ Len(v) = N /\ N \in Nat /\ s \in Seq(Seq(Nat)) /\ Len(s) = N
  BY PiecesOf
<1>2. N >= 1 /\ \A k \in 1..N : numbers[k] \in Nat
  OBVIOUS
<1>3. n = 1 /\ WrittenRest(rest)[1].halves = h
  <2>1. n \in Nat /\ n >= 1
    BY RestInBounds
  <2>2. n <= 1
    BY DEF IsRest
  <2>3. n = 1 => WrittenRest(rest)[1].halves = h
    BY RestInBounds
  <2> HIDE DEF n, h
  <2> QED
    BY <2>1, <2>2, <2>3
<1>4. EndOfRun(v, 0) = 0 /\ EndOfRun(v, 1) = N
  <2>1. EndOfRun(v, 0) = 0 /\ EndOfRun(v, Len(Ascending(RunStarts(v)))) = Len(v)
    <3> HIDE DEF v
    <3> QED
      BY <1>1, RunsOf
  <2>2. n = Len(Ascending(RunStarts(v)))
    <3> HIDE DEF v
    <3> QED
      BY <1>1, RunsOf
  <2> QED
    BY <1>1, <1>3, <2>1, <2>2
<1>5. IsBigRun(rest, 1) = big
  BY DEF IsBigRun
<1>6. ASSUME NEW p \in 1..N PROVE lens[p] = c /\ (numbers[p] < Half <=> ~big)
  <2>1. 1 \in 1..n /\ p \in Nat /\ EndOfRun(v, 1 - 1) < p /\ p <= EndOfRun(v, 1)
    BY <1>1, <1>3, <1>4
  <2>2. lens[p] = IF IsBigRun(rest, 1) THEN 2 ELSE 1
    BY <2>1, RunOfHalves DEF IsRest
  <2>3. numbers[p] < Half <=> ~IsBigRun(rest, 1)
    BY <2>1, RunOfHalves DEF IsRest
  <2> HIDE DEF lens, big, N
  <2> QED
    BY <1>5, <2>2, <2>3
<1>7. ASSUME NEW p \in 1..N
      PROVE  /\ numbers[p] < Half => s[p] = <<numbers[p]>>
             /\ ~(numbers[p] < Half) =>
                   LET q == number_to_pair(numbers[p]) IN s[p] = <<q.multiplier, q.remainer>>
  BY PiecesOf
<1>8. h = FlattenSeq(s)
  BY DEF IsRest
<1>9. Len(h) = Total(lens, N) /\ h \in Seq(Nat)
  BY RestInBounds
<1>10. \A j \in 1..N : \A t \in 1..Len(s[j]) : h[Total(lens, j - 1) + t] = s[j][t]
  <2> HIDE DEF s, h, lens
  <2>1. \A j \in 1..Len(s) : \A t \in 1..Len(s[j]) :
          FlattenSeq(s)[Total(Lens(s), j - 1) + t] = s[j][t]
    BY <1>1, FlattenPlaces
  <2> QED
    BY <1>1, <1>8, <2>1 DEF lens
<1> HIDE DEF v, N, n, s, lens, h
<1>11. c \in Nat /\ c >= 1 /\ (big => c = 2) /\ (~big => c = 1)
  OBVIOUS
<1> HIDE DEF c
<1>12. ASSUME NEW j \in 0..N PROVE Total(lens, j) = j * c
  <2>1. \A k \in 1..N : lens[k] \in Int /\ lens[k] = c
    BY <1>6, <1>11
  <2>2. Total(lens, 0) = 0
    BY <1>1, <2>1, TotalStep
  <2>3. 0 \in 0..N /\ j \in 0..N /\ (\A k \in (0 + 1)..j : lens[k] = c)
    BY <1>1, <2>1
  <2>4. Total(lens, j) = Total(lens, 0) + (j - 0) * c
    <3> DEFINE a == 0
    <3>1. /\ a \in 0..N /\ j \in a..N /\ c \in Int
          /\ \A k \in (a + 1)..j : lens[k] = c
          /\ \A k \in 1..N : lens[k] \in Int
      BY <1>1, <1>11, <2>1, <2>3
    <3> HIDE DEF a
    <3>2. Total(lens, j) = Total(lens, a) + (j - a) * c
      BY <1>1, <3>1, TotalConstant
    <3> QED
      BY <3>2 DEF a
  <2> QED
    BY <1>1, <1>11, <2>2, <2>4
<1>13. h # <<>>
  <2>1. Len(h) = N * c /\ N \in 0..N
    BY <1>1, <1>9, <1>12
  <2>2. N * c >= 1
    <3>1. CASE big
      BY <1>2, <1>1, <1>11, <3>1
    <3>2. CASE ~big
      BY <1>2, <1>1, <1>11, <3>2
    <3> QED
      BY <3>1, <3>2
  <2>3. Len(<<>>) = 0
    OBVIOUS
  <2> QED
    BY <2>1, <2>2, <2>3
<1>14. ASSUME NEW k \in 1..N
       PROVE  numbers[k] = IF big THEN h[2 * k - 1] * Half + h[2 * k] ELSE h[k]
  <2>1. k - 1 \in 0..N /\ Total(lens, k - 1) = (k - 1) * c
    BY <1>1, <1>12
  <2>2. CASE big
    <3> DEFINE q == number_to_pair(numbers[k])
               m == q.multiplier
               r == q.remainer
    <3>1. s[k] = <<m, r>>
      BY <1>6, <1>7, <2>2
    <3>2. m * Half + r = numbers[k]
      BY <1>2, PairIsNumber
    <3> HIDE DEF m, r, q
    <3>3. Len(s[k]) = 2 /\ s[k][1] = m /\ s[k][2] = r
      BY <3>1
    <3>4. 1 \in 1..Len(s[k]) /\ 2 \in 1..Len(s[k])
      BY <3>3
    <3>5. h[Total(lens, k - 1) + 1] = m /\ h[Total(lens, k - 1) + 2] = r
      BY <1>10, <3>3, <3>4
    <3>6. Total(lens, k - 1) + 1 = 2 * k - 1 /\ Total(lens, k - 1) + 2 = 2 * k
      <4>1. Total(lens, k - 1) = (k - 1) * 2
        BY <1>11, <2>1, <2>2
      <4> QED
        BY <1>1, <4>1
    <3>7. h[2 * k - 1] = m /\ h[2 * k] = r
      BY <3>5, <3>6
    <3> QED
      BY <2>2, <3>2, <3>7
  <2>3. CASE ~big
    <3> DEFINE x == numbers[k]
    <3>1. s[k] = <<x>>
      BY <1>6, <1>7, <2>3
    <3> HIDE DEF x
    <3>2. Len(s[k]) = 1 /\ s[k][1] = x
      BY <3>1
    <3>3. h[Total(lens, k - 1) + 1] = x
      <4>1. 1 \in 1..Len(s[k])
        BY <3>2
      <4> QED
        BY <1>10, <3>2, <4>1
    <3>4. Total(lens, k - 1) + 1 = k
      <4>1. Total(lens, k - 1) = (k - 1) * 1
        BY <1>11, <2>1, <2>3
      <4> QED
        BY <1>1, <4>1
    <3> QED
      BY <2>3, <3>3, <3>4 DEF x
  <2> QED
    BY <2>2, <2>3
<1> QED
  BY <1>3, <1>13, <1>14 DEF N, h

\* The function ReadAlone uses.
IsAloneList(f, w, i, count) ==
  f = [k \in 1..count |->
         IF k = 1 THEN Signed(i, w.restFlags[1], ReadGap(w, 1))
         ELSE f[k - 1] + ReadGap(w, k) + 2]
\* The reader finds the links in no interval when their gaps come in one run.
LEMMA AlonesAreRead ==
  ASSUME NEW S \in SUBSET Nat, IsFiniteSet(S), NEW i \in Nat,
         NEW nd, nd.rest = rest_links_encoding(S, i), Len(nd.rest.lengths) <= 1
  PROVE  ReadAlone(Written(nd), i, Cardinality(Alones(S))) = Alones(S)
<1> DEFINE w == Written(nd)
           n == Cardinality(Alones(S))
           gaps == Gaps(S, i)
           g == [k \in 1..n |-> AloneAt(S, k)]
           f == CHOOSE h : IsAloneList(h, w, i, n)
           flag == n # 0 /\ AloneAt(S, 1) >= i
<1>1. /\ n \in Nat /\ gaps \in Seq(Nat) /\ Len(gaps) = n
      /\ \A k \in 1..n : AloneAt(S, k) \in Nat /\ AloneAt(S, k) \in Alones(S)
      /\ \A x \in Alones(S) : \E k \in 1..n : AloneAt(S, k) = x
      /\ Ascending(Alones(S)) = <<>> <=> n = 0
  <2>1. n \in Nat /\ gaps \in Seq(Nat) /\ Len(gaps) = n
    BY GapsOf
  <2>2. \A k \in 1..n : AloneAt(S, k) \in Nat /\ AloneAt(S, k) \in Alones(S)
    BY GapsOf
  <2>3. \A x \in Alones(S) : \E k \in 1..n : AloneAt(S, k) = x
    BY GapsOf
  <2>4. Ascending(Alones(S)) = <<>> <=> n = 0
    BY GapsOf
  <2> QED
    BY <2>1, <2>2, <2>3, <2>4
<1>2. \A k \in 1..n : gaps[k] = IF k = 1 THEN Distance(AloneAt(S, 1), i)
                                ELSE AloneAt(S, k) - AloneAt(S, k - 1) - 2
  BY GapsOf
<1>3. IsRest(nd.rest, gaps)
  BY RestOf
<1>4. nd.rest.flag = flag
  <2>1. nd.rest.flag = (Ascending(Alones(S)) # <<>> /\ AloneAt(S, 1) >= i)
    BY RestOf
  <2> HIDE DEF n
  <2> QED
    BY <1>1, <2>1
<1>5. ReadAlone(w, i, n) = {f[k] : k \in 1..n}
  BY DEF ReadAlone, IsAloneList
<1>6. w.restFlags = (IF nd.rest.halves = <<>> THEN <<>> ELSE <<nd.rest.flag, nd.rest.bigFirst>>)
      /\ w.rest = WrittenRest(nd.rest)
  BY DEF Written
<1> HIDE DEF w, n, gaps, f, flag
<1>7. n # 0 => w.restFlags[1] = flag /\ \A k \in 1..n : ReadGap(w, k) = gaps[k]
  <2> SUFFICES ASSUME n # 0
               PROVE  w.restFlags[1] = flag /\ \A k \in 1..n : ReadGap(w, k) = gaps[k]
    OBVIOUS
  <2> DEFINE halves == WrittenRest(nd.rest)[1].halves
             big == nd.rest.bigFirst
             fl == nd.rest.flag
  <2>1. gaps # <<>>
    BY <1>1
  <2>2. nd.rest.halves # <<>>
    BY <1>1, <1>3, <2>1, OneRunIsRead
  <2>3. \A k \in 1..n : gaps[k] = IF big THEN halves[2 * k - 1] * Half + halves[2 * k]
                                         ELSE halves[k]
    BY <1>1, <1>3, <2>1, OneRunIsRead
  <2>4. w.restFlags = <<fl, big>> /\ w.rest[1].halves = halves
    BY <1>6, <2>2
  <2> HIDE DEF halves, big, fl
  <2>5. w.restFlags[1] = fl /\ w.restFlags[2] = big
    <3>1. <<fl, big>>[1] = fl /\ <<fl, big>>[2] = big
      OBVIOUS
    <3> QED
      BY <2>4, <3>1
  <2>6. fl = flag
    BY <1>4 DEF fl
  <2>7. ASSUME NEW k \in 1..n PROVE ReadGap(w, k) = gaps[k]
    <3>1. ReadGap(w, k) = IF w.restFlags[2] THEN w.rest[1].halves[2 * k - 1] * Half + w.rest[1].halves[2 * k]
                          ELSE w.rest[1].halves[k]
      BY DEF ReadGap
    <3>2. ReadGap(w, k) = IF big THEN halves[2 * k - 1] * Half + halves[2 * k] ELSE halves[k]
      BY <2>4, <2>5, <3>1
    <3> QED
      BY <2>3, <3>2
  <2> QED
    BY <2>5, <2>6, <2>7
<1>8. \A k \in 1..n : k # 1 => AloneAt(S, k - 1) + ReadGap(w, k) + 2 = AloneAt(S, k)
  <2> SUFFICES ASSUME NEW k \in 1..n, k # 1
               PROVE  AloneAt(S, k - 1) + ReadGap(w, k) + 2 = AloneAt(S, k)
    OBVIOUS
  <2>1. k - 1 \in 1..n /\ n # 0
    BY <1>1
  <2>2. ReadGap(w, k) = AloneAt(S, k) - AloneAt(S, k - 1) - 2
    BY <1>2, <1>7, <2>1
  <2>3. AloneAt(S, k) \in Nat /\ AloneAt(S, k - 1) \in Nat
    BY <1>1, <2>1
  <2> QED
    BY <2>2, <2>3
<1>9. n # 0 => Signed(i, w.restFlags[1], ReadGap(w, 1)) = AloneAt(S, 1)
  <2> SUFFICES ASSUME n # 0 PROVE Signed(i, w.restFlags[1], ReadGap(w, 1)) = AloneAt(S, 1)
    OBVIOUS
  <2> DEFINE x == AloneAt(S, 1)
             up == x >= i
  <2>1. 1 \in 1..n /\ x \in Nat
    BY <1>1
  <2>2. ReadGap(w, 1) = Distance(x, i)
    BY <1>2, <1>7, <2>1
  <2>3. w.restFlags[1] = up
    BY <1>7 DEF flag
  <2> HIDE DEF x
  <2>4. Signed(i, up, Distance(x, i)) = x
    BY <2>1 DEF Signed, Distance
  <2> QED
    BY <2>2, <2>3, <2>4 DEF x
<1>10. IsAloneList(g, w, i, n)
  <2>1. ASSUME NEW k \in 1..n
        PROVE  g[k] = IF k = 1 THEN Signed(i, w.restFlags[1], ReadGap(w, 1))
                      ELSE g[k - 1] + ReadGap(w, k) + 2
    <3>1. CASE k = 1
      <4>1. n # 0
        BY <1>1
      <4> QED
        BY <1>9, <3>1, <4>1
    <3>2. CASE k # 1
      <4>1. k - 1 \in 1..n
        BY <1>1, <3>2
      <4>2. g[k] = AloneAt(S, k) /\ g[k - 1] = AloneAt(S, k - 1)
        BY <4>1
      <4> HIDE DEF g
      <4> QED
        BY <1>8, <3>2, <4>2
    <3> QED
      BY <3>1, <3>2
  <2>2. g = [k \in 1..n |-> g[k]]
    OBVIOUS
  <2> HIDE DEF g
  <2> QED
    BY <2>1, <2>2 DEF IsAloneList
<1>11. \A k \in 1..n : g[k] = AloneAt(S, k)
  OBVIOUS
<1> HIDE DEF g
<1>12. IsAloneList(f, w, i, n)
  BY <1>10 DEF f
<1>13. \A k \in 1..n : f[k] = IF k = 1 THEN Signed(i, w.restFlags[1], ReadGap(w, 1))
                              ELSE f[k - 1] + ReadGap(w, k) + 2
  BY <1>12 DEF IsAloneList
<1> DEFINE P == {k \in 0..n : k # 0 => f[k] = AloneAt(S, k)}
<1>14. 0 \in P
  BY <1>1
<1>15. ASSUME NEW k \in 0..(n - 1), k \in P PROVE k + 1 \in P
  <2>1. k + 1 \in 1..n /\ (k + 1) - 1 = k /\ k + 1 \in 0..n /\ n # 0
    BY <1>1
  <2>2. CASE k = 0
    <3>1. f[1] = AloneAt(S, 1)
      BY <1>9, <1>13, <2>1, <2>2
    <3> QED
      BY <2>1, <2>2, <3>1
  <2>3. CASE k # 0
    <3>1. f[k + 1] = f[k] + ReadGap(w, k + 1) + 2
      BY <1>13, <2>1, <2>3
    <3>2. f[k] = AloneAt(S, k)
      BY <1>15, <2>3
    <3>3. AloneAt(S, k) + ReadGap(w, k + 1) + 2 = AloneAt(S, k + 1)
      BY <1>8, <2>1, <2>3
    <3> QED
      BY <2>1, <3>1, <3>2, <3>3
  <2> QED
    BY <2>2, <2>3
<1> HIDE DEF P
<1>16. \A k \in 0..n : k \in P
  BY <1>1, <1>14, <1>15, Induction
<1>17. \A k \in 1..n : f[k] = AloneAt(S, k)
  <2>1. \A k \in 1..n : k \in 0..n /\ k # 0
    BY <1>1
  <2> QED
    BY <1>16, <2>1 DEF P
<1>18. {f[k] : k \in 1..n} = Alones(S)
  <2>1. \A k \in 1..n : f[k] \in Alones(S)
    BY <1>1, <1>17
  <2>2. \A x \in Alones(S) : \E k \in 1..n : f[k] = x
    <3>1. \A x \in Alones(S) : \E k \in 1..n : AloneAt(S, k) = x
      BY <1>1
    <3> QED
      BY <1>17, <3>1
  <2> QED
    BY <2>1, <2>2
<1> QED
  BY <1>5, <1>18 DEF w, n

-------------------------------------------------------------------------------
(* A page. *)

\* What encode_nodesvector makes of a page of a graph.
IsNode(nd, g, i) ==
  LET ref == find_ref(g, i) IN
  /\ nd.outdegree = Cardinality(g[i])
  /\ nd.reference = IF ref = Root THEN 0 ELSE i - ref
  /\ nd.block = block_encoding(Bits(g[ref], g[i]))
  /\ nd.interval = interval_encoding(g[i] \ g[ref], i)
  /\ nd.rest = rest_links_encoding(g[i] \ g[ref], i)

\* What the parts of a page refer to.
LEMMA PageParts ==
  ASSUME NEW g, IsGraph(g), NEW i \in Page
  PROVE  LET ref == find_ref(g, i) IN
         /\ i \in Nat /\ ref \in 0..(i - 1)
         /\ g[ref] \in SUBSET Nat /\ IsFiniteSet(g[ref])
         /\ g[i] \in SUBSET Nat /\ IsFiniteSet(g[i])
         /\ g[i] \ g[ref] \in SUBSET Nat /\ IsFiniteSet(g[i] \ g[ref])
<1> DEFINE ref == find_ref(g, i)
<1>1. ref \in 0..(i - 1)
  BY FindRefBefore
<1> HIDE DEF ref
<1>2. i \in 0..PageCount /\ ref \in 0..PageCount /\ i \in Nat
  BY <1>1, NumbersAssumption DEF Page
<1>3. /\ g[ref] \in SUBSET Nat /\ IsFiniteSet(g[ref])
      /\ g[i] \in SUBSET Nat /\ IsFiniteSet(g[i])
  BY <1>2 DEF IsGraph
<1>4. g[i] \ g[ref] \in SUBSET Nat /\ IsFiniteSet(g[i] \ g[ref])
  BY <1>3, FS_Subset
<1> QED
  BY <1>1, <1>2, <1>3, <1>4 DEF ref

\* The copied links of a page are found.
LEMMA CopiedAreRead ==
  ASSUME NEW g, IsGraph(g), NEW i \in Page, NEW nd, IsNode(nd, g, i)
  PROVE  ReadCopied(Written(nd), g[find_ref(g, i)]) = g[find_ref(g, i)] \cap g[i]
<1> DEFINE ref == find_ref(g, i)
           R == g[ref]
           L == g[i]
           w == Written(nd)
           be == block_encoding(Bits(R, L))
<1>1. R \in SUBSET Nat /\ IsFiniteSet(R)
  BY PageParts
<1>2. w.blocks = be.blocks /\ w.blockFlag = IF w.blocks = <<>> THEN <<>> ELSE <<be.flag>>
  BY DEF Written, IsNode
<1>3. R # {} => L \cap R # {}
  <2>1. R # {} => ref # Root
    BY DEF IsGraph
  <2> QED
    BY <2>1, SharedLink
<1> HIDE DEF ref, R, L, w
<1>4. R # {} /\ w.blocks = <<>> => Bits(R, L)[1]
  BY <1>1, <1>2, <1>3, OneBlockIsCopied
<1>5. ReadCopied(w, R) = R \cap L
  BY <1>1, <1>2, <1>4, CopiedAreShared
<1> QED
  BY <1>5 DEF ref, R, L, w

\* Two parts of a set and what is left.
LEMMA ThreeParts ==
  ASSUME NEW S, IsFiniteSet(S), NEW A, NEW B, NEW C, S = A \cup B \cup C,
         A \cap B = {}, A \cap C = {}, B \cap C = {}
  PROVE  Cardinality(S) - Cardinality(A) - Cardinality(B) = Cardinality(C)
<1>1. IsFiniteSet(A) /\ IsFiniteSet(B) /\ IsFiniteSet(C) /\ IsFiniteSet(A \cup B)
  <2>1. A \subseteq S /\ B \subseteq S /\ C \subseteq S /\ A \cup B \subseteq S
    OBVIOUS
  <2> QED
    BY <2>1, FS_Subset
<1>2. /\ Cardinality(A) \in Nat /\ Cardinality(B) \in Nat /\ Cardinality(C) \in Nat
      /\ Cardinality(A \cup B) \in Nat
  BY <1>1, FS_CardinalityType
<1>3. Cardinality({}) = 0
  BY FS_EmptySet
<1>4. Cardinality(A \cup B) = Cardinality(A) + Cardinality(B)
  <2>1. Cardinality(A \cup B) = Cardinality(A) + Cardinality(B) - Cardinality(A \cap B)
    BY <1>1, FS_Union
  <2>2. Cardinality(A \cap B) = 0
    BY <1>3
  <2> QED
    BY <1>2, <2>1, <2>2
<1>5. Cardinality(S) = Cardinality(A \cup B) + Cardinality(C)
  <2>1. /\ Cardinality((A \cup B) \cup C)
             = Cardinality(A \cup B) + Cardinality(C) - Cardinality((A \cup B) \cap C)
    BY <1>1, FS_Union
  <2>2. (A \cup B) \cap C = {} /\ S = (A \cup B) \cup C
    OBVIOUS
  <2>3. Cardinality((A \cup B) \cap C) = 0 /\ Cardinality(S) = Cardinality((A \cup B) \cup C)
    BY <1>3, <2>2
  <2> QED
    BY <1>2, <2>1, <2>3
<1> QED
  BY <1>2, <1>4, <1>5

\* The reader finds the links of a page whose gaps come in one run.
LEMMA PageIsRead ==
  ASSUME NEW g, IsGraph(g), NEW i \in Page, NEW nd, IsNode(nd, g, i),
         Len(nd.rest.lengths) <= 1
  PROVE  LET r == Written(nd).reference
         IN ReadLinks(Written(nd), i, IF r = 0 THEN {} ELSE g[i - r]) = g[i]
<1> DEFINE ref == find_ref(g, i)
           R == g[ref]
           L == g[i]
           D == L \ R
           w == Written(nd)
           r == w.reference
           refLinks == IF r = 0 THEN {} ELSE g[i - r]
<1>1. /\ i \in Nat /\ ref \in 0..(i - 1)
      /\ R \in SUBSET Nat /\ L \in SUBSET Nat /\ IsFiniteSet(L)
      /\ D \in SUBSET Nat /\ IsFiniteSet(D)
  BY PageParts
<1>2. /\ w.degree = Cardinality(L) /\ r = IF ref = Root THEN 0 ELSE i - ref
      /\ nd.interval = interval_encoding(D, i) /\ nd.rest = rest_links_encoding(D, i)
  BY DEF Written, IsNode
<1>3. refLinks = R
  <2>1. R = g[ref] /\ g[Root] = {} /\ Root = 0
    BY DEF IsGraph, Root
  <2> HIDE DEF ref, R, w
  <2>2. CASE ref = Root
    BY <1>2, <2>1, <2>2
  <2>3. CASE ref # Root
    <3>1. r # 0 /\ i - r = ref
      BY <1>1, <1>2, <2>1, <2>3
    <3> QED
      BY <2>1, <3>1
  <2> QED
    BY <2>2, <2>3
<1>4. ReadCopied(w, R) = R \cap L
  BY CopiedAreRead
<1> HIDE DEF ref, R, L, D, w
<1>5. ReadRuns(w, i) = InRuns(D) /\ ReadAlone(w, i, Cardinality(Alones(D))) = Alones(D)
  BY <1>1, <1>2, RunsAreRead, AlonesAreRead DEF w
<1>6. D = InRuns(D) \cup Alones(D) /\ InRuns(D) \cap Alones(D) = {}
  BY <1>1, RunsAndAlones
<1>7. D = L \ R
  BY DEF D
<1>8. w.degree - Cardinality(R \cap L) - Cardinality(InRuns(D)) = Cardinality(Alones(D))
  <2> DEFINE A == R \cap L
             B == InRuns(D)
             C == Alones(D)
  <2>1. /\ L = A \cup B \cup C /\ A \cap B = {} /\ A \cap C = {} /\ B \cap C = {}
    BY <1>6, <1>7
  <2> HIDE DEF A, B, C
  <2>2. Cardinality(L) - Cardinality(A) - Cardinality(B) = Cardinality(C)
    BY <1>1, <2>1, ThreeParts
  <2> QED
    BY <1>2, <2>2 DEF A, B, C
<1>9. ReadLinks(w, i, R) = (R \cap L) \cup InRuns(D) \cup Alones(D)
  BY <1>4, <1>5, <1>8 DEF ReadLinks
<1>10. ReadLinks(w, i, R) = L
  BY <1>6, <1>7, <1>9
<1> QED
  BY <1>3, <1>10 DEF w, L

-------------------------------------------------------------------------------
(* What is counted of a page. *)
\* The values of two lists are values of the one list they make.
LEMMA SetOfBoth ==
  ASSUME NEW X, NEW s \in Seq(X), NEW t \in Seq(X)
  PROVE  s \o t \in Seq(X) /\ ToSet(s) \subseteq ToSet(s \o t) /\ ToSet(t) \subseteq ToSet(s \o t)
<1> DEFINE u == s \o t
<1>1. /\ u \in Seq(X) /\ Len(u) = Len(s) + Len(t) /\ Len(s) \in Nat /\ Len(t) \in Nat
      /\ DOMAIN s = 1..Len(s) /\ DOMAIN t = 1..Len(t) /\ DOMAIN u = 1..Len(u)
  OBVIOUS
<1>2. \A k \in 1..Len(s) : u[k] = s[k]
  OBVIOUS
<1>3. \A k \in 1..Len(t) : u[Len(s) + k] = t[k]
  OBVIOUS
<1> HIDE DEF u
<1>4. \A k \in 1..Len(s) : k \in 1..Len(u)
  BY <1>1
<1>5. \A k \in 1..Len(t) : Len(s) + k \in 1..Len(u)
  BY <1>1
<1>6. ToSet(s) \subseteq ToSet(u)
  BY <1>1, <1>2, <1>4 DEF ToSet
<1>7. ToSet(t) \subseteq ToSet(u)
  BY <1>1, <1>3, <1>5 DEF ToSet
<1> QED
  BY <1>1, <1>6, <1>7 DEF u

\* The numbers the starts of the intervals are counted as.
StartNumbers(n) ==
  [k \in DOMAIN n.interval.intervals |->
     LET p == n.interval.intervals[k].start IN
     IF p.multiplier = 0 THEN <<p.remainer>> ELSE <<p.multiplier, p.remainer>>]
\* What is written of the starts of the intervals is counted.
LEMMA StartNumbersOf ==
  ASSUME NEW S \in SUBSET Nat, IsFiniteSet(S), NEW i \in Nat,
         NEW nd, nd.interval = interval_encoding(S, i)
  PROVE  LET w == Written(nd) IN
         /\ StartNumbers(nd) \in Seq(Seq(Nat))
         /\ DOMAIN w.intervals = 1..Len(StartNumbers(nd))
         /\ \A k \in DOMAIN w.intervals :
              /\ {w.intervals[k].remainer} \cup ToSet(w.intervals[k].multiplier)
                   \subseteq ToSet(StartNumbers(nd)[k])
              /\ w.intervals[k].length >= 1
<1> DEFINE w == Written(nd)
           n == Len(Ascending(Starts(S)))
           iv == nd.interval.intervals
           s == StartNumbers(nd)
           p(k) == number_to_pair(StartGap(S, i, k))
<1>1. /\ n \in Nat /\ DOMAIN w.intervals = 1..n /\ Len(iv) = n
      /\ \A k \in 1..n : /\ StartGap(S, i, k) \in Nat
                         /\ EndOf(S, k) \in Nat /\ StartOf(S, k) \in Nat
                         /\ StartOf(S, k) < EndOf(S, k)
  <2>1. /\ n \in Nat
        /\ \A k \in 1..n : /\ StartGap(S, i, k) \in Nat
                           /\ EndOf(S, k) \in Nat /\ StartOf(S, k) \in Nat
                           /\ StartOf(S, k) < EndOf(S, k)
    BY IntervalPlaces
  <2>2. DOMAIN w.intervals = 1..n /\ Len(iv) = n
    BY WrittenIntervals
  <2> QED
    BY <2>1, <2>2
<1>2. \A k \in 1..n :
        /\ iv[k].start = p(k)
        /\ w.intervals[k].multiplier = IF p(k).multiplier = 0 THEN <<>> ELSE <<p(k).multiplier>>
        /\ w.intervals[k].remainer = p(k).remainer
        /\ w.intervals[k].length = EndOf(S, k) - StartOf(S, k)
  BY WrittenIntervals
<1>3. DOMAIN iv = 1..n
  <2>1. w.intervals = [k \in DOMAIN iv |->
                        [multiplier |-> LET m == iv[k].start.multiplier
                                        IN IF m = 0 THEN <<>> ELSE <<m>>,
                         remainer |-> iv[k].start.remainer,
                         length |-> iv[k].length]]
    BY DEF Written
  <2> HIDE DEF w, iv, n
  <2> QED
    BY <1>1, <2>1
<1>4. s = [k \in 1..n |-> IF iv[k].start.multiplier = 0 THEN <<iv[k].start.remainer>>
                          ELSE <<iv[k].start.multiplier, iv[k].start.remainer>>]
  BY <1>3 DEF StartNumbers
<1> HIDE DEF w, n, iv, s
<1>5. ASSUME NEW k \in 1..n
      PROVE  /\ s[k] \in Seq(Nat)
             /\ {w.intervals[k].remainer} \cup ToSet(w.intervals[k].multiplier) \subseteq ToSet(s[k])
             /\ w.intervals[k].length >= 1
  <2> DEFINE m == p(k).multiplier
             r == p(k).remainer
  <2>1. m \in Nat /\ r \in Nat
    <3>1. p(k).multiplier \in Nat /\ p(k).remainer \in 0..(Half - 1)
      BY <1>1, PairIsNumber
    <3> QED
      BY <3>1, NumbersAssumption
  <2>2. /\ s[k] = IF m = 0 THEN <<r>> ELSE <<m, r>>
        /\ w.intervals[k].multiplier = IF m = 0 THEN <<>> ELSE <<m>>
        /\ w.intervals[k].remainer = r
    BY <1>2, <1>4
  <2>5. w.intervals[k].length >= 1
    <3> HIDE DEF p
    <3>1. w.intervals[k].length = EndOf(S, k) - StartOf(S, k)
      BY <1>2
    <3>2. EndOf(S, k) \in Nat /\ StartOf(S, k) \in Nat /\ StartOf(S, k) < EndOf(S, k)
      BY <1>1
    <3> QED
      BY <3>1, <3>2
  <2> HIDE DEF m, r, p
  <2>3. CASE m = 0
    <3>1. s[k] = <<r>> /\ w.intervals[k].multiplier = <<>>
      BY <2>2, <2>3
    <3>2. <<r>> \in Seq(Nat) /\ r \in ToSet(<<r>>) /\ ToSet(<<>>) = {}
      BY <2>1 DEF ToSet
    <3>3. {r} \cup {} \subseteq ToSet(<<r>>)
      BY <3>2
    <3> QED
      BY <2>2, <2>5, <3>1, <3>2, <3>3
  <2>4. CASE m # 0
    <3>1. s[k] = <<m, r>> /\ w.intervals[k].multiplier = <<m>>
      BY <2>2, <2>4
    <3>2. <<m, r>> \in Seq(Nat) /\ r \in ToSet(<<m, r>>) /\ m \in ToSet(<<m, r>>)
      <4>1. DOMAIN <<m, r>> = {1, 2} /\ <<m, r>>[1] = m /\ <<m, r>>[2] = r
        OBVIOUS
      <4>2. r \in ToSet(<<m, r>>) /\ m \in ToSet(<<m, r>>)
        BY <4>1 DEF ToSet
      <4> QED
        BY <2>1, <4>2
    <3>3. ToSet(<<m>>) = {m}
      <4>1. DOMAIN <<m>> = {1} /\ <<m>>[1] = m
        OBVIOUS
      <4> QED
        BY <4>1 DEF ToSet
    <3>4. {r} \cup {m} \subseteq ToSet(<<m, r>>)
      BY <3>2
    <3> QED
      BY <2>2, <2>5, <3>1, <3>2, <3>3, <3>4
  <2> QED
    BY <2>3, <2>4
<1>6. s \in Seq(Seq(Nat)) /\ Len(s) = n
  <2>1. s = [k \in 1..n |-> s[k]]
    BY <1>4
  <2>2. s \in [1..n -> Seq(Nat)]
    BY <1>5, <2>1
  <2> QED
    BY <1>1, <2>2
<1> QED
  BY <1>1, <1>5, <1>6 DEF w, s

\* The values of a page, and everything about them that create_result writes.
LEMMA PageIsWritable ==
  ASSUME NEW g, IsGraph(g), NEW i \in Page, NEW nd, IsNode(nd, g, i)
  PROVE  /\ Counted(nd) \in Seq(Nat)
         /\ CodedValues(Written(nd)) \subseteq ToSet(Counted(nd))
         /\ \A x \in GammaCoded(Written(nd)) : x >= 1
<1> DEFINE ref == find_ref(g, i)
           R == g[ref]
           L == g[i]
           D == L \ R
           w == Written(nd)
           v == Bits(R, L)
           first == <<nd.outdegree, nd.reference>>
           halves == nd.rest.halves
           starts == FlattenSeq(StartNumbers(nd))
           counted == Counted(nd)
           values == ToSet(counted)
           gaps == Gaps(D, i)
<1>1. /\ i \in Nat /\ ref \in 0..(i - 1) /\ IsFiniteSet(R) /\ IsFiniteSet(L)
      /\ D \in SUBSET Nat /\ IsFiniteSet(D)
  BY PageParts
<1>2. /\ nd.outdegree = Cardinality(L) /\ nd.reference = (IF ref = Root THEN 0 ELSE i - ref)
      /\ nd.block = block_encoding(v)
      /\ nd.interval = interval_encoding(D, i) /\ nd.rest = rest_links_encoding(D, i)
  BY DEF IsNode
<1>3. /\ w.degree = nd.outdegree /\ w.reference = nd.reference
      /\ w.blockCount = Len(nd.block.blocks) + 1 /\ w.blocks = nd.block.blocks
      /\ w.intervalCount = Len(nd.interval.intervals) + 1
      /\ w.rest = WrittenRest(nd.rest)
  BY DEF Written
<1>4. counted = first \o halves \o starts
  BY DEF Counted, StartNumbers
<1>5. v \in Seq(BOOLEAN)
  BY <1>1, BitsType
<1> HIDE DEF ref, R, L, D, w, v, counted
<1>6. gaps \in Seq(Nat) /\ IsRest(nd.rest, gaps)
  BY <1>1, <1>2, GapsOf, RestOf
<1> HIDE DEF gaps
<1>7. first \in Seq(Nat)
  <2>1. Cardinality(L) \in Nat
    BY <1>1, FS_CardinalityType
  <2>2. nd.reference \in Nat
    BY <1>1, <1>2 DEF Root
  <2> QED
    BY <1>2, <2>1, <2>2
<1>8. halves \in Seq(Nat)
  BY <1>6, RestInBounds
<1>9. starts \in Seq(Nat)
  <2>1. StartNumbers(nd) \in Seq(Seq(Nat))
    BY <1>1, <1>2, StartNumbersOf
  <2> QED
    BY <2>1, FlattenPlaces
<1>10. nd.outdegree \in ToSet(first) /\ nd.reference \in ToSet(first)
  <2>1. DOMAIN first = {1, 2} /\ first[1] = nd.outdegree /\ first[2] = nd.reference
    OBVIOUS
  <2> HIDE DEF first
  <2> QED
    BY <2>1 DEF ToSet
<1> HIDE DEF first, halves, starts
<1>11. /\ counted \in Seq(Nat)
       /\ ToSet(first) \subseteq values /\ ToSet(halves) \subseteq values
       /\ ToSet(starts) \subseteq values
  <2>1. /\ first \o halves \in Seq(Nat)
        /\ ToSet(first) \subseteq ToSet(first \o halves)
        /\ ToSet(halves) \subseteq ToSet(first \o halves)
    BY <1>7, <1>8, SetOfBoth
  <2>2. /\ (first \o halves) \o starts \in Seq(Nat)
        /\ ToSet(first \o halves) \subseteq ToSet((first \o halves) \o starts)
        /\ ToSet(starts) \subseteq ToSet((first \o halves) \o starts)
    BY <1>9, <2>1, SetOfBoth
  <2> QED
    BY <1>4, <2>1, <2>2
<1> HIDE DEF values
<1>12. {w.degree, w.reference} \subseteq values
  BY <1>3, <1>10, <1>11
<1>13. ASSUME NEW k \in DOMAIN w.intervals
       PROVE  /\ {w.intervals[k].remainer} \cup ToSet(w.intervals[k].multiplier) \subseteq values
              /\ w.intervals[k].length >= 1
  <2>1. /\ StartNumbers(nd) \in Seq(Seq(Nat)) /\ k \in 1..Len(StartNumbers(nd))
        /\ {w.intervals[k].remainer} \cup ToSet(w.intervals[k].multiplier)
             \subseteq ToSet(StartNumbers(nd)[k])
        /\ w.intervals[k].length >= 1
    BY <1>1, <1>2, StartNumbersOf DEF w
  <2>2. ToSet(StartNumbers(nd)[k]) \subseteq ToSet(starts)
    BY <2>1, FlattenHolds DEF starts
  <2> QED
    BY <1>11, <2>1, <2>2
<1>14. ASSUME NEW k \in DOMAIN w.rest
       PROVE  ToSet(w.rest[k].halves) \subseteq values /\ w.rest[k].size >= 1
  <2>1. ToSet(WrittenRest(nd.rest)[k].halves) \subseteq ToSet(nd.rest.halves)
        /\ WrittenRest(nd.rest)[k].size >= 1
    <3>1. DOMAIN WrittenRest(nd.rest) = 1..Len(RunLengths(Fits(gaps)))
      BY <1>6, RestInBounds
    <3>2. k \in 1..Len(RunLengths(Fits(gaps)))
      BY <1>3, <3>1
    <3> QED
      BY <1>6, <3>2, RestInBounds
  <2> QED
    BY <1>3, <1>11, <2>1 DEF halves
<1>15. ASSUME NEW x \in ToSet(w.blocks) PROVE x >= 1
  <2> DEFINE blocks == block_encoding(v).blocks
  <2>1. blocks \in Seq(Nat) /\ \A k \in 1..Len(blocks) : blocks[k] >= 1
    BY <1>5, BlocksOf
  <2>2. w.blocks = blocks
    BY <1>2, <1>3
  <2> HIDE DEF blocks
  <2> QED
    BY <2>1, <2>2 DEF ToSet
<1>16. w.blockCount >= 1 /\ w.intervalCount >= 1
  <2>1. Len(nd.block.blocks) \in Nat
    BY <1>2, <1>5, BlocksOf
  <2>2. Len(nd.interval.intervals) \in Nat
    <3>1. Len(nd.interval.intervals) = Len(Ascending(Starts(D)))
      BY <1>1, <1>2, WrittenIntervals
    <3>2. Len(Ascending(Starts(D))) \in Nat
      BY <1>1, IntervalPlaces
    <3> QED
      BY <3>1, <3>2
  <2> QED
    BY <1>3, <2>1, <2>2
<1>17. CodedValues(w) \subseteq values
  <2> DEFINE heads == {w.degree, w.reference}
             ofRuns == UNION {{w.intervals[k].remainer} \cup ToSet(w.intervals[k].multiplier) :
                                k \in DOMAIN w.intervals}
             ofRest == UNION {ToSet(w.rest[k].halves) : k \in DOMAIN w.rest}
  <2>1. heads \subseteq values
    BY <1>12
  <2>2. ofRuns \subseteq values
    BY <1>13
  <2>3. ofRest \subseteq values
    BY <1>14
  <2>4. CodedValues(w) = heads \cup ofRuns \cup ofRest
    BY DEF CodedValues
  <2> HIDE DEF heads, ofRuns, ofRest
  <2> QED
    BY <2>1, <2>2, <2>3, <2>4
<1>18. \A x \in GammaCoded(w) : x >= 1
  BY <1>13, <1>14, <1>15, <1>16 DEF GammaCoded
<1> QED
  BY <1>11, <1>17, <1>18 DEF values, counted, w

-------------------------------------------------------------------------------
(* The Huffman tree. *)

\* A node of the Huffman tree has these fields.
IsTreeNode(n) ==
  n = [id |-> n.id, weight |-> n.weight, parent |-> n.parent,
       lchild |-> n.lchild, rchild |-> n.rchild]

\* The first nodes are the leaves, one for each value.
IsTree(tree, ids) ==
  /\ Len(tree) \in Nat /\ tree = [k \in 1..Len(tree) |-> tree[k]]
  /\ \A k \in 1..Len(tree) : IsTreeNode(tree[k])
  /\ Cardinality(ids) <= Len(tree)
  /\ \A k \in 1..Cardinality(ids) : tree[k].id = Ascending(ids)[k] /\ tree[k].lchild = 0

\* HuffmanTree begins with the leaves.
LEMMA LeavesAreTree ==
  ASSUME NEW weights, DOMAIN weights \in SUBSET Nat, IsFiniteSet(DOMAIN weights)
  PROVE  IsTree(Leaves(weights), DOMAIN weights)
<1> DEFINE ids == DOMAIN weights
           a == Ascending(ids)
           n == Cardinality(ids)
           t == Leaves(weights)
           leaf(k) == [id |-> a[k], weight |-> weights[a[k]], parent |-> 0,
                       lchild |-> 0, rchild |-> 0]
<1>1. n \in Nat /\ DOMAIN a = 1..n
  BY FS_CardinalityType DEF Ascending
<1>2. t = [k \in 1..n |-> leaf(k)]
  BY <1>1 DEF Leaves
<1>3. \A k \in 1..n : t[k] = leaf(k)
  BY <1>2
<1>4. Len(t) = n
  <2>1. DOMAIN t = 1..n
    BY <1>2
  <2> HIDE DEF n, t
  <2> QED
    BY <1>1, <2>1
<1>5. t = [k \in 1..n |-> t[k]]
  BY <1>2
<1>6. \A k \in 1..n : IsTreeNode(t[k]) /\ t[k].id = a[k] /\ t[k].lchild = 0
  <2> SUFFICES ASSUME NEW k \in 1..n
               PROVE  IsTreeNode(t[k]) /\ t[k].id = a[k] /\ t[k].lchild = 0
    OBVIOUS
  <2> DEFINE m == t[k]
             x == a[k]
             y == weights[x]
  <2>1. m = [id |-> x, weight |-> y, parent |-> 0, lchild |-> 0, rchild |-> 0]
    BY <1>3
  <2> HIDE DEF m, x, y
  <2>2. IsTreeNode(m) /\ m.id = x /\ m.lchild = 0
    BY <2>1 DEF IsTreeNode
  <2> QED
    BY <2>2 DEF m, x
<1> HIDE DEF t
<1> QED
  BY <1>1, <1>4, <1>5, <1>6 DEF IsTree, t

\* Among the first i nodes, s holds two without parent that none is lighter than.
IsPicked(tree, s, i) ==
  /\ s[1] \in 1..i /\ s[2] \in 1..i /\ s[1] # s[2]
  /\ tree[s[1]].parent = 0 /\ tree[s[2]].parent = 0
  /\ \A k \in 1..i : tree[k].parent = 0 /\ k # s[1] /\ k # s[2] =>
       tree[s[1]].weight <= tree[k].weight /\ tree[s[2]].weight <= tree[k].weight

\* The loop of select keeps the two lightest nodes.
LEMMA LighterPicks ==
  ASSUME NEW tree, NEW L \in Nat, DOMAIN tree = 1..L, \A k \in 1..L : tree[k].weight \in Nat,
         NEW i \in 2..L, NEW s \in (1..L) \X (1..L), IsPicked(tree, s, i - 1)
  PROVE  Lighter(tree, s, i) \in (1..L) \X (1..L) /\ IsPicked(tree, Lighter(tree, s, i), i)
<1> DEFINE a == s[1]
           b == s[2]
<1>1. s = <<a, b>> /\ a \in 1..L /\ b \in 1..L
  OBVIOUS
<1>2. Lighter(tree, s, i) =
        IF tree[b].weight > tree[a].weight
          THEN IF tree[i].parent = 0 /\ tree[i].weight < tree[b].weight THEN <<a, i>> ELSE <<a, b>>
          ELSE IF tree[i].parent = 0 /\ tree[i].weight < tree[a].weight THEN <<i, b>> ELSE <<a, b>>
  <2>1. [s EXCEPT ![1] = i] = <<i, b>> /\ [s EXCEPT ![2] = i] = <<a, i>>
    BY <1>1
  <2> QED
    BY <1>1, <2>1 DEF Lighter, max_index
<1> HIDE DEF a, b
<1>3. /\ a \in 1..(i - 1) /\ b \in 1..(i - 1) /\ a # b
      /\ tree[a].parent = 0 /\ tree[b].parent = 0
      /\ \A k \in 1..(i - 1) : tree[k].parent = 0 /\ k # a /\ k # b =>
           tree[a].weight <= tree[k].weight /\ tree[b].weight <= tree[k].weight
  BY DEF IsPicked, a, b
<1>4. \A k \in 1..i : k = i \/ k \in 1..(i - 1)
  OBVIOUS
<1>5. ASSUME NEW x \in 1..i, NEW y \in 1..i, x # y, tree[x].parent = 0, tree[y].parent = 0,
             \A k \in 1..i : tree[k].parent = 0 /\ k # x /\ k # y =>
               tree[x].weight <= tree[k].weight /\ tree[y].weight <= tree[k].weight
      PROVE  <<x, y>> \in (1..L) \X (1..L) /\ IsPicked(tree, <<x, y>>, i)
  BY <1>5 DEF IsPicked
<1>6. tree[a].weight \in Nat /\ tree[b].weight \in Nat /\ \A k \in 1..i : tree[k].weight \in Nat
  BY <1>1
<1>21. \A x, y, z \in Nat : x < y /\ y <= z => x <= z
  OBVIOUS
<1>22. \A x, y \in Nat : (x < y => x <= y) /\ (~(x > y) => x <= y)
  OBVIOUS
<1>7. CASE tree[b].weight > tree[a].weight /\ tree[i].parent = 0 /\ tree[i].weight < tree[b].weight
  <2>1. a \in 1..i /\ i \in 1..i /\ a # i
    BY <1>3
  <2>2. \A k \in 1..i : tree[k].parent = 0 /\ k # a /\ k # i =>
          tree[a].weight <= tree[k].weight /\ tree[i].weight <= tree[k].weight
    <3> SUFFICES ASSUME NEW k \in 1..(i - 1), tree[k].parent = 0, k # a
                 PROVE  tree[a].weight <= tree[k].weight /\ tree[i].weight <= tree[k].weight
      BY <1>4
    <3>1. k # b => tree[a].weight <= tree[k].weight /\ tree[b].weight <= tree[k].weight
      BY <1>3
    <3>2. tree[k].weight \in Nat /\ tree[i].weight \in Nat
      BY <1>6
    <3>3. tree[i].weight < tree[b].weight /\ tree[a].weight \in Nat /\ tree[b].weight \in Nat
      BY <1>6, <1>7
    <3>4. CASE k = b
      <4>1. tree[a].weight < tree[b].weight
        BY <1>6, <1>7
      <4> QED
        BY <1>22, <3>3, <3>2, <3>4, <4>1
    <3>5. CASE k # b
      BY <1>21, <3>1, <3>2, <3>3, <3>5
    <3> QED
      BY <3>4, <3>5
  <2>3. Lighter(tree, s, i) = <<a, i>>
    BY <1>2, <1>7
  <2>4. a # i /\ tree[a].parent = 0 /\ tree[i].parent = 0
    BY <1>3, <1>7, <2>1
  <2>5. <<a, i>> \in (1..L) \X (1..L) /\ IsPicked(tree, <<a, i>>, i)
    BY <1>5, <2>1, <2>2, <2>4
  <2> QED
    BY <2>3, <2>5
<1>8. CASE ~(tree[b].weight > tree[a].weight) /\ tree[i].parent = 0 /\ tree[i].weight < tree[a].weight
  <2>1. b \in 1..i /\ i \in 1..i /\ b # i
    BY <1>3
  <2>2. \A k \in 1..i : tree[k].parent = 0 /\ k # i /\ k # b =>
          tree[i].weight <= tree[k].weight /\ tree[b].weight <= tree[k].weight
    <3> SUFFICES ASSUME NEW k \in 1..(i - 1), tree[k].parent = 0, k # b
                 PROVE  tree[i].weight <= tree[k].weight /\ tree[b].weight <= tree[k].weight
      BY <1>4
    <3>1. k # a => tree[a].weight <= tree[k].weight /\ tree[b].weight <= tree[k].weight
      BY <1>3
    <3>2. tree[k].weight \in Nat /\ tree[i].weight \in Nat
      BY <1>6
    <3>3. tree[i].weight < tree[a].weight /\ tree[a].weight \in Nat /\ tree[b].weight \in Nat
      BY <1>6, <1>8
    <3>4. CASE k = a
      <4>1. tree[b].weight <= tree[a].weight
        BY <1>6, <1>8, <1>22
      <4> QED
        BY <1>22, <3>3, <3>2, <3>4, <4>1
    <3>5. CASE k # a
      BY <1>21, <3>1, <3>2, <3>3, <3>5
    <3> QED
      BY <3>4, <3>5
  <2>3. Lighter(tree, s, i) = <<i, b>>
    BY <1>2, <1>8
  <2>4. i # b /\ tree[i].parent = 0 /\ tree[b].parent = 0
    BY <1>3, <1>8, <2>1
  <2>5. <<i, b>> \in (1..L) \X (1..L) /\ IsPicked(tree, <<i, b>>, i)
    BY <1>5, <2>1, <2>2, <2>4
  <2> QED
    BY <2>3, <2>5
<1>9. CASE Lighter(tree, s, i) = <<a, b>>
  <2>1. \/ tree[i].parent # 0
        \/ tree[a].weight <= tree[i].weight /\ tree[b].weight <= tree[i].weight
        \/ tree[b].weight > tree[a].weight /\ tree[i].parent = 0 /\ tree[i].weight < tree[b].weight
        \/ ~(tree[b].weight > tree[a].weight) /\ tree[i].parent = 0 /\ tree[i].weight < tree[a].weight
    BY <1>4, <1>6
  <2>2. CASE tree[i].parent = 0 => /\ tree[a].weight <= tree[i].weight
                                   /\ tree[b].weight <= tree[i].weight
    <3>1. a \in 1..i /\ b \in 1..i /\ a # b /\ tree[a].parent = 0 /\ tree[b].parent = 0
      BY <1>3
    <3>2. \A k \in 1..i : tree[k].parent = 0 /\ k # a /\ k # b =>
            tree[a].weight <= tree[k].weight /\ tree[b].weight <= tree[k].weight
      BY <1>3, <1>4, <2>2
    <3>3. <<a, b>> \in (1..L) \X (1..L) /\ IsPicked(tree, <<a, b>>, i)
      BY <1>5, <3>1, <3>2
    <3> QED
      BY <1>9, <3>3
  <2> QED
    BY <1>7, <1>8, <2>1, <2>2
<1> QED
  BY <1>2, <1>7, <1>8, <1>9

\* select finds two nodes without parent that no third one is lighter than.
LEMMA SelectPicks ==
  ASSUME NEW tree, NEW L \in Nat, Len(tree) = L, DOMAIN tree = 1..L,
         \A k \in 1..L : tree[k].weight \in Nat,
         \E x, y \in 1..L : x # y /\ tree[x].parent = 0 /\ tree[y].parent = 0
  PROVE  select(tree) \in (1..L) \X (1..L) /\ IsPicked(tree, select(tree), L)
<1> DEFINE first == Min({i \in DOMAIN tree : tree[i].parent = 0})
           second == Min({i \in DOMAIN tree : tree[i].parent = 0 /\ i > first})
           Picked(p) == p = [i \in second..Len(tree) |->
             IF i = second THEN <<first, second>> ELSE Lighter(tree, p[i - 1], i)]
           V == (1..L) \X (1..L)
<1>1. /\ first \in 1..L /\ tree[first].parent = 0
      /\ \A k \in 1..L : tree[k].parent = 0 => first <= k
  <2> DEFINE S == {i \in DOMAIN tree : tree[i].parent = 0}
  <2>1. S \in SUBSET Nat /\ S # {}
    OBVIOUS
  <2>2. Min(S) \in S /\ \A y \in S : Min(S) <= y
    BY <2>1, MinOfNaturals
  <2> QED
    BY <2>2
<1> HIDE DEF first
<1>2. /\ second \in 1..L /\ tree[second].parent = 0 /\ second > first
      /\ \A k \in 1..L : tree[k].parent = 0 /\ k > first => second <= k
  <2> DEFINE S == {i \in DOMAIN tree : tree[i].parent = 0 /\ i > first}
  <2>1. S \in SUBSET Nat /\ S # {}
    BY <1>1
  <2>2. Min(S) \in S /\ \A y \in S : Min(S) <= y
    BY <2>1, MinOfNaturals
  <2> QED
    BY <2>2
<1> HIDE DEF second
<1> DEFINE n == L - second
           step == [j \in 1..n |-> [v \in V |->
             IF Lighter(tree, v, second + j) \in V THEN Lighter(tree, v, second + j) ELSE v]]
<1>3. n \in Nat /\ <<first, second>> \in V /\ second \in Nat
  BY <1>1, <1>2
<1>4. step \in [1..n -> [V -> V]]
  <2> HIDE DEF V, n
  <2> QED
    OBVIOUS
<1>5. PICK f : IsRecursion(f, V, <<first, second>>, n, step)
  <2> HIDE DEF V, n, step
  <2> QED
    BY <1>3, <1>4, RecursionExists
<1>6. IsPicked(tree, <<first, second>>, second)
  BY <1>1, <1>2, <1>3 DEF IsPicked
<1> DEFINE P == {j \in 0..n : f[j] \in V /\ IsPicked(tree, f[j], second + j)
                               /\ (j > 0 => f[j] = Lighter(tree, f[j - 1], second + j))}
<1>7. 0 \in P
  <2>1. f[0] = <<first, second>> /\ second + 0 = second
    BY <1>3, <1>5 DEF IsRecursion
  <2> HIDE DEF V, n
  <2> QED
    BY <1>3, <1>6, <2>1
<1>8. ASSUME NEW j \in 0..(n - 1), j \in P PROVE j + 1 \in P
  <2>1. /\ j + 1 \in 1..n /\ j + 1 \in 0..n /\ (j + 1) - 1 = j /\ j + 1 > 0
        /\ second + (j + 1) \in 2..L /\ (second + (j + 1)) - 1 = second + j
    BY <1>2, <1>3
  <2>2. f[j] \in V /\ IsPicked(tree, f[j], second + j)
    BY <1>8
  <2>3. Lighter(tree, f[j], second + (j + 1)) \in V
        /\ IsPicked(tree, Lighter(tree, f[j], second + (j + 1)), second + (j + 1))
    <3> HIDE DEF n
    <3> QED
      BY <2>1, <2>2, LighterPicks
  <2>4. f[j + 1] = step[j + 1][f[j]]
    <3> HIDE DEF step, n, V
    <3> QED
      BY <1>5, <2>1 DEF IsRecursion
  <2> HIDE DEF V, n
  <2>5. f[j + 1] = Lighter(tree, f[j], second + (j + 1))
    BY <2>1, <2>2, <2>3, <2>4
  <2> QED
    BY <2>1, <2>3, <2>5
<1>9. \A j \in 0..n : j \in P
  <2> HIDE DEF P, n
  <2> QED
    BY <1>3, <1>7, <1>8, Induction
<1> DEFINE g == [i \in second..L |-> f[i - second]]
<1>10. Picked(g)
  <2>1. ASSUME NEW i \in second..L
        PROVE  g[i] = IF i = second THEN <<first, second>> ELSE Lighter(tree, g[i - 1], i)
    <3>1. CASE i = second
      <4>1. g[i] = f[0] /\ f[0] = <<first, second>>
        BY <1>3, <1>5, <3>1 DEF IsRecursion
      <4> QED
        BY <3>1, <4>1
    <3>2. CASE i # second
      <4> DEFINE j == i - second
      <4>1. j \in 0..n /\ j > 0 /\ second + j = i /\ i - 1 \in second..L /\ (i - 1) - second = j - 1
        BY <1>3, <3>2
      <4>2. g[i] = f[j] /\ g[i - 1] = f[j - 1]
        BY <4>1
      <4> HIDE DEF j, n
      <4>3. f[j] = Lighter(tree, f[j - 1], second + j)
        BY <1>9, <4>1
      <4> QED
        BY <3>2, <4>1, <4>2, <4>3
    <3> QED
      BY <3>1, <3>2
  <2> HIDE DEF first, second
  <2>2. g = [i \in second..L |-> g[i]]
    OBVIOUS
  <2> HIDE DEF g
  <2> QED
    BY <2>1, <2>2
<1> HIDE DEF g
<1> DEFINE p == CHOOSE q : Picked(q)
<1>11. Picked(p)
  <2> HIDE DEF Picked
  <2> QED
    BY <1>10
<1>12. select(tree) = p[L]
  BY DEF select, first, second
<1> HIDE DEF p
<1> DEFINE Q == {j \in 0..n : p[second + j] = f[j]}
<1>13. 0 \in Q
  <2>1. second + 0 \in second..L /\ second + 0 = second /\ f[0] = <<first, second>>
    BY <1>2, <1>3, <1>5 DEF IsRecursion
  <2> QED
    BY <1>3, <1>11, <2>1
<1>14. ASSUME NEW j \in 0..(n - 1), j \in Q PROVE j + 1 \in Q
  <2>1. /\ j + 1 \in 0..n /\ (j + 1) - 1 = j /\ j + 1 > 0
        /\ second + (j + 1) \in second..L /\ (second + (j + 1)) - 1 = second + j
        /\ second + (j + 1) # second
    BY <1>3
  <2>2. p[second + (j + 1)] = Lighter(tree, p[second + j], second + (j + 1))
    BY <1>11, <2>1
  <2>3. f[j + 1] = Lighter(tree, f[j], second + (j + 1))
    BY <1>9, <2>1
  <2> QED
    BY <1>14, <2>1, <2>2, <2>3
<1>15. n \in Q /\ n \in P
  <2>1. n \in 0..n
    BY <1>3
  <2> HIDE DEF P, Q, n
  <2> QED
    BY <1>3, <1>9, <1>13, <1>14, <2>1, Induction
<1>16. second + n = L
  BY <1>3
<1> QED
  BY <1>12, <1>15, <1>16

\* A node that is given another parent.
LEMMA WithParent ==
  ASSUME NEW n, NEW p, IsTreeNode(n)
  PROVE  LET m == [n EXCEPT !.parent = p] IN
         /\ IsTreeNode(m) /\ m.id = n.id /\ m.weight = n.weight
         /\ m.parent = p /\ m.lchild = n.lchild /\ m.rchild = n.rchild
<1>1. n = [id |-> n.id, weight |-> n.weight, parent |-> n.parent,
           lchild |-> n.lchild, rchild |-> n.rchild]
  BY DEF IsTreeNode
<1> DEFINE m == [n EXCEPT !.parent = p]
<1>2. m = [id |-> n.id, weight |-> n.weight, parent |-> p,
           lchild |-> n.lchild, rchild |-> n.rchild]
  BY <1>1
<1> HIDE DEF m
<1> QED
  BY <1>2 DEF IsTreeNode, m

\* A node is as before, up to its parent, which is q for the node at place p.
IsMoved(m, n, k, p, q) ==
  /\ IsTreeNode(m) /\ m.id = n.id /\ m.weight = n.weight
  /\ m.lchild = n.lchild /\ m.rchild = n.rchild
  /\ m.parent = IF k = p THEN q ELSE n.parent

LEMMA MoveOne ==
  ASSUME NEW tree, NEW L \in Nat, DOMAIN tree = 1..L, \A k \in 1..L : IsTreeNode(tree[k]),
         NEW p, NEW q
  PROVE  /\ DOMAIN [tree EXCEPT ![p].parent = q] = 1..L
         /\ \A k \in 1..L : IsMoved([tree EXCEPT ![p].parent = q][k], tree[k], k, p, q)
<1> DEFINE one == [tree EXCEPT ![p].parent = q]
<1>1. DOMAIN one = 1..L
  OBVIOUS
<1>2. ASSUME NEW k \in 1..L PROVE IsMoved(one[k], tree[k], k, p, q)
  <2> DEFINE n == tree[k]
             m == [n EXCEPT !.parent = q]
  <2>1. one[k] = IF k = p THEN m ELSE n
    OBVIOUS
  <2>2. IsTreeNode(n)
    OBVIOUS
  <2> HIDE DEF n, one
  <2>3. /\ IsTreeNode(m) /\ m.id = n.id /\ m.weight = n.weight
        /\ m.parent = q /\ m.lchild = n.lchild /\ m.rchild = n.rchild
    BY <2>2, WithParent
  <2> HIDE DEF m
  <2> QED
    BY <2>1, <2>2, <2>3 DEF IsMoved, n
<1> QED
  BY <1>1, <1>2

\* A turn of HuffmanTree makes the selected nodes the children of a new one and
\* leaves the rest of the nodes alone.
IsMerged(t, tree, L, s) ==
  /\ Len(t) = L + 1 /\ t = [k \in 1..(L + 1) |-> t[k]]
  /\ \A k \in 1..(L + 1) : IsTreeNode(t[k])
  /\ \A k \in 1..L :
       /\ t[k].id = tree[k].id /\ t[k].weight = tree[k].weight
       /\ t[k].lchild = tree[k].lchild /\ t[k].rchild = tree[k].rchild
       /\ t[k].parent = IF k = s[1] \/ k = s[2] THEN L + 1 ELSE tree[k].parent
  /\ t[L + 1] = [id |-> 0, weight |-> tree[s[1]].weight + tree[s[2]].weight,
                 parent |-> 0, lchild |-> s[1], rchild |-> s[2]]
LEMMA MergeIs ==
  ASSUME NEW tree, NEW L \in Nat, Len(tree) = L, DOMAIN tree = 1..L,
         \A k \in 1..L : IsTreeNode(tree[k])
  PROVE  IsMerged(Merge(tree), tree, L, select(tree))
<1> DEFINE s == select(tree)
           i == L + 1
           one == [tree EXCEPT ![s[1]].parent = i]
           both == [one EXCEPT ![s[2]].parent = i]
           new == [id |-> 0, weight |-> tree[s[1]].weight + tree[s[2]].weight,
                   parent |-> 0, lchild |-> s[1], rchild |-> s[2]]
           t == Append(both, new)
<1>1. Merge(tree) = t
  BY DEF Merge
<1> HIDE DEF s
<1>2. DOMAIN one = 1..L /\ \A k \in 1..L : IsMoved(one[k], tree[k], k, s[1], i)
  BY MoveOne
<1> HIDE DEF one
<1>3. DOMAIN both = 1..L /\ \A k \in 1..L : IsMoved(both[k], one[k], k, s[2], i)
  <2>1. \A k \in 1..L : IsTreeNode(one[k])
    BY <1>2 DEF IsMoved
  <2>2. DOMAIN one = 1..L
    BY <1>2
  <2> DEFINE p == s[2]
             moved == [one EXCEPT ![p].parent = i]
  <2> HIDE DEF i, p
  <2>3. DOMAIN moved = 1..L /\ \A k \in 1..L : IsMoved(moved[k], one[k], k, p, i)
    BY <2>1, <2>2, MoveOne
  <2> QED
    BY <2>3 DEF p
<1>4. both = [k \in 1..L |-> both[k]]
  <2> HIDE DEF i
  <2> QED
    BY <1>3
<1>5. IsTreeNode(new)
  BY DEF IsTreeNode
<1> HIDE DEF both, new
<1>6. /\ Len(t) = L + 1 /\ t = [k \in 1..(L + 1) |-> t[k]]
      /\ \A k \in 1..L : t[k] = both[k]
      /\ t[L + 1] = new
  <2> DEFINE X == {both[k] : k \in 1..L} \cup {new}
  <2>1. both \in [1..L -> X] /\ new \in X
    BY <1>4
  <2> HIDE DEF X
  <2>2. both \in Seq(X) /\ Len(both) = L
    BY <2>1
  <2>3. t \in Seq(X) /\ Len(t) = L + 1
    BY <2>1, <2>2
  <2>4. \A k \in 1..L : t[k] = both[k]
    BY <2>2
  <2>5. t[L + 1] = new
    BY <2>2
  <2> HIDE DEF t
  <2>6. t = [k \in 1..(L + 1) |-> t[k]]
    BY <2>3
  <2> QED
    BY <2>3, <2>4, <2>5, <2>6
<1> HIDE DEF t
<1>7. ASSUME NEW k \in 1..L
      PROVE  /\ IsTreeNode(t[k]) /\ t[k].id = tree[k].id /\ t[k].weight = tree[k].weight
             /\ t[k].lchild = tree[k].lchild /\ t[k].rchild = tree[k].rchild
             /\ t[k].parent = IF k = s[1] \/ k = s[2] THEN L + 1 ELSE tree[k].parent
  <2>1. IsMoved(one[k], tree[k], k, s[1], i) /\ IsMoved(t[k], one[k], k, s[2], i)
    BY <1>2, <1>3, <1>6
  <2> QED
    BY <2>1 DEF IsMoved
<1>8. \A k \in 1..(L + 1) : IsTreeNode(t[k])
  <2>1. \A k \in 1..(L + 1) : k \in 1..L \/ k = L + 1
    OBVIOUS
  <2> QED
    BY <1>5, <1>6, <1>7, <2>1
<1>9. IsMerged(t, tree, L, s)
  BY <1>6, <1>7, <1>8 DEF IsMerged, new
<1> QED
  BY <1>1, <1>9 DEF s

\* A turn of HuffmanTree leaves the leaves at its beginning.
LEMMA MergeKeepsTree ==
  ASSUME NEW tree, NEW ids, IsTree(tree, ids), Cardinality(ids) \in Nat
  PROVE  IsTree(Merge(tree), ids)
<1> DEFINE L == Len(tree)
           n == Cardinality(ids)
           t == Merge(tree)
<1>1. /\ L \in Nat /\ tree = [k \in 1..L |-> tree[k]] /\ \A k \in 1..L : IsTreeNode(tree[k])
      /\ n <= L /\ \A k \in 1..n : tree[k].id = Ascending(ids)[k] /\ tree[k].lchild = 0
  BY DEF IsTree
<1>2. DOMAIN tree = 1..L
  BY <1>1
<1>3. IsMerged(t, tree, L, select(tree))
  BY <1>1, <1>2, MergeIs
<1> HIDE DEF L, n, t
<1>4. /\ Len(t) = L + 1 /\ t = [k \in 1..(L + 1) |-> t[k]]
      /\ \A k \in 1..(L + 1) : IsTreeNode(t[k])
      /\ \A k \in 1..L : t[k].id = tree[k].id /\ t[k].lchild = tree[k].lchild
  BY <1>3 DEF IsMerged
<1>5. n <= L + 1 /\ L + 1 \in Nat /\ \A k \in 1..n : k \in 1..L
  BY <1>1 DEF n
<1>6. \A k \in 1..n : t[k].id = Ascending(ids)[k] /\ t[k].lchild = 0
  BY <1>1, <1>4, <1>5
<1> QED
  BY <1>4, <1>5, <1>6 DEF IsTree, n, t

\* Every leaf gets a code.
LEMMA CodesOfLeaves ==
  ASSUME NEW tree, NEW ids \in SUBSET Nat, IsFiniteSet(ids), IsTree(tree, ids),
         NEW x \in ids
  PROVE  LET c == Codes(tree, Cardinality({k \in DOMAIN tree : tree[k].lchild = 0}))
         IN \E k \in DOMAIN c : c[k].info = x
<1> DEFINE L == Len(tree)
           n == Cardinality(ids)
           leaves == {k \in DOMAIN tree : tree[k].lchild = 0}
           size == Cardinality(leaves)
           c == Codes(tree, size)
<1>1. n \in Nat
  BY FS_CardinalityType
<1>2. /\ L \in Nat /\ DOMAIN tree = 1..L /\ n <= L
      /\ \A k \in 1..n : tree[k].id = Ascending(ids)[k] /\ tree[k].lchild = 0
  <2>1. L \in Nat /\ n <= L /\ tree = [k \in 1..L |-> tree[k]]
    BY DEF IsTree
  <2>2. \A k \in 1..n : tree[k].id = Ascending(ids)[k] /\ tree[k].lchild = 0
    BY DEF IsTree
  <2>3. DOMAIN tree = 1..L
    BY <2>1
  <2> QED
    BY <2>1, <2>2, <2>3
<1>3. size \in Nat /\ n <= size
  <2> HIDE DEF n, L
  <2>1. IsFiniteSet(1..L) /\ leaves \subseteq 1..L
    BY <1>2, FS_Interval
  <2>2. IsFiniteSet(leaves)
    BY <2>1, FS_Subset
  <2>3. 1..n \subseteq leaves
    BY <1>1, <1>2
  <2>4. Cardinality(1..n) = n
    BY <1>1, FS_Interval
  <2> HIDE DEF leaves
  <2>5. Cardinality(1..n) <= Cardinality(leaves) /\ Cardinality(leaves) \in Nat
    BY <2>2, <2>3, FS_Subset, FS_CardinalityType
  <2> QED
    BY <2>4, <2>5
<1>4. \E f : c = [k \in 1..size |-> [info |-> tree[k].id, vector |-> f[k]]]
  BY DEF Codes
<1>5. PICK k \in 1..n : Ascending(ids)[k] = x
  <2>1. Position(ids, x) \in 1..Len(Ascending(ids)) /\ Ascending(ids)[Position(ids, x)] = x
    BY AscendingList
  <2>2. Len(Ascending(ids)) = n
    BY AscendingList
  <2> QED
    BY <2>1, <2>2
<1> HIDE DEF n, size, c
<1>6. k \in 1..size /\ tree[k].id = x
  BY <1>1, <1>2, <1>3, <1>5
<1>7. DOMAIN c = 1..size /\ c[k].info = x
  BY <1>4, <1>6
<1> QED
  BY <1>6, <1>7 DEF c, size

\* The values of a list are finitely many.
LEMMA SetIsFinite ==
  ASSUME NEW X, NEW s \in Seq(X)
  PROVE  ToSet(s) \in SUBSET X /\ IsFiniteSet(ToSet(s))
<1>1. Len(s) \in Nat /\ DOMAIN s = 1..Len(s) /\ \A k \in 1..Len(s) : s[k] \in X
  OBVIOUS
<1>2. ToSet(s) \in SUBSET X
  BY <1>1 DEF ToSet
<1> DEFINE f == [k \in 1..Len(s) |-> s[k]]
<1>3. f \in Surjection(1..Len(s), ToSet(s))
  BY <1>1 DEF ToSet, Surjection
<1>4. IsFiniteSet(1..Len(s))
  BY <1>1, FS_Interval
<1> QED
  BY <1>2, <1>3, <1>4, FS_Surjection

\* How often each value of a list comes is a number.
LEMMA BagIsCounts ==
  ASSUME NEW X, NEW s \in Seq(X)
  PROVE  ToBag(s) \in [ToSet(s) -> Nat]
<1>1. DOMAIN s = 1..Len(s) /\ Len(s) \in Nat
  OBVIOUS
<1>2. \A x \in Range(s) : Cardinality({i \in DOMAIN s : s[i] = x}) \in Nat
  <2> SUFFICES ASSUME NEW x PROVE Cardinality({i \in DOMAIN s : s[i] = x}) \in Nat
    OBVIOUS
  <2> DEFINE at == {i \in DOMAIN s : s[i] = x}
  <2>1. at \subseteq 1..Len(s) /\ IsFiniteSet(1..Len(s))
    BY <1>1, FS_Interval
  <2> HIDE DEF at
  <2>2. IsFiniteSet(at) /\ Cardinality(at) \in Nat
    BY <2>1, FS_Subset, FS_CardinalityType
  <2> QED
    BY <2>2 DEF at
<1>3. Range(s) = ToSet(s)
  BY DEF Range, ToSet
<1> QED
  BY <1>2, <1>3 DEF ToBag

-------------------------------------------------------------------------------
(* The codes. *)

\* A tree under construction over n leaves: each turn has taken two nodes and added
\* one, above them and with their weight; nodes were taken in the order of their
\* weights, and those that were taken are not heavier than those that were not.
IsBuilt(t, n) ==
  LET L == Len(t) IN
  /\ n <= L
  /\ Cardinality({k \in 1..L : t[k].parent = 0}) = 2 * n - L
  /\ \A k \in 1..L :
       /\ t[k].weight \in Nat
       /\ t[k].parent # 0 =>
            /\ t[k].parent \in (k + 1)..L /\ t[k].parent > n
            /\ k \in {t[t[k].parent].lchild, t[t[k].parent].rchild}
       /\ k <= n => t[k].lchild = 0
       /\ k > n => /\ t[k].lchild \in 1..(k - 1) /\ t[k].rchild \in 1..(k - 1)
                   /\ t[t[k].lchild].parent = k /\ t[t[k].rchild].parent = k
                   /\ t[k].weight = t[t[k].lchild].weight + t[t[k].rchild].weight
  /\ \A i, j \in 1..L :
       /\ t[i].parent # 0 /\ t[j].parent = 0 => t[i].weight <= t[j].weight
       /\ t[i].parent # 0 /\ t[j].weight < t[i].weight =>
            t[j].parent # 0 /\ t[j].parent <= t[i].parent

LEMMA LeavesBuilt ==
  ASSUME NEW ids \in SUBSET Nat, IsFiniteSet(ids), NEW weights \in [ids -> Nat]
  PROVE  IsBuilt(Leaves(weights), Cardinality(ids))
<1> DEFINE n == Cardinality(ids)
           a == Ascending(ids)
           t == Leaves(weights)
<1>1. n \in Nat /\ DOMAIN a = 1..n
  BY FS_CardinalityType DEF Ascending
<1>2. \A k \in 1..n : a[k] \in ids
  BY AscendingList
<1>3. DOMAIN weights = ids /\ \A x \in ids : weights[x] \in Nat
  OBVIOUS
<1>4. t = [k \in 1..n |-> [id |-> a[k], weight |-> weights[a[k]], parent |-> 0,
                           lchild |-> 0, rchild |-> 0]]
  BY <1>1, <1>3 DEF Leaves
<1> HIDE DEF n, a, t
<1>5. \A k \in 1..n : t[k].parent = 0 /\ t[k].lchild = 0 /\ t[k].weight \in Nat
  BY <1>2, <1>3, <1>4
<1>6. DOMAIN t = 1..n
  BY <1>4
<1>7. Len(t) = n
  BY <1>1, <1>6
<1>8. {k \in 1..n : t[k].parent = 0} = 1..n /\ Cardinality(1..n) = n
  <2>1. {k \in 1..n : t[k].parent = 0} = 1..n
    BY <1>5
  <2>2. Cardinality(1..n) = n
    BY <1>1, FS_Interval
  <2> QED
    BY <2>1, <2>2
<1>9. Cardinality({k \in 1..n : t[k].parent = 0}) = 2 * n - n
  <2>1. 2 * n - n = n
    BY <1>1
  <2> QED
    BY <1>8, <2>1
<1> QED
  BY <1>1, <1>5, <1>7, <1>9 DEF IsBuilt, n, t

\* A set of two numbers or more has two.
LEMMA TwoOf ==
  ASSUME NEW S, IsFiniteSet(S), Cardinality(S) >= 2
  PROVE  \E x, y \in S : x # y
<1>1. Cardinality(S) \in Nat
  BY FS_CardinalityType
<1>2. S # {}
  BY <1>1, FS_EmptySet
<1>3. PICK x \in S : TRUE
  BY <1>2
<1>4. IsFiniteSet(S \ {x}) /\ Cardinality(S \ {x}) = Cardinality(S) - 1
  BY FS_RemoveElement
<1>5. S \ {x} # {}
  BY <1>1, <1>4, FS_EmptySet
<1> QED
  BY <1>5

LEMMA MergeBuilt ==
  ASSUME NEW tree, NEW ids, IsTree(tree, ids), NEW n \in Nat, n = Cardinality(ids),
         IsBuilt(tree, n), Len(tree) < 2 * n - 1
  PROVE  IsBuilt(Merge(tree), n)
<1> DEFINE L == Len(tree)
           s == select(tree)
           t == Merge(tree)
           free == {k \in 1..L : tree[k].parent = 0}
           a == s[1]
           b == s[2]
<1>1. L \in Nat /\ tree = [k \in 1..L |-> tree[k]] /\ \A k \in 1..L : IsTreeNode(tree[k])
  BY DEF IsTree
<1>2. DOMAIN tree = 1..L
  BY <1>1
<1>3. /\ n <= L /\ Cardinality(free) = 2 * n - L
      /\ \A k \in 1..L : tree[k].weight \in Nat
  BY DEF IsBuilt
<1>4. IsFiniteSet(free)
  <2>1. free \subseteq 1..L /\ IsFiniteSet(1..L)
    BY <1>1, FS_Interval
  <2> HIDE DEF free
  <2> QED
    BY <2>1, FS_Subset
<1>5. \E x, y \in 1..L : x # y /\ tree[x].parent = 0 /\ tree[y].parent = 0
  <2>1. Cardinality(free) >= 2
    BY <1>1, <1>3
  <2>2. \E x, y \in free : x # y
    <3> HIDE DEF free
    <3> QED
      BY <1>4, <2>1, TwoOf
  <2> QED
    BY <2>2
<1>6. s \in (1..L) \X (1..L) /\ IsPicked(tree, s, L)
  <2> HIDE DEF L, s
  <2> QED
    BY <1>1, <1>2, <1>3, <1>5, SelectPicks DEF L, s
<1>7. IsMerged(t, tree, L, s)
  BY <1>1, <1>2, MergeIs
<1>8. /\ a \in 1..L /\ b \in 1..L /\ a # b
      /\ tree[a].parent = 0 /\ tree[b].parent = 0
      /\ \A k \in 1..L : tree[k].parent = 0 /\ k # a /\ k # b =>
           tree[a].weight <= tree[k].weight /\ tree[b].weight <= tree[k].weight
  BY <1>6 DEF IsPicked
<1>9. /\ Len(t) = L + 1
      /\ \A k \in 1..L :
           /\ t[k].weight = tree[k].weight
           /\ t[k].lchild = tree[k].lchild /\ t[k].rchild = tree[k].rchild
           /\ t[k].parent = IF k = a \/ k = b THEN L + 1 ELSE tree[k].parent
      /\ t[L + 1].weight = tree[a].weight + tree[b].weight
      /\ t[L + 1].parent = 0 /\ t[L + 1].lchild = a /\ t[L + 1].rchild = b
  <2> HIDE DEF L, s, t
  <2>1. t[L + 1] = [id |-> 0, weight |-> tree[a].weight + tree[b].weight,
                    parent |-> 0, lchild |-> a, rchild |-> b]
    BY <1>7 DEF IsMerged
  <2>2. /\ t[L + 1].weight = tree[a].weight + tree[b].weight
        /\ t[L + 1].parent = 0 /\ t[L + 1].lchild = a /\ t[L + 1].rchild = b
    BY <2>1
  <2>3. /\ Len(t) = L + 1
        /\ \A k \in 1..L :
             /\ t[k].weight = tree[k].weight
             /\ t[k].lchild = tree[k].lchild /\ t[k].rchild = tree[k].rchild
             /\ t[k].parent = IF k = a \/ k = b THEN L + 1 ELSE tree[k].parent
    BY <1>7 DEF IsMerged
  <2> QED
    BY <2>2, <2>3
<1>10. \A k \in 1..(L + 1) : k \in 1..L \/ k = L + 1
  BY <1>1
<1>11. \A k \in 1..L :
         /\ tree[k].weight \in Nat
         /\ tree[k].parent # 0 =>
              /\ tree[k].parent \in (k + 1)..L /\ tree[k].parent > n
              /\ k \in {tree[tree[k].parent].lchild, tree[tree[k].parent].rchild}
         /\ k <= n => tree[k].lchild = 0
         /\ k > n => /\ tree[k].lchild \in 1..(k - 1) /\ tree[k].rchild \in 1..(k - 1)
                     /\ tree[tree[k].lchild].parent = k /\ tree[tree[k].rchild].parent = k
                     /\ tree[k].weight = tree[tree[k].lchild].weight + tree[tree[k].rchild].weight
  BY DEF IsBuilt
<1>12. \A i, j \in 1..L :
         /\ tree[i].parent # 0 /\ tree[j].parent = 0 => tree[i].weight <= tree[j].weight
         /\ tree[i].parent # 0 /\ tree[j].weight < tree[i].weight =>
              tree[j].parent # 0 /\ tree[j].parent <= tree[i].parent
  BY DEF IsBuilt
<1> HIDE DEF L, s, t, a, b
<1>13. Cardinality({k \in 1..(L + 1) : t[k].parent = 0}) = 2 * n - (L + 1)
  <2> DEFINE left == (free \ {a}) \ {b}
  <2>1. {k \in 1..(L + 1) : t[k].parent = 0} = left \cup {L + 1}
    BY <1>1, <1>8, <1>9, <1>10
  <2>2. a \in free /\ b \in free \ {a} /\ L + 1 \notin left
    BY <1>1, <1>8
  <2> HIDE DEF free
  <2>3. IsFiniteSet(free \ {a}) /\ Cardinality(free \ {a}) = Cardinality(free) - 1
    BY <1>4, <2>2, FS_RemoveElement
  <2>4. IsFiniteSet(left) /\ Cardinality(left) = Cardinality(free \ {a}) - 1
    BY <2>2, <2>3, FS_RemoveElement
  <2> HIDE DEF left
  <2>5. Cardinality(left \cup {L + 1}) = Cardinality(left) + 1
    BY <2>2, <2>4, FS_AddElement
  <2> DEFINE x == Cardinality(left \cup {L + 1})
  <2>6. x = ((2 * n - L - 1) - 1) + 1
    BY <1>3, <2>3, <2>4, <2>5
  <2>7. ((2 * n - L - 1) - 1) + 1 = 2 * n - (L + 1)
    BY <1>1
  <2> QED
    BY <2>1, <2>6, <2>7
<1>14. ASSUME NEW k \in 1..(L + 1)
       PROVE  /\ t[k].weight \in Nat
              /\ t[k].parent # 0 =>
                   /\ t[k].parent \in (k + 1)..(L + 1) /\ t[k].parent > n
                   /\ k \in {t[t[k].parent].lchild, t[t[k].parent].rchild}
              /\ k <= n => t[k].lchild = 0
              /\ k > n => /\ t[k].lchild \in 1..(k - 1) /\ t[k].rchild \in 1..(k - 1)
                          /\ t[t[k].lchild].parent = k /\ t[t[k].rchild].parent = k
                          /\ t[k].weight = t[t[k].lchild].weight + t[t[k].rchild].weight
  <2>1. CASE k = L + 1
    <3>1. /\ t[k].weight \in Nat /\ t[k].parent = 0 /\ k > n
          /\ t[k].lchild = a /\ t[k].rchild = b /\ a \in 1..(k - 1) /\ b \in 1..(k - 1)
      <4>1. tree[a].weight \in Nat /\ tree[b].weight \in Nat
        BY <1>8, <1>11
      <4>2. L \in Nat /\ n <= L
        BY <1>1, <1>3
      <4>3. k > n /\ (k - 1) = L
        BY <2>1, <4>2
      <4>4. a \in 1..(k - 1) /\ b \in 1..(k - 1)
        BY <1>8, <4>3
      <4>5. t[k].weight = tree[a].weight + tree[b].weight
        BY <1>9, <2>1
      <4>6. tree[a].weight + tree[b].weight \in Nat
        <5>1. \A x, y \in Nat : x + y \in Nat
          OBVIOUS
        <5> QED
          BY <4>1, <5>1
      <4>7. t[k].parent = 0 /\ t[k].lchild = a /\ t[k].rchild = b
        BY <1>9, <2>1
      <4> QED
        BY <4>3, <4>4, <4>5, <4>6, <4>7
    <3>2. /\ t[a].parent = k /\ t[b].parent = k
          /\ t[a].weight = tree[a].weight /\ t[b].weight = tree[b].weight
      BY <1>8, <1>9, <2>1
    <3> QED
      BY <1>9, <2>1, <3>1, <3>2
  <2>2. CASE k \in 1..L
    <3>1. t[k].weight \in Nat /\ (k <= n => t[k].lchild = 0)
      BY <1>9, <1>11, <2>2
    <3>2. ASSUME t[k].parent # 0
          PROVE  /\ t[k].parent \in (k + 1)..(L + 1) /\ t[k].parent > n
                 /\ k \in {t[t[k].parent].lchild, t[t[k].parent].rchild}
      <4>1. CASE k = a \/ k = b
        <5>1. t[k].parent = L + 1
          BY <1>9, <2>2, <4>1
        <5>2. L + 1 \in (k + 1)..(L + 1) /\ L + 1 > n
          BY <1>1, <1>3, <2>2
        <5> QED
          BY <1>9, <4>1, <5>1, <5>2
      <4>2. CASE ~(k = a \/ k = b)
        <5>1. t[k].parent = tree[k].parent /\ tree[k].parent # 0
          BY <1>9, <2>2, <3>2, <4>2
        <5>2. /\ tree[k].parent \in (k + 1)..L /\ tree[k].parent > n
              /\ k \in {tree[tree[k].parent].lchild, tree[tree[k].parent].rchild}
          BY <1>11, <2>2, <5>1
        <5>3. tree[k].parent \in 1..L /\ tree[k].parent \in (k + 1)..(L + 1)
          BY <1>1, <5>2
        <5> DEFINE q == tree[k].parent
        <5> HIDE DEF q
        <5>4. t[q].lchild = tree[q].lchild /\ t[q].rchild = tree[q].rchild
          BY <1>9, <5>3 DEF q
        <5> QED
          BY <5>1, <5>2, <5>3, <5>4 DEF q
      <4> QED
        BY <4>1, <4>2
    <3>3. ASSUME k > n
          PROVE  /\ t[k].lchild \in 1..(k - 1) /\ t[k].rchild \in 1..(k - 1)
                 /\ t[t[k].lchild].parent = k /\ t[t[k].rchild].parent = k
                 /\ t[k].weight = t[t[k].lchild].weight + t[t[k].rchild].weight
      <4> DEFINE l == tree[k].lchild
                 r == tree[k].rchild
      <4>1. /\ l \in 1..(k - 1) /\ r \in 1..(k - 1) /\ tree[l].parent = k /\ tree[r].parent = k
            /\ tree[k].weight = tree[l].weight + tree[r].weight
        BY <1>11, <2>2, <3>3
      <4>2. t[k].lchild = l /\ t[k].rchild = r /\ t[k].weight = tree[k].weight
        BY <1>9, <2>2
      <4> HIDE DEF l, r
      <4>3. l \in 1..L /\ r \in 1..L /\ k # 0
        BY <1>1, <2>2, <4>1
      <4>4. l # a /\ l # b /\ r # a /\ r # b
        BY <1>8, <4>1, <4>3
      <4>5. /\ t[l].parent = k /\ t[r].parent = k
            /\ t[l].weight = tree[l].weight /\ t[r].weight = tree[r].weight
        BY <1>9, <4>1, <4>3, <4>4
      <4> QED
        BY <4>1, <4>2, <4>5
    <3> QED
      BY <3>1, <3>2, <3>3
  <2> QED
    BY <1>10, <2>1, <2>2
<1>15. ASSUME NEW i \in 1..(L + 1), NEW j \in 1..(L + 1), t[i].parent # 0
       PROVE  /\ t[j].parent = 0 => t[i].weight <= t[j].weight
              /\ t[j].weight < t[i].weight => t[j].parent # 0 /\ t[j].parent <= t[i].parent
  <2>1. i \in 1..L /\ t[i].weight = tree[i].weight /\ tree[i].weight \in Nat
    BY <1>9, <1>10, <1>11, <1>15
  <2>2. tree[a].weight \in Nat /\ tree[b].weight \in Nat
    BY <1>8, <1>11
  <2>3. tree[i].weight <= tree[a].weight \/ tree[i].weight <= tree[b].weight
    <3>1. CASE i = a \/ i = b
      BY <2>2, <3>1
    <3>2. CASE ~(i = a \/ i = b)
      <4>1. tree[i].parent # 0
        BY <1>9, <1>15, <2>1, <3>2
      <4> QED
        BY <1>8, <1>12, <2>1, <4>1
    <3> QED
      BY <3>1, <3>2
  <2>4. CASE j = L + 1
    <3>1. t[j].weight = tree[a].weight + tree[b].weight
      BY <1>9, <2>4
    <3>2. ASSUME NEW x \in Nat, NEW y \in Nat, NEW z \in Nat, z <= x \/ z <= y
          PROVE  z <= x + y /\ ~(x + y < z)
      BY <3>2
    <3>3. t[i].weight <= t[j].weight /\ ~(t[j].weight < t[i].weight)
      BY <2>1, <2>2, <2>3, <3>1, <3>2
    <3> QED
      BY <3>3
  <2>5. CASE j \in 1..L
    <3>1. t[j].weight = tree[j].weight /\ tree[j].weight \in Nat
      BY <1>9, <1>11, <2>5
    <3>2. CASE i = a \/ i = b
      <4>1. t[i].parent = L + 1
        BY <1>9, <2>1, <3>2
      <4>2. tree[j].parent = 0 /\ j # a /\ j # b => tree[i].weight <= tree[j].weight
        BY <1>8, <2>5, <3>2
      <4>3. tree[j].parent # 0 \/ j = a \/ j = b => t[j].parent # 0 /\ t[j].parent <= L + 1
        <5>1. tree[j].parent # 0 => tree[j].parent \in (j + 1)..L
          BY <1>11, <2>5
        <5> QED
          BY <1>1, <1>9, <2>5, <5>1
      <4> QED
        BY <2>1, <3>1, <4>1, <4>2, <4>3
    <3>3. CASE ~(i = a \/ i = b)
      <4>1. tree[i].parent # 0 /\ t[i].parent = tree[i].parent
        BY <1>9, <1>15, <2>1, <3>3
      <4>2. t[j].parent = 0 => tree[j].parent = 0
        BY <1>1, <1>9, <2>5
      <4>3. t[j].parent = 0 => t[i].weight <= t[j].weight
        BY <1>12, <2>1, <2>5, <3>1, <4>1, <4>2
      <4>4. ASSUME t[j].weight < t[i].weight
            PROVE  t[j].parent # 0 /\ t[j].parent <= t[i].parent
        <5>1. tree[j].parent # 0 /\ tree[j].parent <= tree[i].parent
          BY <1>12, <2>1, <2>5, <3>1, <4>1, <4>4
        <5>2. j # a /\ j # b
          BY <1>8, <5>1
        <5> QED
          BY <1>9, <2>5, <4>1, <5>1, <5>2
      <4> QED
        BY <4>3, <4>4
    <3> QED
      BY <3>2, <3>3
  <2> QED
    BY <1>10, <2>4, <2>5
<1>16. n <= L + 1
  BY <1>1, <1>3
<1>17. IsBuilt(t, n)
  BY <1>9, <1>13, <1>14, <1>15, <1>16 DEF IsBuilt
<1> QED
  BY <1>17 DEF t

\* The bit of a node below its parent, and the way from the root to each node.
BitOf(tree, i) == IF tree[tree[i].parent].lchild = i THEN 0 ELSE 1
IsPath(p, tree, L) ==
  /\ p \in [1..L -> Seq({0, 1})]
  /\ \A i \in 1..L :
       p[i] = IF tree[i].parent = 0 THEN <<>> ELSE Append(p[tree[i].parent], BitOf(tree, i))

\* The ways are defined when parents come behind their children.
LEMMA PathExists ==
  ASSUME NEW tree, NEW L \in Nat,
         \A k \in 1..L : tree[k].parent # 0 => tree[k].parent \in (k + 1)..L
  PROVE  \E p : IsPath(p, tree, L)
<1> DEFINE W == Seq({0, 1})
           V == [1..L -> W]
           Longer(v) == [i \in 1..L |-> IF tree[i].parent = 0 THEN <<>>
                                        ELSE Append(v[tree[i].parent], BitOf(tree, i))]
           base == [i \in 1..L |-> <<>>]
           step == [j \in 1..L |-> [v \in V |-> Longer(v)]]
<1>1. ASSUME NEW v \in V PROVE Longer(v) \in V
  <2>1. ASSUME NEW i \in 1..L, tree[i].parent # 0
        PROVE  Append(v[tree[i].parent], BitOf(tree, i)) \in W
    <3>1. tree[i].parent \in 1..L
      BY <2>1
    <3>2. v[tree[i].parent] \in W /\ BitOf(tree, i) \in {0, 1}
      BY <3>1 DEF BitOf
    <3> QED
      BY <3>2
  <2>2. <<>> \in W
    OBVIOUS
  <2> HIDE DEF W
  <2> QED
    BY <2>1, <2>2
<1>2. base \in V
  OBVIOUS
<1>3. step \in [1..L -> [V -> V]]
  <2> HIDE DEF V, Longer
  <2> QED
    BY <1>1
<1>4. PICK f : IsRecursion(f, V, base, L, step)
  <2> HIDE DEF V, base, step
  <2> QED
    BY <1>2, <1>3, RecursionExists
<1>5. /\ \A j \in 0..L : f[j] \in V
      /\ f[0] = base
      /\ \A j \in 1..L : f[j] = Longer(f[j - 1])
  <2>1. f \in [0..L -> V] /\ f[0] = base /\ \A j \in 1..L : f[j] = step[j][f[j - 1]]
    BY <1>4 DEF IsRecursion
  <2> HIDE DEF V, Longer, base
  <2>2. \A j \in 1..L : j - 1 \in 0..L
    OBVIOUS
  <2> QED
    BY <2>1, <2>2
<1> DEFINE P == {j \in 0..L : \A i \in 1..L : i >= L - j => Longer(f[j])[i] = f[j][i]}
<1>6. 0 \in P
  <2> SUFFICES ASSUME NEW i \in 1..L, i >= L - 0 PROVE Longer(f[0])[i] = f[0][i]
    OBVIOUS
  <2>1. i = L
    OBVIOUS
  <2>2. tree[i].parent = 0
    BY <2>1
  <2> QED
    BY <1>5, <2>2
<1>7. ASSUME NEW j \in 0..(L - 1), j \in P PROVE j + 1 \in P
  <2>1. j + 1 \in 1..L /\ j + 1 \in 0..L /\ (j + 1) - 1 = j
    OBVIOUS
  <2>2. f[j + 1] = Longer(f[j])
    <3> HIDE DEF Longer
    <3> QED
      BY <1>5, <2>1
  <2>3. ASSUME NEW i \in 1..L, i >= L - (j + 1) PROVE Longer(f[j + 1])[i] = f[j + 1][i]
    <3> DEFINE q == tree[i].parent
    <3>1. CASE q = 0
      <4>1. Longer(f[j + 1])[i] = <<>> /\ Longer(f[j])[i] = <<>>
        BY <3>1
      <4> QED
        BY <2>2, <4>1
    <3>2. CASE q # 0
      <4>1. q \in 1..L /\ q >= L - j
        BY <2>3, <3>2
      <4>2. f[j + 1][q] = f[j][q]
        <5> HIDE DEF Longer, q
        <5> QED
          BY <1>7, <2>2, <4>1
      <4>3. /\ Longer(f[j + 1])[i] = Append(f[j + 1][q], BitOf(tree, i))
            /\ Longer(f[j])[i] = Append(f[j][q], BitOf(tree, i))
        BY <3>2
      <4> HIDE DEF Longer, q
      <4> QED
        BY <2>2, <4>2, <4>3
    <3> QED
      BY <3>1, <3>2
  <2> HIDE DEF Longer
  <2> QED
    BY <2>1, <2>3
<1>8. L \in P
  <2>1. L \in 0..L
    OBVIOUS
  <2> HIDE DEF P
  <2> QED
    BY <1>6, <1>7, <2>1, Induction
<1>9. ASSUME NEW i \in 1..L
      PROVE  f[L][i] = IF tree[i].parent = 0 THEN <<>>
                       ELSE Append(f[L][tree[i].parent], BitOf(tree, i))
  <2>1. Longer(f[L])[i] = f[L][i]
    <3> HIDE DEF Longer
    <3> QED
      BY <1>8
  <2> QED
    BY <2>1
<1>10. f[L] \in [1..L -> Seq({0, 1})]
  <2> HIDE DEF Longer, base
  <2> QED
    BY <1>5
<1> QED
  BY <1>9, <1>10 DEF IsPath

\* Codes gives each leaf the way to it.
IsCodes(c, tree, n, p) == c = [k \in 1..n |-> [info |-> tree[k].id, vector |-> p[k]]]
LEMMA CodesAre ==
  ASSUME NEW tree, NEW L \in Nat, DOMAIN tree = 1..L, NEW n \in Nat, n <= L,
         \A k \in 1..L : tree[k].parent # 0 => tree[k].parent \in (k + 1)..L
  PROVE  \E p : IsPath(p, tree, L) /\ IsCodes(Codes(tree, n), tree, n, p)
<1> DEFINE IsTable(p) == p = [i \in 1..L |->
             IF tree[i].parent = 0 THEN <<>>
             ELSE Append(p[tree[i].parent], IF tree[tree[i].parent].lchild = i THEN 0 ELSE 1)]
           path == CHOOSE p : IsTable(p)
<1>1. Codes(tree, n) = [k \in 1..n |-> [info |-> tree[k].id, vector |-> path[k]]]
  BY DEF Codes
<1>2. PICK p : IsPath(p, tree, L)
  BY PathExists
<1>3. IsTable(p)
  <2>1. p = [i \in 1..L |-> p[i]]
    BY <1>2 DEF IsPath
  <2>2. \A i \in 1..L : p[i] =
          IF tree[i].parent = 0 THEN <<>>
          ELSE Append(p[tree[i].parent], IF tree[tree[i].parent].lchild = i THEN 0 ELSE 1)
    BY <1>2 DEF IsPath, BitOf
  <2> QED
    BY <2>1, <2>2
<1>4. IsTable(path)
  <2> HIDE DEF IsTable
  <2> QED
    BY <1>3
<1> HIDE DEF path
<1>5. \A i \in 1..L : path[i] = IF tree[i].parent = 0 THEN <<>>
                                ELSE Append(path[tree[i].parent], BitOf(tree, i))
  BY <1>4 DEF BitOf
<1>6. DOMAIN path = 1..L
  BY <1>4
<1> DEFINE P == {j \in 0..L : \A i \in 1..L : i > L - j => path[i] = p[i]}
<1>7. 0 \in P
  OBVIOUS
<1>8. ASSUME NEW j \in 0..(L - 1), j \in P PROVE j + 1 \in P
  <2>1. ASSUME NEW i \in 1..L, i > L - (j + 1) PROVE path[i] = p[i]
    <3>1. p[i] = IF tree[i].parent = 0 THEN <<>> ELSE Append(p[tree[i].parent], BitOf(tree, i))
      BY <1>2 DEF IsPath
    <3>2. tree[i].parent # 0 => path[tree[i].parent] = p[tree[i].parent]
      <4> SUFFICES ASSUME tree[i].parent # 0 PROVE path[tree[i].parent] = p[tree[i].parent]
        OBVIOUS
      <4>1. tree[i].parent \in 1..L /\ tree[i].parent > L - j
        BY <2>1
      <4> QED
        BY <1>8, <4>1
    <3> QED
      BY <1>5, <3>1, <3>2
  <2> QED
    BY <2>1
<1>9. L \in P
  <2>1. L \in 0..L
    OBVIOUS
  <2> HIDE DEF P
  <2> QED
    BY <1>7, <1>8, <2>1, Induction
<1>10. \A k \in 1..n : path[k] = p[k]
  BY <1>9
<1>11. IsCodes(Codes(tree, n), tree, n, p)
  BY <1>1, <1>10 DEF IsCodes
<1> QED
  BY <1>2, <1>11

\* A finished tree has one node without parent, its last.
LEMMA RootIsLast ==
  ASSUME NEW tree, NEW n \in Nat, NEW L \in Nat, Len(tree) = L, L = 2 * n - 1, IsBuilt(tree, n)
  PROVE  L >= 1 /\ \A k \in 1..L : tree[k].parent = 0 <=> k = L
<1> DEFINE free == {k \in 1..L : tree[k].parent = 0}
<1>1. n <= L /\ Cardinality(free) = 2 * n - L
  BY DEF IsBuilt
<1>2. Cardinality(free) = 1 /\ L >= 1
  BY <1>1
<1>3. \A k \in 1..L : tree[k].parent # 0 => tree[k].parent \in (k + 1)..L
  BY DEF IsBuilt
<1>4. L \in free
  BY <1>2, <1>3
<1>5. IsFiniteSet(free)
  <2>1. free \subseteq 1..L /\ IsFiniteSet(1..L)
    BY FS_Interval
  <2> HIDE DEF free
  <2> QED
    BY <2>1, FS_Subset
<1>6. free \ {L} = {}
  <2> HIDE DEF free
  <2>1. IsFiniteSet(free \ {L}) /\ Cardinality(free \ {L}) = Cardinality(free) - 1
    BY <1>4, <1>5, FS_RemoveElement
  <2> QED
    BY <1>2, <2>1, FS_EmptySet
<1>7. \A k \in 1..L : tree[k].parent = 0 => k = L
  BY <1>6
<1> QED
  BY <1>2, <1>4, <1>7

\* The beginnings of sequences.
Leads(s, t) == Len(s) <= Len(t) /\ \A k \in 1..Len(s) : s[k] = t[k]

LEMMA PrefixLeads ==
  ASSUME NEW X, NEW s \in Seq(X), NEW t \in Seq(X)
  PROVE  IsPrefix(s, t) <=> Leads(s, t)
<1>1. Len(s) \in Nat /\ Len(t) \in Nat
  OBVIOUS
<1>2. ASSUME Len(s) <= Len(t)
      PROVE  SubSeq(s, 1, Len(s)) = SubSeq(t, 1, Len(s)) <=> \A k \in 1..Len(s) : s[k] = t[k]
  <2>1. /\ SubSeq(s, 1, Len(s)) = [k \in 1..Len(s) |-> s[k]]
        /\ SubSeq(t, 1, Len(s)) = [k \in 1..Len(s) |-> t[k]]
    BY <1>1, <1>2
  <2> QED
    BY <2>1
<1> QED
  BY <1>2 DEF IsPrefix, Leads

\* One more element.
LEMMA OneMore ==
  ASSUME NEW X, NEW s \in Seq(X), NEW x \in X
  PROVE  /\ Append(s, x) \in Seq(X) /\ Len(Append(s, x)) = Len(s) + 1 /\ Len(s) \in Nat
         /\ \A k \in 1..Len(s) : Append(s, x)[k] = s[k]
         /\ Append(s, x)[Len(s) + 1] = x
OBVIOUS

\* The facts about a finished tree and the ways to its nodes.
IsDone(tree, n, L, p) ==
  /\ n \in Nat /\ L \in Nat /\ Len(tree) = L /\ L >= 1 /\ n <= L /\ IsBuilt(tree, n)
  /\ \A k \in 1..L : tree[k].parent = 0 <=> k = L
  /\ IsPath(p, tree, L)

\* The way to a node is one longer than the way to its parent.
LEMMA WayIs ==
  ASSUME NEW tree, NEW n, NEW L, NEW p, IsDone(tree, n, L, p)
  PROVE  /\ p[L] = <<>> /\ Len(p[L]) = 0
         /\ \A i \in 1..L : p[i] \in Seq({0, 1}) /\ Len(p[i]) \in Nat
         /\ \A i \in 1..L : i # L =>
              LET q == tree[i].parent IN
              /\ q \in (i + 1)..L /\ q \in 1..L /\ q > n
              /\ i \in {tree[q].lchild, tree[q].rchild}
              /\ Len(p[i]) = Len(p[q]) + 1
              /\ \A k \in 1..Len(p[q]) : p[i][k] = p[q][k]
              /\ p[i][Len(p[q]) + 1] = BitOf(tree, i)
<1> USE DEF IsDone
<1>1. L \in 1..L
  OBVIOUS
<1>2. \A i \in 1..L : p[i] \in Seq({0, 1}) /\ Len(p[i]) \in Nat
  BY DEF IsPath
<1>3. p[L] = <<>>
  BY <1>1 DEF IsPath
<1>4. ASSUME NEW i \in 1..L, i # L
      PROVE  LET q == tree[i].parent IN
             /\ q \in (i + 1)..L /\ q \in 1..L /\ q > n
             /\ i \in {tree[q].lchild, tree[q].rchild}
             /\ Len(p[i]) = Len(p[q]) + 1
             /\ \A k \in 1..Len(p[q]) : p[i][k] = p[q][k]
             /\ p[i][Len(p[q]) + 1] = BitOf(tree, i)
  <2> DEFINE q == tree[i].parent
  <2>1. q # 0
    BY <1>4
  <2>2. q \in (i + 1)..L /\ q > n /\ i \in {tree[q].lchild, tree[q].rchild}
    BY <2>1 DEF IsBuilt
  <2>3. q \in 1..L
    BY <2>2
  <2>4. p[i] = Append(p[q], BitOf(tree, i))
    BY <2>1 DEF IsPath
  <2>5. BitOf(tree, i) \in {0, 1} /\ p[q] \in Seq({0, 1})
    BY <1>2, <2>3 DEF BitOf
  <2> HIDE DEF q
  <2>6. /\ Len(p[i]) = Len(p[q]) + 1
        /\ \A k \in 1..Len(p[q]) : p[i][k] = p[q][k]
        /\ p[i][Len(p[q]) + 1] = BitOf(tree, i)
    BY <2>4, <2>5, OneMore
  <2> QED
    BY <2>2, <2>3, <2>6 DEF q
<1> QED
  BY <1>2, <1>3, <1>4

\* No two nodes are reached the same way.
LEMMA WaysApart ==
  ASSUME NEW tree, NEW n, NEW L, NEW p, IsDone(tree, n, L, p)
  PROVE  \A i, j \in 1..L : Len(p[i]) = Len(p[j]) /\ Leads(p[i], p[j]) => i = j
<1> DEFINE Same(i, j) == Len(p[i]) = Len(p[j]) /\ \A k \in 1..Len(p[i]) : p[i][k] = p[j][k]
           P == {d \in 0..L : \A i, j \in 1..L : i > L - d /\ Same(i, j) => i = j}
<1>1. L \in Nat
  BY DEF IsDone
<1>2. 0 \in P
  BY <1>1
<1>3. ASSUME NEW d \in 0..(L - 1), d \in P PROVE d + 1 \in P
  <2>1. ASSUME NEW i \in 1..L, NEW j \in 1..L, i > L - (d + 1), Same(i, j)
        PROVE  i = j
    <3>1. CASE i = L \/ j = L
      <4>1. Len(p[L]) = 0 /\ Len(p[i]) = 0 /\ Len(p[j]) = 0
        BY <2>1, <3>1, WayIs
      <4>2. \A m \in 1..L : m # L => Len(p[m]) # 0
        <5> SUFFICES ASSUME NEW m \in 1..L, m # L PROVE Len(p[m]) # 0
          OBVIOUS
        <5> DEFINE q == tree[m].parent
        <5>1. q \in 1..L /\ Len(p[m]) = Len(p[q]) + 1 /\ Len(p[q]) \in Nat
          BY WayIs
        <5> QED
          BY <5>1
      <4> QED
        BY <4>1, <4>2
    <3>2. CASE i # L /\ j # L
      <4> DEFINE q == tree[i].parent
                 r == tree[j].parent
      <4>1. /\ q \in (i + 1)..L /\ q \in 1..L /\ Len(p[i]) = Len(p[q]) + 1 /\ Len(p[q]) \in Nat
            /\ i \in {tree[q].lchild, tree[q].rchild}
            /\ \A k \in 1..Len(p[q]) : p[i][k] = p[q][k]
            /\ p[i][Len(p[q]) + 1] = BitOf(tree, i)
        BY <3>2, WayIs
      <4>2. /\ r \in 1..L /\ Len(p[j]) = Len(p[r]) + 1 /\ Len(p[r]) \in Nat
            /\ j \in {tree[r].lchild, tree[r].rchild}
            /\ \A k \in 1..Len(p[r]) : p[j][k] = p[r][k]
            /\ p[j][Len(p[r]) + 1] = BitOf(tree, j)
        <5>1. \A m \in 1..L : m # L =>
                /\ tree[m].parent \in 1..L /\ Len(p[m]) = Len(p[tree[m].parent]) + 1
                /\ Len(p[tree[m].parent]) \in Nat
                /\ m \in {tree[tree[m].parent].lchild, tree[tree[m].parent].rchild}
                /\ \A k \in 1..Len(p[tree[m].parent]) : p[m][k] = p[tree[m].parent][k]
                /\ p[m][Len(p[tree[m].parent]) + 1] = BitOf(tree, m)
          <6> HIDE DEF Same, q, r
          <6> QED
            BY WayIs
        <5> HIDE DEF Same, q
        <5> QED
          BY <3>2, <5>1
      <4>3. BitOf(tree, i) = (IF tree[q].lchild = i THEN 0 ELSE 1)
            /\ BitOf(tree, j) = (IF tree[r].lchild = j THEN 0 ELSE 1)
        BY DEF BitOf
      <4> HIDE DEF q, r
      <4>4. Len(p[q]) = Len(p[r])
        <5>1. Len(p[i]) = Len(p[j])
          BY <2>1
        <5> HIDE DEF Same, P
        <5>2. Len(p[i]) = Len(p[q]) + 1 /\ Len(p[q]) \in Nat
          BY <4>1
        <5>3. Len(p[j]) = Len(p[r]) + 1 /\ Len(p[r]) \in Nat
          BY <4>2
        <5>4. \A u, v \in Nat : u + 1 = v + 1 => u = v
          OBVIOUS
        <5>5. Len(p[q]) + 1 = Len(p[r]) + 1
          BY <5>1, <5>2, <5>3, Zenon
        <5> QED
          BY <5>2, <5>3, <5>4, <5>5
      <4>5. \A k \in 1..Len(p[q]) : k \in 1..Len(p[i])
        BY <4>1
      <4>6. Same(q, r)
        BY <2>1, <4>1, <4>2, <4>4, <4>5
      <4>7. q = r
        <5>1. q > L - d
          BY <1>1, <2>1, <4>1
        <5> HIDE DEF Same
        <5> QED
          BY <1>3, <4>1, <4>2, <4>6, <5>1
      <4>8. Len(p[q]) + 1 \in 1..Len(p[i])
        BY <4>1
      <4>9. BitOf(tree, i) = BitOf(tree, j)
        BY <2>1, <4>1, <4>2, <4>4, <4>8
      <4> QED
        BY <4>1, <4>2, <4>3, <4>7, <4>9
    <3> QED
      BY <3>1, <3>2
  <2>2. d + 1 \in 0..L
    BY <1>1
  <2> HIDE DEF Same
  <2> QED
    BY <2>1, <2>2
<1>4. L \in P
  <2>1. L \in 0..L
    BY <1>1
  <2> HIDE DEF P
  <2> QED
    BY <1>1, <1>2, <1>3, <2>1, Induction
<1>5. \A i, j \in 1..L : i > L - L
  BY <1>1
<1> QED
  BY <1>4, <1>5 DEF Leads

\* No way to a leaf begins the way to another node.
LEMMA LeavesEnd ==
  ASSUME NEW tree, NEW n, NEW L, NEW p, IsDone(tree, n, L, p)
  PROVE  \A i \in 1..n, j \in 1..L : Leads(p[i], p[j]) => i = j
<1> DEFINE P == {d \in 0..L : \A i \in 1..n, j \in 1..L : j > L - d /\ Leads(p[i], p[j]) => i = j}
<1>1. L \in Nat /\ n \in Nat /\ n <= L /\ \A i \in 1..n : i \in 1..L
  BY DEF IsDone
<1>2. 0 \in P
  BY <1>1
<1>3. ASSUME NEW d \in 0..(L - 1), d \in P PROVE d + 1 \in P
  <2>1. ASSUME NEW i \in 1..n, NEW j \in 1..L, j > L - (d + 1), Leads(p[i], p[j])
        PROVE  i = j
    <3>1. Len(p[i]) \in Nat /\ Len(p[j]) \in Nat /\ Len(p[i]) <= Len(p[j])
      BY <1>1, <2>1, WayIs DEF Leads
    <3>2. CASE Len(p[i]) = Len(p[j])
      BY <1>1, <2>1, <3>2, WaysApart
    <3>3. CASE Len(p[i]) < Len(p[j])
      <4>1. j # L
        BY <3>1, <3>3, WayIs
      <4> DEFINE q == tree[j].parent
      <4>2. /\ q \in (j + 1)..L /\ q \in 1..L /\ q > n
            /\ Len(p[j]) = Len(p[q]) + 1 /\ Len(p[q]) \in Nat
            /\ \A k \in 1..Len(p[q]) : p[j][k] = p[q][k]
        BY <4>1, WayIs
      <4> HIDE DEF q
      <4>3. Len(p[i]) <= Len(p[q])
        BY <3>1, <3>3, <4>2
      <4>4. \A k \in 1..Len(p[i]) : k \in 1..Len(p[q])
        BY <3>1, <4>2, <4>3
      <4>5. Leads(p[i], p[q])
        BY <2>1, <4>2, <4>3, <4>4 DEF Leads
      <4>6. q > L - d
        BY <1>1, <2>1, <4>2
      <4>7. i = q
        BY <1>3, <4>2, <4>5, <4>6
      <4> QED
        BY <1>1, <4>2, <4>7
    <3> QED
      BY <3>1, <3>2, <3>3
  <2>2. d + 1 \in 0..L
    BY <1>1
  <2> QED
    BY <2>1, <2>2
<1>4. L \in P
  <2>1. L \in 0..L
    BY <1>1
  <2> HIDE DEF P
  <2> QED
    BY <1>1, <1>2, <1>3, <2>1, Induction
<1>5. \A j \in 1..L : j > L - L
  BY <1>1
<1> QED
  BY <1>4, <1>5

\* The way to a heavier node is not longer: its parent is the lighter one's, or
\* came later and is heavier than the lighter one's.
LEMMA HeavierIsNearer ==
  ASSUME NEW tree, NEW n, NEW L, NEW p, IsDone(tree, n, L, p)
  PROVE  \A i, j \in 1..L : tree[j].weight < tree[i].weight => Len(p[i]) <= Len(p[j])
<1> DEFINE P == {d \in 0..L : \A i, j \in 1..L :
                   i > L - d /\ tree[j].weight < tree[i].weight => Len(p[i]) <= Len(p[j])}
<1>1. L \in Nat /\ n \in Nat /\ \A k \in 1..L : tree[k].parent = 0 <=> k = L
  BY DEF IsDone
<1>2. /\ \A k \in 1..L : tree[k].weight \in Nat
      /\ \A k \in 1..L : k > n =>
           /\ tree[k].lchild \in 1..(k - 1) /\ tree[k].rchild \in 1..(k - 1)
           /\ tree[tree[k].lchild].parent = k /\ tree[tree[k].rchild].parent = k
           /\ tree[k].weight = tree[tree[k].lchild].weight + tree[tree[k].rchild].weight
      /\ \A i, j \in 1..L : tree[i].parent # 0 /\ tree[j].weight < tree[i].weight =>
           tree[j].parent # 0 /\ tree[j].parent <= tree[i].parent
  BY DEF IsDone, IsBuilt
<1>3. \A q \in 1..L, i \in 1..L :
        q > n /\ i \in {tree[q].lchild, tree[q].rchild} =>
          \E s \in 1..L : tree[s].parent = q /\ tree[q].weight = tree[i].weight + tree[s].weight
  <2> SUFFICES ASSUME NEW q \in 1..L, NEW i \in 1..L, q > n, i \in {tree[q].lchild, tree[q].rchild}
               PROVE  \E s \in 1..L : /\ tree[s].parent = q
                                      /\ tree[q].weight = tree[i].weight + tree[s].weight
    OBVIOUS
  <2> DEFINE l == tree[q].lchild
             r == tree[q].rchild
  <2>1. /\ l \in 1..(q - 1) /\ r \in 1..(q - 1) /\ tree[l].parent = q /\ tree[r].parent = q
        /\ tree[q].weight = tree[l].weight + tree[r].weight
    BY <1>2
  <2>2. i = l \/ i = r
    OBVIOUS
  <2> HIDE DEF l, r
  <2>3. l \in 1..L /\ r \in 1..L
    BY <1>1, <2>1
  <2>4. tree[l].weight \in Nat /\ tree[r].weight \in Nat
    BY <1>2, <2>3
  <2>5. \A x, y \in Nat : x + y = y + x
    OBVIOUS
  <2>6. tree[q].weight = tree[r].weight + tree[l].weight
    BY <2>1, <2>4, <2>5
  <2> QED
    BY <2>1, <2>2, <2>3, <2>6
<1>4. 0 \in P
  BY <1>1
<1>5. ASSUME NEW d \in 0..(L - 1), d \in P PROVE d + 1 \in P
  <2>1. ASSUME NEW i \in 1..L, NEW j \in 1..L, i > L - (d + 1), tree[j].weight < tree[i].weight
        PROVE  Len(p[i]) <= Len(p[j])
    <3>0. Len(p[i]) \in Nat /\ Len(p[j]) \in Nat
      BY WayIs
    <3>1. CASE i = L
      BY <3>0, <3>1, WayIs
    <3>2. CASE i # L
      <4> DEFINE q == tree[i].parent
                 r == tree[j].parent
      <4>1. q # 0 /\ r # 0 /\ r <= q /\ j # L
        BY <1>1, <1>2, <2>1, <3>2
      <4>2. /\ q \in (i + 1)..L /\ q \in 1..L /\ q > n /\ Len(p[i]) = Len(p[q]) + 1
            /\ i \in {tree[q].lchild, tree[q].rchild} /\ Len(p[q]) \in Nat
        BY <3>2, WayIs
      <4>3. /\ r \in 1..L /\ r > n /\ Len(p[j]) = Len(p[r]) + 1
            /\ j \in {tree[r].lchild, tree[r].rchild} /\ Len(p[r]) \in Nat
        BY <4>1, WayIs
      <4>4. CASE q = r
        BY <3>0, <4>2, <4>3, <4>4
      <4>5. CASE q # r
        <5>1. PICK s \in 1..L : /\ tree[s].parent = q
                                /\ tree[q].weight = tree[i].weight + tree[s].weight
          <6> HIDE DEF q
          <6> QED
            BY <1>3, <4>2
        <5>2. PICK u \in 1..L : /\ tree[u].parent = r
                                /\ tree[r].weight = tree[j].weight + tree[u].weight
          <6> HIDE DEF r
          <6> QED
            BY <1>3, <4>3
        <5>3. r < q
          <6> HIDE DEF q, r
          <6> QED
            BY <4>1, <4>2, <4>3, <4>5
        <5>4. ~(tree[s].weight < tree[u].weight)
          <6>1. tree[u].parent # 0 /\ ~(tree[s].parent <= tree[u].parent)
            <7> HIDE DEF q, r
            <7> QED
              BY <4>1, <4>2, <4>3, <5>1, <5>2, <5>3
          <6> QED
            BY <1>2, <6>1
        <5>5. tree[r].weight < tree[q].weight
          <6>1. \A a, b, c, e \in Nat : a < b /\ ~(c < e) => a + e < b + c
            OBVIOUS
          <6>2. tree[i].weight \in Nat /\ tree[j].weight \in Nat
                /\ tree[s].weight \in Nat /\ tree[u].weight \in Nat
            BY <1>2
          <6> HIDE DEF q, r
          <6> QED
            BY <2>1, <5>1, <5>2, <5>4, <6>1, <6>2
        <5>6. q > L - d
          <6> HIDE DEF q
          <6> QED
            BY <1>1, <2>1, <4>2
        <5> HIDE DEF q, r
        <5>7. Len(p[q]) <= Len(p[r])
          BY <1>5, <4>2, <4>3, <5>5, <5>6
        <5> QED
          BY <4>2, <4>3, <5>7
      <4> QED
        BY <4>4, <4>5
    <3> QED
      BY <3>1, <3>2
  <2>2. d + 1 \in 0..L
    BY <1>1
  <2> QED
    BY <2>1, <2>2
<1>6. L \in P
  <2>1. L \in 0..L
    BY <1>1
  <2> HIDE DEF P
  <2> QED
    BY <1>1, <1>4, <1>5, <2>1, Induction
<1>7. \A i \in 1..L : i > L - L
  BY <1>1
<1> QED
  BY <1>6, <1>7

\* Two codes, one behind the other, begin with no third one.
LEMMA CodeIsRead ==
  ASSUME NEW tree, NEW n, NEW L, NEW p, IsDone(tree, n, L, p),
         NEW c, IsCodes(c, tree, n, p),
         NEW x \in 1..n, NEW y \in 1..n
  PROVE  decode(c, c[x].vector \o c[y].vector) = c[x].info
<1> DEFINE bits == p[x] \o p[y]
           hits == {k \in DOMAIN c : IsPrefix(c[k].vector, bits)}
           Best(k) == \A m \in hits : \/ Len(c[k].vector) < Len(c[m].vector)
                                      \/ Len(c[k].vector) = Len(c[m].vector) /\ m <= k
           stop == CHOOSE k \in hits : Best(k)
<1>1. DOMAIN c = 1..n /\ \A j \in 1..n : c[j].vector = p[j]
  BY DEF IsCodes
<1>2. \A j \in 1..n : j \in 1..L /\ p[j] \in Seq({0, 1}) /\ Len(p[j]) \in Nat
  <2>1. \A j \in 1..n : j \in 1..L
    BY DEF IsDone
  <2> QED
    BY <2>1, WayIs
<1>3. /\ bits \in Seq({0, 1}) /\ Len(p[x]) <= Len(bits)
      /\ \A j \in 1..Len(p[x]) : bits[j] = p[x][j]
  <2> DEFINE s == p[x]
             t == p[y]
  <2>1. s \in Seq({0, 1}) /\ t \in Seq({0, 1}) /\ Len(s) \in Nat /\ Len(t) \in Nat
    BY <1>2
  <2> HIDE DEF s, t
  <2>2. /\ s \o t \in Seq({0, 1}) /\ Len(s \o t) = Len(s) + Len(t)
        /\ \A j \in 1..Len(s) : (s \o t)[j] = s[j]
    BY <2>1
  <2>3. Len(s) <= Len(s \o t)
    BY <2>1, <2>2
  <2> QED
    BY <2>2, <2>3 DEF s, t
<1>4. decode(c, bits) = IF hits = {} THEN -1 ELSE c[stop].info
  BY DEF decode
<1> HIDE DEF bits, stop
<1>5. \A j \in 1..n : IsPrefix(p[j], bits) <=> Leads(p[j], bits)
  BY <1>2, <1>3, PrefixLeads
<1>6. x \in hits
  <2>1. Leads(p[x], bits)
    BY <1>3 DEF Leads
  <2> QED
    BY <1>1, <1>5, <2>1
<1>7. ASSUME NEW j \in hits PROVE j = x
  <2>1. j \in 1..n /\ Leads(p[j], bits)
    BY <1>1, <1>5
  <2>2. CASE Len(p[j]) <= Len(p[x])
    <3>1. \A i \in 1..Len(p[j]) : i \in 1..Len(p[x])
      BY <1>2, <2>1, <2>2
    <3>2. Leads(p[j], p[x])
      BY <1>3, <2>1, <2>2, <3>1 DEF Leads
    <3> QED
      BY <1>2, <2>1, <3>2, LeavesEnd
  <2>3. CASE Len(p[x]) <= Len(p[j])
    <3>1. \A i \in 1..Len(p[x]) : i \in 1..Len(p[j])
      BY <1>2, <2>1, <2>3
    <3>2. Leads(p[x], p[j])
      BY <1>3, <2>1, <2>3, <3>1 DEF Leads
    <3> QED
      BY <1>2, <2>1, <3>2, LeavesEnd
  <2> QED
    BY <1>2, <2>1, <2>2, <2>3
<1> HIDE DEF hits
<1>8. hits = {x}
  BY <1>6, <1>7
<1>9. Best(x)
  BY <1>8
<1>10. stop = x
  <2> HIDE DEF Best
  <2> QED
    BY <1>8, <1>9 DEF stop
<1>11. decode(c, bits) = c[x].info
  BY <1>4, <1>6, <1>10
<1> QED
  BY <1>1, <1>11 DEF bits

\* When the tree is finished, the codes are read again and are shorter for what
\* comes more often.
LEMMA FinishedIsRead ==
  ASSUME NEW tree, NEW n \in Nat, NEW L \in Nat, Len(tree) = L, DOMAIN tree = 1..L,
         L = 2 * n - 1, IsBuilt(tree, n)
  PROVE  LET c == Codes(tree, n) IN
         \A k, m \in DOMAIN c :
           /\ decode(c, c[k].vector \o c[m].vector) = c[k].info
           /\ tree[k].weight > tree[m].weight => Len(c[k].vector) <= Len(c[m].vector)
<1> DEFINE c == Codes(tree, n)
<1>1. n <= L /\ \A k \in 1..L : tree[k].parent # 0 => tree[k].parent \in (k + 1)..L
  BY DEF IsBuilt
<1>2. PICK p : IsPath(p, tree, L) /\ IsCodes(c, tree, n, p)
  BY <1>1, CodesAre
<1> HIDE DEF c
<1>3. IsDone(tree, n, L, p)
  BY <1>1, <1>2, RootIsLast DEF IsDone
<1>4. DOMAIN c = 1..n /\ \A k \in 1..n : c[k].vector = p[k] /\ k \in 1..L
  BY <1>1, <1>2 DEF IsCodes
<1>5. ASSUME NEW k \in 1..n, NEW m \in 1..n
      PROVE  decode(c, c[k].vector \o c[m].vector) = c[k].info
  BY <1>2, <1>3, CodeIsRead
<1>6. ASSUME NEW k \in 1..n, NEW m \in 1..n, tree[k].weight > tree[m].weight
      PROVE  Len(c[k].vector) <= Len(c[m].vector)
  <2>1. tree[k].weight \in Nat /\ tree[m].weight \in Nat
    BY <1>4 DEF IsBuilt
  <2>2. tree[m].weight < tree[k].weight
    BY <1>6, <2>1
  <2>3. Len(p[k]) <= Len(p[m])
    BY <1>3, <1>4, <2>2, HeavierIsNearer
  <2> QED
    BY <1>4, <2>3
<1> QED
  BY <1>4, <1>5, <1>6 DEF c

\* Nodesize is the number of leaves.
LEMMA LeavesAre ==
  ASSUME NEW tree, NEW n \in Nat, NEW L \in Nat, Len(tree) = L, DOMAIN tree = 1..L,
         IsBuilt(tree, n)
  PROVE  Cardinality({k \in DOMAIN tree : tree[k].lchild = 0}) = n
<1>1. n <= L /\ \A k \in 1..L : /\ k <= n => tree[k].lchild = 0
                                /\ k > n => tree[k].lchild \in 1..(k - 1)
  BY DEF IsBuilt
<1>2. {k \in DOMAIN tree : tree[k].lchild = 0} = 1..n
  BY <1>1
<1>3. Cardinality(1..n) = n
  BY FS_Interval
<1> QED
  BY <1>2, <1>3
===============================================================================
