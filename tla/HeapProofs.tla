----------------------------- MODULE HeapProofs -----------------------------
(***************************************************************************)
(* The buddy system of kernel/heap.c and user/malloc.c, for every number   *)
(* of blocks that is a power of two, every size of a block and all sizes   *)
(* that are asked for.                                                     *)
(***************************************************************************)
EXTENDS Heap, WellFoundedInduction, TLAPS

-----------------------------------------------------------------------------
(* Powers of two.                                                          *)

\* A set of numbers has a least one.
LEMMA LeastNumber ==
  ASSUME NEW T \in SUBSET Nat, T # {}
  PROVE  \E x \in T : \A y \in T : x <= y
<1> DEFINE R == OpToRel(<, Nat)
<1>1. IsWellFoundedOn(R, Nat)
  BY NatLessThanWellFounded, Zenon
<1> HIDE DEF R
<1>2. PICK x \in T : \A y \in T : ~(<<y, x>> \in R)
  BY <1>1, WFMin
<1>3. \A y \in T : ~(y < x)
  BY <1>2 DEF R, OpToRel
<1> QED BY <1>3

LEMMA DivisorIsFactor ==
  ASSUME NEW n \in Nat \ {0}, NEW d \in Nat \ {0}
  PROVE  n % d = 0 <=> \E e \in Nat \ {0} : n = d * e
<1> DEFINE q == n \div d
           r == n % d
<1>1. q \in Int /\ r \in 0 .. d - 1 /\ n = d * q + r
  BY Z3
<1> HIDE DEF q, r
<1>2. ASSUME r = 0 PROVE q \in Nat \ {0} /\ n = d * q
  <2>1. n = d * q
    BY <1>1, <1>2
  <2> QED BY <2>1, <1>1, Z3
<1>3. ASSUME NEW e \in Nat \ {0}, n = d * e PROVE r = 0
  <2>1. d * e - d * q = r
    BY <1>1, <1>3
  <2>2. d * (e - q) = r
    BY <2>1, <1>1, Z3
  <2>3. CASE e - q >= 1
    <3>1. d * (e - q) >= d
      BY <2>3, <1>1, Z3
    <3> QED BY <3>1, <2>2, <1>1
  <2>4. CASE e - q <= -1
    <3>1. d * (e - q) <= -d
      BY <2>4, <1>1, Z3
    <3> QED BY <3>1, <2>2, <1>1
  <2>5. CASE e - q = 0
    BY <2>5, <2>2, <1>1, Z3
  <2> QED BY <2>3, <2>4, <2>5, <1>1
<1> QED BY <1>2, <1>3 DEF r

LEMMA PowerFactors ==
  ASSUME NEW n \in Nat \ {0}
  PROVE  IsPowerOf2(n) <=> \A d, e \in Nat \ {0} : n = d * e => d = 1 \/ d % 2 = 0
<1>1. ASSUME IsPowerOf2(n), NEW d \in Nat \ {0}, NEW e \in Nat \ {0}, n = d * e
      PROVE  d = 1 \/ d % 2 = 0
  <2>1. d <= n
    BY <1>1, Z3
  <2>2. n % d = 0
    BY <1>1, DivisorIsFactor
  <2> QED BY <1>1, <2>1, <2>2 DEF IsPowerOf2
<1>2. ASSUME \A d, e \in Nat \ {0} : n = d * e => d = 1 \/ d % 2 = 0
      PROVE  IsPowerOf2(n)
  <2> SUFFICES ASSUME NEW d \in 1 .. n, n % d = 0 PROVE d = 1 \/ d % 2 = 0
    BY DEF IsPowerOf2
  <2>1. d \in Nat \ {0}
    OBVIOUS
  <2>2. PICK e \in Nat \ {0} : n = d * e
    BY <2>1, DivisorIsFactor
  <2> QED BY <2>1, <2>2, <1>2
<1> QED BY <1>1, <1>2

LEMMA FactorIsEven ==
  ASSUME NEW n \in Nat \ {0}, IsPowerOf2(n), NEW d \in Nat \ {0}, NEW e \in Nat \ {0}, n = d * e
  PROVE  d = 1 \/ d % 2 = 0
BY PowerFactors

LEMMA OneIsPower == IsPowerOf2(1)
BY DEF IsPowerOf2

\* A factor of a power is a power.
LEMMA FactorIsPower ==
  ASSUME NEW n \in Nat \ {0}, NEW d \in Nat \ {0}, NEW e \in Nat \ {0}, n = d * e, IsPowerOf2(n)
  PROVE  IsPowerOf2(d) /\ IsPowerOf2(e)
<1>1. ASSUME NEW a \in Nat \ {0}, NEW b \in Nat \ {0}, a * b = d
      PROVE  a = 1 \/ a % 2 = 0
  <2>1. b * e \in Nat \ {0} /\ n = a * (b * e)
    BY <1>1, Z3
  <2> QED BY <2>1, FactorIsEven
<1>2. ASSUME NEW a \in Nat \ {0}, NEW b \in Nat \ {0}, a * b = e
      PROVE  a = 1 \/ a % 2 = 0
  <2>1. b * d \in Nat \ {0} /\ n = a * (b * d)
    BY <1>2, Z3
  <2> QED BY <2>1, FactorIsEven
<1> QED BY <1>1, <1>2, PowerFactors

LEMMA HalfIsPower ==
  ASSUME NEW n \in Nat \ {0}, IsPowerOf2(n), n # 1
  PROVE  \E h \in Nat \ {0} : n = 2 * h /\ IsPowerOf2(h)
<1>1. n % 2 = 0
  <2>1. n = n * 1 /\ 1 \in Nat \ {0}
    OBVIOUS
  <2>2. n = 1 \/ n % 2 = 0
    BY <2>1, FactorIsEven, Zenon
  <2> QED BY <2>2
<1>2. n \div 2 \in Nat \ {0} /\ n = 2 * (n \div 2)
  BY <1>1
<1>3. IsPowerOf2(n \div 2)
  BY <1>2, FactorIsPower
<1> QED BY <1>2, <1>3

LEMMA DoubleIsPower ==
  ASSUME NEW n \in Nat \ {0}, IsPowerOf2(n)
  PROVE  IsPowerOf2(2 * n)
<1> SUFFICES ASSUME NEW d \in Nat \ {0}, NEW e \in Nat \ {0}, 2 * n = d * e, d % 2 = 1
             PROVE  d = 1
  <2>1. 2 * n \in Nat \ {0}
    OBVIOUS
  <2>2. \A d, e \in Nat \ {0} : 2 * n = d * e => d = 1 \/ d % 2 = 0
    <3>1. \A d \in Nat : d % 2 = 0 \/ d % 2 = 1
      OBVIOUS
    <3> QED BY <3>1
  <2> HIDE DEF IsPowerOf2
  <2> QED BY <2>1, <2>2, PowerFactors
<1>1. PICK a \in Nat : d = 2 * a + 1
  BY SMT
<1>2. e = 2 * (n - a * e)
  BY <1>1, Z3
<1> DEFINE h == n - a * e
<1>3. h \in Int /\ e = 2 * h
  BY <1>1, <1>2
<1> HIDE DEF h
<1>4. h \in Nat \ {0} /\ n = d * h
  <2>1. h \in Nat \ {0}
    BY <1>3
  <2>2. 2 * n = 2 * (d * h)
    BY <1>3, Z3
  <2> QED BY <2>1, <2>2, Z3
<1>5. d = 1 \/ d % 2 = 0
  BY <1>4, FactorIsEven, Zenon
<1> QED BY <1>1, <1>5

\* Of two powers the smaller one is a factor of the larger one.
LEMMA PowersDivide ==
  ASSUME NEW a \in Nat \ {0}, NEW b \in Nat \ {0}, IsPowerOf2(a), IsPowerOf2(b), a <= b
  PROVE  \E m \in Nat \ {0} : b = a * m /\ IsPowerOf2(m)
<1> DEFINE Fails(x) == \E y \in Nat \ {0} : /\ x <= y /\ IsPowerOf2(x) /\ IsPowerOf2(y)
                                            /\ ~\E m \in Nat \ {0} : y = x * m
           T == {x \in Nat \ {0} : Fails(x)}
<1>1. T = {}
  <2> SUFFICES ASSUME T # {} PROVE FALSE
    OBVIOUS
  <2>1. T \subseteq Nat
    OBVIOUS
  <2>2. PICK x \in T : \A y \in T : x <= y
    <3> HIDE DEF T
    <3> QED BY <2>1, LeastNumber
  <2>3. PICK y \in Nat \ {0} : /\ x <= y /\ IsPowerOf2(x) /\ IsPowerOf2(y)
                               /\ ~\E m \in Nat \ {0} : y = x * m
    OBVIOUS
  <2>4. x \in Nat \ {0}
    OBVIOUS
  <2> HIDE DEF T, Fails
  <2>5. x # 1
    <3>1. y = 1 * y
      BY <2>3
    <3> QED BY <2>3, <3>1
  <2>6. y # 1
    BY <2>3, <2>4, <2>5
  <2>7. PICK h \in Nat \ {0} : x = 2 * h /\ IsPowerOf2(h)
    BY <2>3, <2>4, <2>5, HalfIsPower
  <2>8. PICK k \in Nat \ {0} : y = 2 * k /\ IsPowerOf2(k)
    BY <2>3, <2>6, HalfIsPower
  <2>9. h \notin T /\ h <= k
    BY <2>2, <2>3, <2>4, <2>7, <2>8
  <2>10. PICK m \in Nat \ {0} : k = h * m
    BY <2>7, <2>8, <2>9 DEF T, Fails
  <2>11. y = x * m
    BY <2>7, <2>8, <2>10, Z3
  <2> QED BY <2>3, <2>11
<1>2. ~Fails(a)
  BY <1>1
<1>3. PICK m \in Nat \ {0} : b = a * m
  BY <1>2
<1>4. IsPowerOf2(m)
  BY <1>3, FactorIsPower
<1> QED BY <1>3, <1>4

\* There is no power between a power and its double.
LEMMA NextPower ==
  ASSUME NEW a \in Nat \ {0}, NEW b \in Nat \ {0}, IsPowerOf2(a), IsPowerOf2(b), a < b
  PROVE  2 * a <= b
<1>0. a <= b
  OBVIOUS
<1>1. PICK m \in Nat \ {0} : b = a * m
  BY <1>0, PowersDivide
<1>2. m # 1
  BY <1>1
<1>3. m >= 2
  BY <1>2
<1>4. a * m >= a * 2
  BY <1>3, Z3
<1> QED BY <1>1, <1>4

\* From every number a power is less than one doubling away.
LEMMA PowerAbove ==
  ASSUME NEW n \in Nat \ {0}
  PROVE  \E p \in n .. 2 * n - 1 : IsPowerOf2(p)
<1> DEFINE T == {x \in Nat \ {0} : ~\E p \in x .. 2 * x - 1 : IsPowerOf2(p)}
<1>1. T = {}
  <2> SUFFICES ASSUME T # {} PROVE FALSE
    OBVIOUS
  <2>1. T \subseteq Nat
    OBVIOUS
  <2>2. PICK x \in T : \A y \in T : x <= y
    <3> HIDE DEF T
    <3> QED BY <2>1, LeastNumber
  <2>3. x \in Nat \ {0} /\ ~\E p \in x .. 2 * x - 1 : IsPowerOf2(p)
    OBVIOUS
  <2>4. x # 1
    BY <2>3, OneIsPower
  <2>5. x - 1 \in Nat \ {0} /\ x - 1 \notin T
    BY <2>2, <2>3, <2>4
  <2>6. PICK p \in x - 1 .. 2 * (x - 1) - 1 : IsPowerOf2(p)
    BY <2>5
  <2> HIDE DEF T
  <2>7. p = x - 1
    BY <2>3, <2>6
  <2>8. IsPowerOf2(2 * p) /\ 2 * p \in x .. 2 * x - 1
    BY <2>3, <2>4, <2>5, <2>6, <2>7, DoubleIsPower
  <2> QED BY <2>3, <2>8
<1> QED BY <1>1

\* What fixSize computes.
LEMMA LeastPowerFacts ==
  ASSUME NEW n \in Nat \ {0}
  PROVE  /\ LeastPower(n) \in n .. 2 * n - 1
         /\ IsPowerOf2(LeastPower(n))
         /\ IsPowerOf2(n) => LeastPower(n) = n
<1> DEFINE T == {p \in n .. 2 * n : IsPowerOf2(p)}
           Least(m) == IsPowerOf2(m) /\ \A j \in n .. m - 1 : ~IsPowerOf2(j)
<1>1. PICK p \in n .. 2 * n - 1 : IsPowerOf2(p)
  BY PowerAbove
<1>2. PICK x \in T : \A y \in T : x <= y
  <2>1. T \subseteq Nat /\ T # {}
    BY <1>1
  <2> HIDE DEF T
  <2> QED BY <2>1, LeastNumber
<1>3. x \in n .. 2 * n /\ Least(x)
  BY <1>2
<1>4. LeastPower(n) = CHOOSE m \in n .. 2 * n : Least(m)
  BY DEF LeastPower
<1> HIDE DEF Least
<1>5. LeastPower(n) \in n .. 2 * n /\ Least(LeastPower(n))
  BY <1>3, <1>4
<1> DEFINE m == LeastPower(n)
<1>6. /\ m \in n .. 2 * n /\ IsPowerOf2(m)
      /\ \A j \in n .. m - 1 : ~IsPowerOf2(j)
  BY <1>5 DEF Least
<1> HIDE DEF m
<1>7. m <= p
  BY <1>1, <1>6
<1>8. IsPowerOf2(n) => m = n
  BY <1>6
<1> QED BY <1>1, <1>6, <1>7, <1>8 DEF m
-----------------------------------------------------------------------------
(* The tree.                                                               *)

LEMMA TotalFacts == Total \in Nat \ {0} /\ IsPowerOf2(Total) /\ 2 * Total \in Nat \ {0} /\ IsPowerOf2(2 * Total)
BY HeapAssumption, DoubleIsPower

\* Every node has a size.
LEMMA SizeExists ==
  ASSUME NEW i \in Index
  PROVE  \E s \in 1 .. Total : IsPowerOf2(s) /\ Total <= s * (i + 1) /\ s * (i + 1) < 2 * Total
<1> DEFINE n == i + 1
<1>1. n \in Nat \ {0} /\ n < 2 * Total
  BY TotalFacts DEF Index
<1> HIDE DEF n
<1>2. PICK p \in n .. 2 * n - 1 : IsPowerOf2(p)
  BY <1>1, PowerAbove
<1>3. \E q \in Nat \ {0} : IsPowerOf2(q) /\ q <= n /\ n < 2 * q
  <2>1. CASE p = n
    BY <1>1, <1>2, <2>1
  <2>2. CASE p # n
    <3>1. p \in Nat \ {0} /\ p # 1
      BY <1>1, <1>2, <2>2
    <3>2. PICK h \in Nat \ {0} : p = 2 * h /\ IsPowerOf2(h)
      BY <1>2, <3>1, HalfIsPower
    <3> QED BY <1>1, <1>2, <2>2, <3>2
  <2> QED BY <2>1, <2>2
<1>4. PICK q \in Nat \ {0} : IsPowerOf2(q) /\ q <= n /\ n < 2 * q
  BY <1>3
<1>5. q <= Total
  BY <1>1, <1>4, TotalFacts, NextPower
<1>6. PICK s \in Nat \ {0} : Total = q * s /\ IsPowerOf2(s)
  BY <1>4, <1>5, TotalFacts, PowersDivide
<1>7. q * s <= n * s /\ n * s < (2 * q) * s
  BY <1>1, <1>4, <1>6, Z3
<1>8. s <= q * s
  BY <1>4, <1>6, Z3
<1>9. n * s = s * n /\ (2 * q) * s = 2 * (q * s)
  BY <1>1, <1>4, <1>6, Z3
<1>10. s \in 1 .. Total /\ Total <= s * n /\ s * n < 2 * Total
  BY <1>6, <1>7, <1>8, <1>9, TotalFacts
<1> QED BY <1>6, <1>10 DEF n

LEMMA NodeSizeFacts ==
  ASSUME NEW i \in Index
  PROVE  /\ NodeSize[i] \in 1 .. Total /\ IsPowerOf2(NodeSize[i])
         /\ Total <= NodeSize[i] * (i + 1) /\ NodeSize[i] * (i + 1) < 2 * Total
<1> DEFINE Fits(s) == IsPowerOf2(s) /\ Total <= s * (i + 1) /\ s * (i + 1) < 2 * Total
<1>1. NodeSize[i] = CHOOSE s \in 1 .. Total : Fits(s)
  BY DEF NodeSize
<1>2. \E s \in 1 .. Total : Fits(s)
  BY SizeExists
<1> HIDE DEF Fits
<1>3. NodeSize[i] \in 1 .. Total /\ Fits(NodeSize[i])
  BY <1>1, <1>2
<1> QED BY <1>3 DEF Fits

LEMMA SizeIsUnique ==
  ASSUME NEW n \in Nat \ {0}, NEW s \in Nat \ {0}, NEW t \in Nat \ {0}, IsPowerOf2(s), IsPowerOf2(t),
         Total <= s * n, t * n < 2 * Total
  PROVE  t <= s
<1> SUFFICES ASSUME s < t PROVE FALSE
  OBVIOUS
<1>1. 2 * s <= t
  BY NextPower
<1>2. (2 * s) * n <= t * n
  BY <1>1, Z3
<1>3. (2 * s) * n = 2 * (s * n)
  BY Z3
<1>4. s * n \in Nat /\ t * n \in Nat
  BY Z3
<1> QED BY <1>2, <1>3, <1>4, TotalFacts

LEMMA SizeIs ==
  ASSUME NEW i \in Index, NEW s \in Nat \ {0}, IsPowerOf2(s), Total <= s * (i + 1), s * (i + 1) < 2 * Total
  PROVE  NodeSize[i] = s
<1> DEFINE n == i + 1
           t == NodeSize[i]
<1>1. n \in Nat \ {0}
  BY DEF Index
<1>2. t \in Nat \ {0} /\ IsPowerOf2(t) /\ Total <= t * n /\ t * n < 2 * Total
  BY NodeSizeFacts
<1>3. Total <= s * n /\ s * n < 2 * Total
  OBVIOUS
<1> HIDE DEF n, t
<1>4. t <= s /\ s <= t
  BY <1>1, <1>2, <1>3, SizeIsUnique
<1>5. t = s
  BY <1>2, <1>4
<1> QED BY <1>5 DEF t

\* The pieces of one size lie side by side.
LEMMA NodeAt ==
  ASSUME NEW i \in Index, NEW n, n = i + 1, NEW s, s = NodeSize[i]
  PROVE  \E m \in Nat \ {0} : /\ Total = s * m /\ IsPowerOf2(m)
                              /\ m <= n /\ n < 2 * m
                              /\ First(i) = s * (n - m)
<1>1. n \in Nat \ {0}
  BY DEF Index
<1>2. /\ s \in Nat \ {0} /\ s <= Total /\ IsPowerOf2(s)
      /\ Total <= s * n /\ s * n < 2 * Total
  BY NodeSizeFacts
<1>3. First(i) = n * s - Total
  BY DEF First, Offset
<1>4. PICK m \in Nat \ {0} : Total = s * m /\ IsPowerOf2(m)
  BY <1>2, TotalFacts, PowersDivide
<1>5. m <= n
  <2> SUFFICES ASSUME n < m PROVE FALSE
    BY <1>1
  <2>1. s * n < s * m
    BY <1>1, <1>2, Z3
  <2> QED BY <1>1, <1>2, <1>4, <2>1, Z3
<1>6. n < 2 * m
  <2> SUFFICES ASSUME n >= 2 * m PROVE FALSE
    BY <1>1
  <2>1. s * n >= s * (2 * m)
    BY <1>1, <1>2, Z3
  <2>2. s * (2 * m) = 2 * (s * m)
    BY <1>2, Z3
  <2>3. s * n \in Nat /\ s * m \in Nat
    BY <1>1, <1>2, Z3
  <2> QED BY <1>2, <1>4, <2>1, <2>2, <2>3
<1>7. First(i) = s * (n - m)
  BY <1>1, <1>2, <1>3, <1>4, Z3
<1> QED BY <1>4, <1>5, <1>6, <1>7

LEMMA RootFacts ==
  0 \in Index /\ NodeSize[0] = Total /\ First(0) = 0
<1>1. 0 \in Index
  BY TotalFacts DEF Index
<1>2. Total <= Total * (0 + 1) /\ Total * (0 + 1) < 2 * Total
  BY TotalFacts
<1>3. NodeSize[0] = Total
  BY <1>1, <1>2, TotalFacts, SizeIs
<1>4. First(0) = 0
  BY <1>3, TotalFacts DEF First, Offset
<1> QED BY <1>1, <1>3, <1>4

\* The piece of a node lies in the heap.
LEMMA NodeInHeap ==
  ASSUME NEW i \in Index
  PROVE  /\ NodeSize[i] \in 1 .. Total /\ First(i) \in 0 .. Total - 1
         /\ First(i) + NodeSize[i] <= Total
<1> DEFINE n == i + 1
           s == NodeSize[i]
           o == First(i)
<1>1. n \in Nat \ {0}
  BY DEF Index
<1>2. s \in 1 .. Total /\ Total \in Nat
  BY NodeSizeFacts, TotalFacts
<1>a. n = i + 1 /\ s = NodeSize[i] /\ o = First(i)
  OBVIOUS
<1> HIDE DEF n, s, o
<1>3. PICK m \in Nat \ {0} : Total = s * m /\ m <= n /\ n < 2 * m /\ o = s * (n - m)
  BY <1>a, NodeAt
<1>4. n - m \in 0 .. m - 1
  BY <1>1, <1>3
<1>5. s * (n - m) >= 0 /\ s * (n - m) + s = s * (n - m + 1)
  BY <1>2, <1>4, Z3
<1>6. s * (n - m + 1) <= s * m
  BY <1>2, <1>4, Z3
<1>7. o \in Int
  BY <1>2, <1>3, <1>4
<1>8. o >= 0 /\ o + s <= Total
  BY <1>2, <1>3, <1>5, <1>6
<1>9. s \in 1 .. Total /\ o \in 0 .. Total - 1 /\ o + s <= Total
  BY <1>2, <1>7, <1>8
<1> QED BY <1>9 DEF s, o

\* A node of more than one block is split among its children.
LEMMA ChildFacts ==
  ASSUME NEW i \in Index, NodeSize[i] # 1
  PROVE  \E h \in Nat \ {0} :
           /\ NodeSize[i] = 2 * h /\ IsPowerOf2(h)
           /\ Left(i) \in Index /\ NodeSize[Left(i)] = h /\ First(Left(i)) = First(i)
           /\ Right(i) \in Index /\ NodeSize[Right(i)] = h /\ First(Right(i)) = First(i) + h
<1> DEFINE n == i + 1
           s == NodeSize[i]
<1>1. n \in Nat \ {0}
  BY DEF Index
<1>2. /\ s \in Nat \ {0} /\ IsPowerOf2(s)
      /\ Total <= s * n /\ s * n < 2 * Total
  BY NodeSizeFacts
<1>3. First(i) = n * s - Total
  BY DEF First, Offset
<1>4. First(i) + s <= Total
  BY NodeInHeap
<1>5. Left(i) = 2 * n - 1 /\ Right(i) = 2 * n
  BY DEF Left, Right, Index
<1>6. s # 1
  OBVIOUS
<1> HIDE DEF n, s
<1>7. PICK h \in Nat \ {0} : s = 2 * h /\ IsPowerOf2(h)
  BY <1>2, <1>6, HalfIsPower
<1>8. n * s = s * n /\ h * (2 * n) = s * n /\ h * (2 * n + 1) = s * n + h
  BY <1>1, <1>2, <1>7, Z3
<1>9. s * n \in Nat /\ s * n + s <= 2 * Total
  <2>1. s * n \in Nat
    BY <1>1, <1>2, Z3
  <2> QED BY <1>2, <1>3, <1>4, <1>8, <2>1, TotalFacts
<1>10. h * (2 * n) < 2 * Total /\ h * (2 * n + 1) < 2 * Total
  BY <1>7, <1>8, <1>9, TotalFacts
<1>11. 2 * n + 1 < 2 * Total
  <2>1. 2 * n + 1 <= h * (2 * n + 1)
    BY <1>1, <1>7, Z3
  <2>2. h * (2 * n + 1) \in Nat
    BY <1>7, <1>8, <1>9
  <2> QED BY <1>1, <1>10, <2>1, <2>2, TotalFacts
<1>12. Left(i) \in Index /\ Right(i) \in Index
  BY <1>1, <1>5, <1>11, TotalFacts DEF Index
<1>13. Left(i) + 1 = 2 * n /\ Right(i) + 1 = 2 * n + 1
  BY <1>1, <1>5
<1>14. Total <= h * (2 * n) /\ Total <= h * (2 * n + 1)
  BY <1>2, <1>7, <1>8, <1>9, TotalFacts
<1>15. NodeSize[Left(i)] = h /\ NodeSize[Right(i)] = h
  BY <1>7, <1>10, <1>12, <1>13, <1>14, SizeIs
<1>16. First(Left(i)) = (2 * n) * h - Total /\ First(Right(i)) = (2 * n + 1) * h - Total
  BY <1>13, <1>15 DEF First, Offset
<1>17. (2 * n) * h = h * (2 * n) /\ (2 * n + 1) * h = h * (2 * n + 1)
  BY <1>1, <1>7, Z3
<1>18. First(Left(i)) = First(i) /\ First(Right(i)) = First(i) + h
  BY <1>3, <1>7, <1>8, <1>9, <1>16, <1>17, TotalFacts
<1> QED BY <1>7, <1>12, <1>15, <1>18 DEF s

LEMMA ParentFacts ==
  ASSUME NEW i \in Index, i # 0
  PROVE  /\ Parent(i) \in Index /\ Parent(i) < i
         /\ i = Left(Parent(i)) \/ i = Right(Parent(i))
         /\ NodeSize[Parent(i)] = 2 * NodeSize[i]
<1> DEFINE n == i + 1
           s == NodeSize[i]
           k == n \div 2
<1>1. n \in Nat \ {0} /\ n >= 2
  BY DEF Index
<1>a. n = i + 1 /\ s = NodeSize[i]
  OBVIOUS
<1>2. s \in Nat \ {0} /\ IsPowerOf2(s) /\ s * n < 2 * Total
  BY NodeSizeFacts
<1>3. k \in Nat \ {0} /\ (n = 2 * k \/ n = 2 * k + 1)
  BY <1>1
<1>4. Parent(i) = k - 1
  BY DEF Parent
<1> HIDE DEF n, s, k
<1>5. PICK m \in Nat \ {0} : Total = s * m /\ IsPowerOf2(m) /\ m <= n /\ n < 2 * m
  BY <1>a, NodeAt
<1>6. m # 1
  BY <1>1, <1>5
<1>7. PICK h \in Nat \ {0} : m = 2 * h
  BY <1>5, <1>6, HalfIsPower
<1>8. h <= k /\ k < 2 * h
  BY <1>3, <1>5, <1>7
<1>9. (2 * s) * h = Total
  BY <1>2, <1>5, <1>7, Z3
<1>10. (2 * s) * h <= (2 * s) * k /\ (2 * s) * k < (2 * s) * (2 * h)
  BY <1>2, <1>3, <1>8, Z3
<1>11. (2 * s) * (2 * h) = 2 * Total
  BY <1>2, <1>9, Z3
<1>12. 2 * s \in Nat \ {0} /\ IsPowerOf2(2 * s)
  BY <1>2, DoubleIsPower
<1>13. Parent(i) \in Index /\ Parent(i) < i /\ Parent(i) + 1 = k
  <2>1. i \in 0 .. 2 * Total - 2 /\ Total \in Nat
    BY TotalFacts DEF Index
  <2>2. k - 1 \in 0 .. 2 * Total - 2 /\ k - 1 < i /\ k - 1 + 1 = k
    BY <1>1, <1>3, <1>a, <2>1
  <2> QED BY <1>4, <2>2 DEF Index
<1>14. NodeSize[Parent(i)] = 2 * s
  BY <1>9, <1>10, <1>11, <1>12, <1>13, SizeIs
<1>15. i = Left(Parent(i)) \/ i = Right(Parent(i))
  <2>1. i \in Int
    BY TotalFacts DEF Index
  <2>2. i = 2 * (k - 1) + 1 \/ i = 2 * (k - 1) + 2
    BY <1>3, <1>a, <2>1
  <2> QED BY <1>4, <2>2 DEF Left, Right
<1> QED BY <1>13, <1>14, <1>15 DEF s

LEMMA LeafFacts ==
  ASSUME NEW o \in 0 .. Total - 1
  PROVE  o + Total - 1 \in Index /\ NodeSize[o + Total - 1] = 1 /\ First(o + Total - 1) = o
<1> DEFINE i == o + Total - 1
<1>1. i \in Index
  BY TotalFacts DEF Index
<1>2. Total <= 1 * (i + 1) /\ 1 * (i + 1) < 2 * Total
  BY TotalFacts
<1>3. NodeSize[i] = 1
  BY <1>1, <1>2, OneIsPower, SizeIs
<1>4. First(i) = o
  BY <1>3, TotalFacts DEF First, Offset
<1> QED BY <1>1, <1>3, <1>4

\* Two nodes have disjoint pieces, or the smaller piece lies in the larger one.
LEMMA Nested ==
  ASSUME NEW i \in Index, NEW j \in Index, NodeSize[i] <= NodeSize[j]
  PROVE  \/ First(i) + NodeSize[i] <= First(j)
         \/ First(j) + NodeSize[j] <= First(i)
         \/ First(j) <= First(i) /\ First(i) + NodeSize[i] <= First(j) + NodeSize[j]
<1> DEFINE s == NodeSize[i]
           t == NodeSize[j]
           a == i + 1
           b == j + 1
<1>1. s \in Nat \ {0} /\ t \in Nat \ {0} /\ IsPowerOf2(s) /\ IsPowerOf2(t) /\ s <= t
  BY NodeSizeFacts
<1>2. a = i + 1 /\ b = j + 1 /\ a \in Nat /\ b \in Nat /\ s = NodeSize[i] /\ t = NodeSize[j]
  BY DEF Index
<1> HIDE DEF s, t, a, b
<1>3. PICK m \in Nat \ {0} : First(i) = s * (a - m)
  BY <1>2, NodeAt, ZenonT(40)
<1>4. PICK k \in Nat \ {0} : First(j) = t * (b - k)
  BY <1>2, NodeAt, ZenonT(40)
<1>5. PICK r \in Nat \ {0} : t = s * r
  BY <1>1, PowersDivide
<1> DEFINE x == a - m
           z == r * (b - k)
<1>6. x \in Int /\ z \in Int
  BY <1>2, <1>3, <1>4, <1>5
<1>7. First(i) = s * x
  BY <1>3
<1>8. First(j) = s * z
  BY <1>1, <1>2, <1>4, <1>5, Z3
<1> HIDE DEF x, z
<1>9. CASE x + 1 <= z
  <2>1. s * (x + 1) <= s * z /\ s * (x + 1) = s * x + s
    BY <1>1, <1>6, <1>9, Z3
  <2> QED BY <1>1, <1>2, <1>6, <1>7, <1>8, <2>1
<1>10. CASE z + r <= x
  <2>1. s * (z + r) <= s * x /\ s * (z + r) = s * z + s * r
    BY <1>1, <1>5, <1>6, <1>10, Z3
  <2> QED BY <1>1, <1>2, <1>5, <1>6, <1>7, <1>8, <2>1
<1>11. CASE z <= x /\ x + 1 <= z + r
  <2>1. s * z <= s * x
    BY <1>1, <1>6, <1>11, Z3
  <2>2. s * (x + 1) <= s * (z + r)
    BY <1>1, <1>5, <1>6, <1>11, Z3
  <2>3. s * (x + 1) = s * x + s /\ s * (z + r) = s * z + s * r
    BY <1>1, <1>5, <1>6, Z3
  <2> QED BY <1>1, <1>2, <1>5, <1>6, <1>7, <1>8, <2>1, <2>2, <2>3
<1> QED BY <1>5, <1>6, <1>9, <1>10, <1>11

LEMMA SamePiece ==
  ASSUME NEW i \in Index, NEW j \in Index, NodeSize[i] = NodeSize[j], First(i) = First(j)
  PROVE  i = j
<1> DEFINE s == NodeSize[i]
           a == i + 1
           b == j + 1
<1>1. s \in Nat \ {0}
  BY NodeSizeFacts
<1>2. a \in Nat /\ b \in Nat
  BY DEF Index
<1>3. a * s = b * s
  <2>1. a * s - Total = b * s - Total
    BY DEF First, Offset
  <2> HIDE DEF a, b, s
  <2>2. a * s \in Int /\ b * s \in Int
    BY <1>1, <1>2, Z3
  <2> QED BY <2>1, <2>2, TotalFacts
<1>4. a = b
  <2> HIDE DEF a, b, s
  <2>1. a < b => a * s < b * s
    BY <1>1, <1>2, Z3
  <2>2. b < a => b * s < a * s
    BY <1>1, <1>2, Z3
  <2>3. a * s \in Int /\ b * s \in Int
    BY <1>1, <1>2, Z3
  <2> QED BY <1>2, <1>3, <2>1, <2>2, <2>3
<1> QED BY <1>4 DEF Index
-----------------------------------------------------------------------------
(* The pieces of the nodes as sets of blocks.                              *)

LEMMA CoversFacts ==
  ASSUME NEW i \in Index, NEW j \in Index
  PROVE  /\ Covers(i) \subseteq Covers(j) <=>
              /\ First(j) <= First(i)
              /\ First(i) + NodeSize[i] <= First(j) + NodeSize[j]
         /\ Covers(i) \cap Covers(j) = {} <=> \/ First(i) + NodeSize[i] <= First(j)
                                              \/ First(j) + NodeSize[j] <= First(i)
         /\ First(i) \in Covers(i)
<1> DEFINE s == NodeSize[i]
           t == NodeSize[j]
           a == First(i)
           b == First(j)
<1>1. s \in Nat \ {0} /\ t \in Nat \ {0} /\ a \in Nat /\ b \in Nat
  BY NodeInHeap
<1>2. Covers(i) = a .. a + s - 1 /\ Covers(j) = b .. b + t - 1
  BY DEF Covers
<1> HIDE DEF s, t, a, b
<1>3. a .. a + s - 1 \subseteq b .. b + t - 1 <=> b <= a /\ a + s <= b + t
  <2>1. a \in a .. a + s - 1 /\ a + s - 1 \in a .. a + s - 1
    BY <1>1
  <2> QED BY <1>1, <2>1
<1>4. (a .. a + s - 1) \cap (b .. b + t - 1) = {} <=> a + s <= b \/ b + t <= a
  <2>1. a \in a .. a + s - 1 /\ b \in b .. b + t - 1
    BY <1>1
  <2>2. ASSUME a + s > b, b + t > a PROVE a \in b .. b + t - 1 \/ b \in a .. a + s - 1
    BY <1>1, <2>2
  <2> QED BY <1>1, <2>1, <2>2
<1>5. a \in a .. a + s - 1
  BY <1>1
<1> QED BY <1>2, <1>3, <1>4, <1>5 DEF s, t, a, b

LEMMA NestedCovers ==
  ASSUME NEW i \in Index, NEW j \in Index, NodeSize[i] <= NodeSize[j]
  PROVE  Covers(i) \subseteq Covers(j) \/ Covers(i) \cap Covers(j) = {}
BY Nested, CoversFacts

\* Of two nodes that meet one lies in the other.
LEMMA MeetingCovers ==
  ASSUME NEW i \in Index, NEW j \in Index, Covers(i) \cap Covers(j) # {}
  PROVE  Covers(i) \subseteq Covers(j) \/ Covers(j) \subseteq Covers(i)
<1>1. NodeSize[i] \in Nat /\ NodeSize[j] \in Nat
  BY NodeInHeap
<1>2. CASE NodeSize[i] <= NodeSize[j]
  BY <1>2, NestedCovers
<1>3. CASE NodeSize[j] <= NodeSize[i]
  <2>1. Covers(j) \cap Covers(i) # {}
    OBVIOUS
  <2> QED BY <1>3, <2>1, NestedCovers
<1> QED BY <1>1, <1>2, <1>3

LEMMA SizeWithin ==
  ASSUME NEW i \in Index, NEW j \in Index, Covers(i) \subseteq Covers(j)
  PROVE  /\ NodeSize[i] <= NodeSize[j]
         /\ i # j => 2 * NodeSize[i] <= NodeSize[j]
         /\ NodeSize[i] = NodeSize[j] => i = j
<1> DEFINE s == NodeSize[i]
           t == NodeSize[j]
<1>1. /\ s \in Nat \ {0} /\ t \in Nat \ {0} /\ IsPowerOf2(s) /\ IsPowerOf2(t)
      /\ First(i) \in Nat /\ First(j) \in Nat
  BY NodeInHeap, NodeSizeFacts
<1>2. First(j) <= First(i) /\ First(i) + s <= First(j) + t
  BY CoversFacts
<1>3. s = t => i = j
  <2> SUFFICES ASSUME s = t PROVE i = j
    OBVIOUS
  <2>1. First(i) = First(j)
    BY <1>1, <1>2
  <2> QED BY <2>1, SamePiece
<1>4. s < t => 2 * s <= t
  <2> HIDE DEF s, t
  <2> QED BY <1>1, NextPower
<1>5. s <= t
  BY <1>1, <1>2
<1> QED BY <1>1, <1>3, <1>4, <1>5

LEMMA SameCovers ==
  ASSUME NEW i \in Index, NEW j \in Index, Covers(i) \subseteq Covers(j), Covers(j) \subseteq Covers(i)
  PROVE  i = j
<1>1. NodeSize[i] <= NodeSize[j] /\ NodeSize[j] <= NodeSize[i]
  BY SizeWithin
<1>2. NodeSize[i] \in Nat /\ NodeSize[j] \in Nat
  BY NodeInHeap
<1> QED BY <1>1, <1>2, SizeWithin

LEMMA ChildCovers ==
  ASSUME NEW i \in Index, NodeSize[i] # 1
  PROVE  /\ Left(i) \in Index /\ Right(i) \in Index
         /\ Covers(i) = Covers(Left(i)) \cup Covers(Right(i))
         /\ Covers(Left(i)) \cap Covers(Right(i)) = {}
         /\ NodeSize[i] = 2 * NodeSize[Left(i)] /\ NodeSize[Right(i)] = NodeSize[Left(i)]
<1>1. PICK h \in Nat \ {0} :
           /\ NodeSize[i] = 2 * h /\ IsPowerOf2(h)
           /\ Left(i) \in Index /\ NodeSize[Left(i)] = h /\ First(Left(i)) = First(i)
           /\ Right(i) \in Index /\ NodeSize[Right(i)] = h /\ First(Right(i)) = First(i) + h
  BY ChildFacts
<1>2. First(i) \in Nat
  BY NodeInHeap
<1>3. /\ Covers(i) = First(i) .. First(i) + 2 * h - 1
      /\ Covers(Left(i)) = First(i) .. First(i) + h - 1
      /\ Covers(Right(i)) = First(i) + h .. First(i) + h + h - 1
  BY <1>1 DEF Covers
<1>4. Covers(i) = Covers(Left(i)) \cup Covers(Right(i)) /\ Covers(Left(i)) \cap Covers(Right(i)) = {}
  BY <1>2, <1>3
<1> QED BY <1>1, <1>4

\* What lies in a node and is not all of it lies in one of its children.
LEMMA DownToChild ==
  ASSUME NEW i \in Index, NEW j \in Index, Covers(j) \subseteq Covers(i), j # i
  PROVE  NodeSize[i] # 1 /\ (Covers(j) \subseteq Covers(Left(i)) \/ Covers(j) \subseteq Covers(Right(i)))
<1>1. NodeSize[j] \in Nat \ {0} /\ NodeSize[i] \in Nat /\ First(j) \in Covers(j)
  BY NodeInHeap, CoversFacts
<1>2. 2 * NodeSize[j] <= NodeSize[i]
  BY SizeWithin
<1>3. NodeSize[i] # 1
  BY <1>1, <1>2
<1>4. /\ Left(i) \in Index /\ Right(i) \in Index
      /\ Covers(i) = Covers(Left(i)) \cup Covers(Right(i))
      /\ NodeSize[i] = 2 * NodeSize[Left(i)] /\ NodeSize[Right(i)] = NodeSize[Left(i)]
  BY <1>3, ChildCovers
<1>5. NodeSize[Left(i)] \in Nat
  BY <1>4, NodeInHeap
<1>6. NodeSize[j] <= NodeSize[Left(i)] /\ NodeSize[j] <= NodeSize[Right(i)]
  BY <1>1, <1>2, <1>4, <1>5
<1>7. First(j) \in Covers(Left(i)) \/ First(j) \in Covers(Right(i))
  BY <1>1, <1>4
<1> QED BY <1>1, <1>3, <1>4, <1>6, <1>7, NestedCovers

\* What contains a node and more contains its parent.
LEMMA UpToParent ==
  ASSUME NEW i \in Index, NEW j \in Index, Covers(i) \subseteq Covers(j), i # j
  PROVE  i # 0 /\ Covers(Parent(i)) \subseteq Covers(j)
<1>1. NodeSize[i] \in Nat \ {0} /\ NodeSize[j] \in Nat /\ NodeSize[j] <= Total /\ First(i) \in Covers(i)
  BY NodeInHeap, CoversFacts
<1>2. 2 * NodeSize[i] <= NodeSize[j]
  BY SizeWithin
<1>3. i # 0
  BY <1>1, <1>2, RootFacts, TotalFacts
<1>4. Parent(i) \in Index /\ NodeSize[Parent(i)] = 2 * NodeSize[i] /\ (i = Left(Parent(i)) \/ i = Right(Parent(i)))
  BY <1>3, ParentFacts
<1>5. NodeSize[Parent(i)] # 1
  BY <1>1, <1>4
<1>6. Covers(i) \subseteq Covers(Parent(i))
  BY <1>4, <1>5, ChildCovers
<1>7. NodeSize[Parent(i)] <= NodeSize[j]
  BY <1>2, <1>4
<1>8. Covers(Parent(i)) \cap Covers(j) # {}
  BY <1>1, <1>6
<1> QED BY <1>3, <1>4, <1>7, <1>8, NestedCovers

LEMMA InParent ==
  ASSUME NEW i \in Index, i # 0
  PROVE  /\ Parent(i) \in Index /\ Covers(i) \subseteq Covers(Parent(i)) /\ Parent(i) # i
         /\ NodeSize[Parent(i)] = 2 * NodeSize[i] /\ NodeSize[Parent(i)] # 1
         /\ i = Left(Parent(i)) \/ i = Right(Parent(i))
<1>1. NodeSize[i] \in Nat \ {0} /\ i \in Int
  BY NodeInHeap, TotalFacts DEF Index
<1>2. /\ Parent(i) \in Index /\ NodeSize[Parent(i)] = 2 * NodeSize[i] /\ Parent(i) < i
      /\ i = Left(Parent(i)) \/ i = Right(Parent(i))
  BY ParentFacts
<1>3. NodeSize[Parent(i)] # 1 /\ Parent(i) # i
  BY <1>1, <1>2
<1> QED BY <1>2, <1>3, ChildCovers
-----------------------------------------------------------------------------
(* What the value of a node says, for any set B of pieces in use.          *)

Piece(i) == [off |-> First(i), len |-> NodeSize[i]]
Pieces   == {Piece(i) : i \in Index}

\* The pieces in use are pieces of nodes, and disjoint.
Apart(B) == /\ B \subseteq Pieces
            /\ \A a, b \in B : a # b => Used(a) \cap Used(b) = {}

Open(B, j)   == \A b \in B : Used(b) \cap Covers(j) = {}
Inside(B, i) == \E b \in B : Covers(i) \subseteq Used(b)

\* v is the size of the largest piece below node i that is free.
Largest(B, i, v) ==
  /\ \A j \in Index : Covers(j) \subseteq Covers(i) /\ Open(B, j) => NodeSize[j] <= v
  /\ v # 0 => \E j \in Index : Covers(j) \subseteq Covers(i) /\ Open(B, j) /\ NodeSize[j] = v

Exact(B, i, v) ==
  /\ \A b \in B : Covers(i) \subseteq Used(b) => v = IF NodeSize[i] = b.len THEN 0 ELSE NodeSize[i]
  /\ ~Inside(B, i) => Largest(B, i, v)

LEMMA PieceFacts ==
  ASSUME NEW i \in Index
  PROVE  /\ Used(Piece(i)) = Covers(i) /\ Piece(i).len = NodeSize[i] /\ Piece(i).off = First(i)
         /\ Covers(i) # {}
         /\ NodeSize[i] \in Nat \ {0}
<1>1. Used(Piece(i)) = Covers(i)
  BY DEF Used, Heaps!Units, Piece, Covers
<1> QED BY <1>1, CoversFacts, NodeInHeap DEF Piece

LEMMA PieceOf ==
  ASSUME NEW B, Apart(B), NEW b \in B
  PROVE  \E i \in Index : b = Piece(i) /\ Used(b) = Covers(i) /\ b.len = NodeSize[i] /\ b.off = First(i)
BY PieceFacts DEF Apart, Pieces

LEMMA OpenIsFull ==
  ASSUME NEW B, NEW i \in Index, Open(B, i)
  PROVE  /\ Exact(B, i, NodeSize[i])
         /\ ~Inside(B, i)
         /\ \A v \in Nat : Exact(B, i, v) => v = NodeSize[i]
<1>1. ~Inside(B, i) /\ \A b \in B : ~(Covers(i) \subseteq Used(b))
  BY PieceFacts DEF Open, Inside
<1>2. Largest(B, i, NodeSize[i])
  BY SizeWithin DEF Largest
<1>3. ASSUME NEW v \in Nat, Exact(B, i, v) PROVE v = NodeSize[i]
  <2>1. Largest(B, i, v)
    BY <1>1, <1>3 DEF Exact
  <2>2. NodeSize[i] <= v /\ NodeSize[i] \in Nat \ {0}
    BY <2>1, PieceFacts DEF Largest
  <2>3. PICK j \in Index : Covers(j) \subseteq Covers(i) /\ NodeSize[j] = v
    BY <2>1, <2>2 DEF Largest
  <2>4. v <= NodeSize[i]
    BY <2>3, SizeWithin
  <2> QED BY <2>2, <2>4
<1> QED BY <1>1, <1>2, <1>3 DEF Exact

LEMMA FullIsOpen ==
  ASSUME NEW B, NEW i \in Index, Largest(B, i, NodeSize[i])
  PROVE  Open(B, i)
<1>1. PICK j \in Index : Covers(j) \subseteq Covers(i) /\ Open(B, j) /\ NodeSize[j] = NodeSize[i]
  BY PieceFacts DEF Largest
<1>2. j = i
  BY <1>1, SizeWithin
<1> QED BY <1>1, <1>2

LEMMA LargestIsSmall ==
  ASSUME NEW B, NEW i \in Index, NEW v \in Nat, Largest(B, i, v)
  PROVE  v <= NodeSize[i]
BY SizeWithin, PieceFacts DEF Largest

LEMMA OpenBelow ==
  ASSUME NEW B, NEW i \in Index, NEW j \in Index, Open(B, i), Covers(j) \subseteq Covers(i)
  PROVE  Open(B, j)
BY DEF Open

\* A child of a node that is not inside of a piece in use: if it is in use itself
\* its value is 0, as it should be.
LEMMA ChildIsLargest ==
  ASSUME NEW B, Apart(B), NEW i \in Index, ~Inside(B, i), NEW c \in Index, c # 0, Parent(c) = i,
         NEW v \in Nat, Exact(B, c, v)
  PROVE  Largest(B, c, v) /\ (Inside(B, c) => v = 0)
<1>1. CASE ~Inside(B, c)
  BY <1>1 DEF Exact
<1>2. CASE Inside(B, c)
  <2>1. PICK b \in B : Covers(c) \subseteq Used(b)
    BY <1>2 DEF Inside
  <2>2. PICK k \in Index : Used(b) = Covers(k) /\ b.len = NodeSize[k]
    BY PieceOf
  <2>3. c = k
    <3> SUFFICES ASSUME c # k PROVE FALSE
      OBVIOUS
    <3>1. Covers(i) \subseteq Covers(k)
      BY <2>1, <2>2, UpToParent
    <3> QED BY <2>2, <3>1 DEF Inside
  <2>4. v = 0
    BY <2>1, <2>2, <2>3 DEF Exact
  <2>5. ASSUME NEW j \in Index, Covers(j) \subseteq Covers(c) PROVE ~Open(B, j)
    BY <2>2, <2>3, <2>5, PieceFacts DEF Open
  <2> QED BY <2>4, <2>5 DEF Largest
<1> QED BY <1>1, <1>2

LEMMA ChildrenFacts ==
  ASSUME NEW i \in Index, NodeSize[i] # 1
  PROVE  /\ Left(i) # 0 /\ Parent(Left(i)) = i /\ Left(i) # i
         /\ Right(i) # 0 /\ Parent(Right(i)) = i /\ Right(i) # i
BY TotalFacts DEF Left, Right, Parent, Index

\* The value of a node from those of its children, while something is in use below it.
LEMMA PullIsExact ==
  ASSUME NEW B, Apart(B), NEW i \in Index, NodeSize[i] # 1, ~Inside(B, i), ~Open(B, i),
         NEW l \in Nat, Exact(B, Left(i), l), NEW r \in Nat, Exact(B, Right(i), r)
  PROVE  Exact(B, i, Larger(l, r))
<1>1. /\ Left(i) \in Index /\ Right(i) \in Index
      /\ Covers(i) = Covers(Left(i)) \cup Covers(Right(i))
  BY ChildCovers
<1>2. Largest(B, Left(i), l) /\ Largest(B, Right(i), r)
  BY <1>1, ChildrenFacts, ChildIsLargest
<1>3. ASSUME NEW j \in Index, Covers(j) \subseteq Covers(i), Open(B, j)
      PROVE  NodeSize[j] <= Larger(l, r)
  <2>1. j # i
    BY <1>3
  <2>2. Covers(j) \subseteq Covers(Left(i)) \/ Covers(j) \subseteq Covers(Right(i))
    BY <1>3, <2>1, DownToChild
  <2>3. NodeSize[j] <= l \/ NodeSize[j] <= r
    BY <1>2, <1>3, <2>2 DEF Largest
  <2>4. NodeSize[j] \in Nat
    BY PieceFacts
  <2> QED BY <2>3, <2>4 DEF Larger
<1>4. ASSUME Larger(l, r) # 0
      PROVE  \E j \in Index : Covers(j) \subseteq Covers(i) /\ Open(B, j) /\ NodeSize[j] = Larger(l, r)
  <2>1. CASE Larger(l, r) = l
    BY <1>1, <1>2, <1>4, <2>1 DEF Largest
  <2>2. CASE Larger(l, r) = r
    BY <1>1, <1>2, <1>4, <2>2 DEF Largest
  <2> QED BY <2>1, <2>2 DEF Larger
<1>5. Largest(B, i, Larger(l, r))
  BY <1>3, <1>4 DEF Largest
<1> QED BY <1>5 DEF Exact, Inside

\* The same when two halves that are free are merged.
LEMMA MergeIsExact ==
  ASSUME NEW B, Apart(B), NEW i \in Index, NodeSize[i] # 1, ~Inside(B, i),
         NEW l \in Nat, Exact(B, Left(i), l), NEW r \in Nat, Exact(B, Right(i), r)
  PROVE  Exact(B, i, Merged(l, r, NodeSize[i]))
<1> DEFINE h == NodeSize[Left(i)]
<1>1. /\ Left(i) \in Index /\ Right(i) \in Index
      /\ Covers(i) = Covers(Left(i)) \cup Covers(Right(i))
      /\ NodeSize[i] = 2 * h /\ NodeSize[Right(i)] = h
  BY ChildCovers
<1>2. h \in Nat \ {0}
  BY <1>1, PieceFacts
<1>3. Largest(B, Left(i), l) /\ Largest(B, Right(i), r)
  BY <1>1, ChildrenFacts, ChildIsLargest
<1>4. l <= h /\ r <= h
  BY <1>1, <1>3, LargestIsSmall
<1>5. Open(B, i) <=> Open(B, Left(i)) /\ Open(B, Right(i))
  BY <1>1 DEF Open
<1>6. Open(B, Left(i)) => l = h
  BY <1>1, OpenIsFull
<1>7. Open(B, Right(i)) => r = h
  BY <1>1, OpenIsFull
<1>8. l = h => Open(B, Left(i))
  BY <1>1, <1>3, FullIsOpen
<1>9. r = h => Open(B, Right(i))
  BY <1>1, <1>3, FullIsOpen
<1> HIDE DEF h
<1>10. Open(B, i) <=> l + r = NodeSize[i]
  BY <1>1, <1>2, <1>4, <1>5, <1>6, <1>7, <1>8, <1>9
<1>11. CASE l + r = NodeSize[i]
  BY <1>10, <1>11, OpenIsFull DEF Merged
<1>12. CASE l + r # NodeSize[i]
  BY <1>10, <1>12, PullIsExact DEF Merged
<1> QED BY <1>11, <1>12

\* Nodes apart from a piece do not notice it.
LEMMA ApartIsExact ==
  ASSUME NEW B, NEW i \in Index, NEW k \in Index, Covers(k) \cap Covers(i) = {}, NEW v
  PROVE  Exact(B, k, v) <=> Exact(B \cup {Piece(i)}, k, v)
<1> DEFINE C == B \cup {Piece(i)}
<1>1. \A j \in Index : Covers(j) \subseteq Covers(k) => (Open(B, j) <=> Open(C, j))
  BY PieceFacts DEF Open
<1>2. ~(Covers(k) \subseteq Used(Piece(i)))
  BY PieceFacts
<1>3. Inside(B, k) <=> Inside(C, k)
  BY <1>2 DEF Inside
<1>4. Largest(B, k, v) <=> Largest(C, k, v)
  BY <1>1 DEF Largest
<1>5. (\A b \in B : Covers(k) \subseteq Used(b) => v = IF NodeSize[k] = b.len THEN 0 ELSE NodeSize[k])
        <=> (\A b \in C : Covers(k) \subseteq Used(b) => v = IF NodeSize[k] = b.len THEN 0 ELSE NodeSize[k])
  BY <1>2
<1> HIDE DEF C
<1>6. Exact(B, k, v) <=> Exact(C, k, v)
  BY <1>3, <1>4, <1>5 DEF Exact
<1> QED BY <1>6 DEF C

\* A node that is open is put to use.
LEMMA TakeIsExact ==
  ASSUME NEW B, Apart(B), NEW i \in Index, Open(B, i)
  PROVE  LET C == B \cup {Piece(i)}
         IN  /\ Apart(C) /\ Exact(C, i, 0) /\ Piece(i) \notin B
             /\ \A k \in Index, v \in Nat :
                  Exact(B, k, v) /\ ~(Covers(i) \subseteq Covers(k)) => Exact(C, k, v)
<1> DEFINE C == B \cup {Piece(i)}
<1>1. Apart(C)
  BY PieceFacts DEF Apart, Open, Pieces
<1>2. Exact(C, i, 0)
  <2>1. Inside(C, i)
    BY PieceFacts DEF Inside
  <2>2. \A b \in B : ~(Covers(i) \subseteq Used(b))
    BY PieceFacts DEF Open
  <2> QED BY <2>1, <2>2, PieceFacts DEF Exact
<1>3. Piece(i) \notin B
  BY PieceFacts DEF Open
<1>4. ASSUME NEW k \in Index, NEW v \in Nat, Exact(B, k, v), ~(Covers(i) \subseteq Covers(k))
      PROVE  Exact(C, k, v)
  <2>1. CASE Covers(k) \cap Covers(i) = {}
    BY <1>4, <2>1, ApartIsExact
  <2>2. CASE Covers(k) \cap Covers(i) # {}
    <3>1. Covers(k) \subseteq Covers(i)
      BY <1>4, <2>2, MeetingCovers
    <3>2. k # i /\ NodeSize[k] # NodeSize[i]
      BY <1>4, <3>1, SizeWithin
    <3>3. v = NodeSize[k]
      BY <1>4, <3>1, OpenBelow, OpenIsFull
    <3>4. Inside(C, k)
      BY <3>1, PieceFacts DEF Inside
    <3>5. \A b \in B : ~(Covers(k) \subseteq Used(b))
      BY <3>1, PieceFacts DEF Open
    <3> QED BY <3>2, <3>3, <3>4, <3>5, PieceFacts DEF Exact
  <2> QED BY <2>1, <2>2
<1> QED BY <1>1, <1>2, <1>3, <1>4

\* A piece in use is given back.
LEMMA FreeIsExact ==
  ASSUME NEW B, Apart(B), NEW i \in Index, Piece(i) \in B
  PROVE  LET C == B \ {Piece(i)}
         IN  /\ Apart(C) /\ Exact(C, i, NodeSize[i]) /\ ~Inside(C, i)
             /\ \A k \in Index, v \in Nat :
                  Exact(B, k, v) /\ ~(Covers(i) \subseteq Covers(k)) => Exact(C, k, v)
<1> DEFINE C == B \ {Piece(i)}
<1>1. Apart(C)
  BY DEF Apart
<1>2. Open(C, i)
  BY PieceFacts DEF Apart, Open
<1>3. B = C \cup {Piece(i)}
  OBVIOUS
<1> HIDE DEF C
<1>4. Exact(C, i, NodeSize[i]) /\ ~Inside(C, i)
  BY <1>2, OpenIsFull
<1>5. ASSUME NEW k \in Index, NEW v \in Nat, Exact(B, k, v), ~(Covers(i) \subseteq Covers(k))
      PROVE  Exact(C, k, v)
  <2>1. CASE Covers(k) \cap Covers(i) = {}
    BY <1>3, <1>5, <2>1, ApartIsExact
  <2>2. CASE Covers(k) \cap Covers(i) # {}
    <3>1. Covers(k) \subseteq Covers(i)
      BY <1>5, <2>2, MeetingCovers
    <3>2. k # i /\ NodeSize[k] # NodeSize[i]
      BY <1>5, <3>1, SizeWithin
    <3>3. v = NodeSize[k]
      BY <1>5, <3>1, <3>2, PieceFacts DEF Exact
    <3> QED BY <1>2, <3>1, <3>3, OpenBelow, OpenIsFull
  <2> QED BY <2>1, <2>2
<1> QED BY <1>1, <1>4, <1>5 DEF C

\* A node that is too large and has room for a piece of the right size has a
\* child with room for it.
LEMMA ChildHasRoom ==
  ASSUME NEW B, Apart(B), NEW i \in Index, ~Inside(B, i), NEW v \in Nat, Exact(B, i, v),
         NEW size \in Nat \ {0}, IsPowerOf2(size), size <= v, size # NodeSize[i],
         NEW l \in Nat, Exact(B, Left(i), l), NEW r \in Nat, Exact(B, Right(i), r)
  PROVE  NodeSize[i] # 1 /\ size <= NodeSize[Left(i)] /\ (size <= l \/ size <= r)
<1> DEFINE h == NodeSize[Left(i)]
<1>1. Largest(B, i, v)
  BY DEF Exact
<1>2. v <= NodeSize[i] /\ NodeSize[i] \in Nat
  BY <1>1, LargestIsSmall, PieceFacts
<1>3. NodeSize[i] # 1
  BY <1>2
<1>4. /\ Left(i) \in Index /\ Right(i) \in Index
      /\ Covers(i) = Covers(Left(i)) \cup Covers(Right(i))
      /\ NodeSize[i] = 2 * h /\ NodeSize[Right(i)] = h
  BY <1>3, ChildCovers
<1>5. h \in Nat \ {0} /\ IsPowerOf2(h)
  BY <1>4, NodeSizeFacts, PieceFacts
<1>6. size <= h
  BY <1>2, <1>4, <1>5, NextPower
<1>7. Largest(B, Left(i), l) /\ Largest(B, Right(i), r)
  BY <1>3, <1>4, ChildrenFacts, ChildIsLargest
<1>8. PICK j \in Index : Covers(j) \subseteq Covers(i) /\ Open(B, j) /\ NodeSize[j] = v
  BY <1>1 DEF Largest
<1>9. CASE j = i
  <2>1. Open(B, Left(i)) /\ Covers(Left(i)) \subseteq Covers(Left(i))
    BY <1>4, <1>8, <1>9, OpenBelow
  <2>2. h <= l
    BY <1>4, <1>7, <2>1 DEF Largest
  <2> QED BY <1>3, <1>5, <1>6, <2>2
<1>10. CASE j # i
  <2>1. Covers(j) \subseteq Covers(Left(i)) \/ Covers(j) \subseteq Covers(Right(i))
    BY <1>8, <1>10, DownToChild
  <2>2. v <= l \/ v <= r
    BY <1>7, <1>8, <2>1 DEF Largest
  <2> QED BY <1>3, <1>6, <2>2
<1> QED BY <1>9, <1>10
-----------------------------------------------------------------------------
(* The inductive invariant.                                                *)

InitInv ==
  pc = "init" => /\ index <= 2 * Total - 1
                 /\ nodeSize = IF index = 0 THEN 2 * Total ELSE NodeSize[index - 1]
                 /\ \A i \in 0 .. index - 1 : longest[i] = NodeSize[i]
                 /\ blocks = {} /\ given = {} /\ zeroed = {}

ExactInv == pc # "init" => \A i \in Settled : Exact(blocks, i, longest[i])

\* Where the walks are: buddyAlloc at a node with room for the piece, then above
\* the piece it has taken, buddyFree below the piece that begins at offset, then
\* above it.
WalkInv ==
  /\ pc \in {"down", "up"} => bytes \in Sizes \ {0}
  /\ pc = "down" => ~Inside(blocks, index) /\ Size(bytes) <= longest[index]
  /\ pc \in {"up", "find"} => offset \in Covers(index)
  /\ pc = "up" => /\ [off |-> offset, len |-> Size(bytes)] \in blocks
                  /\ \A b \in blocks : Covers(index) \subseteq Used(b) => Used(b) = Covers(index)
  /\ pc = "find" => \A b \in blocks : offset \in Used(b) => /\ b.off = offset
                                                           /\ Covers(index) \subseteq Used(b)
  /\ pc = "merge" => ~Inside(blocks, index)

\* What was given to callers are the pieces in use, but for the one that a call
\* is about to hand out or to take back.
Pending(o) == pc \in {"up", "find"} /\ o = offset
GivenInv ==
  /\ \A p \in given : \E b \in blocks : /\ p.ptr = AddressOf(b.off) /\ p.size <= b.len * MinBlock
                                        /\ ~Pending(b.off)
  /\ \A p, q \in given : p.ptr = q.ptr => p = q
  /\ \A b \in blocks : Pending(b.off) \/ \E p \in given : p.ptr = AddressOf(b.off)

ZeroInv == ClearsItsPiece /\ (pc \in {"find", "merge"} => zeroed = {})

IInv == /\ TypeOK /\ InitInv /\ Apart(blocks) /\ ExactInv /\ WalkInv /\ GivenInv /\ ZeroInv

LEMMA InvExact == IInv => LongestIsExact
BY DEF IInv, ExactInv, LongestIsExact, Exact, Largest, Inside, Open

LEMMA SizeFacts ==
  ASSUME NEW b \in Nat \ {0}
  PROVE  /\ Needed(b) \in Nat \ {0} /\ Size(b) = fixSize(Needed(b))
         /\ Size(b) \in Nat \ {0} /\ IsPowerOf2(Size(b))
         /\ b <= Size(b) * MinBlock
<1>1. MinBlock \in Nat \ {0}
  BY HeapAssumption
<1> DEFINE q == (b - 1) \div MinBlock
           r == (b - 1) % MinBlock
           n == Needed(b)
           s == Size(b)
<1>2. q \in Nat /\ r \in 0 .. MinBlock - 1 /\ b - 1 = MinBlock * q + r
  BY <1>1, Z3
<1>3. n = q + 1
  BY DEF Needed
<1> HIDE DEF q, r, n
<1>4. n \in Nat \ {0}
  BY <1>2, <1>3
<1>5. s = IF IsPowerOf2(n) THEN n ELSE fixSize(n)
  BY DEF Size, n
<1>6. fixSize(n) \in n .. 2 * n - 1 /\ IsPowerOf2(fixSize(n)) /\ (IsPowerOf2(n) => fixSize(n) = n)
  BY <1>4, LeastPowerFacts DEF fixSize
<1> HIDE DEF s
<1>7. s = fixSize(n) /\ s \in Nat \ {0} /\ n <= s /\ IsPowerOf2(s)
  BY <1>4, <1>5, <1>6
<1>8. MinBlock * (q + 1) = MinBlock * q + MinBlock
  BY <1>1, <1>2, Z3
<1>9. MinBlock * n <= MinBlock * s /\ MinBlock * s = s * MinBlock
  BY <1>1, <1>4, <1>7, Z3
<1>10. MinBlock * s \in Nat /\ MinBlock * q \in Nat
  BY <1>1, <1>2, <1>7, Z3
<1>11. b <= s * MinBlock
  <2>1. MinBlock * n = MinBlock * q + MinBlock
    BY <1>3, <1>8
  <2>2. b - 1 <= MinBlock * q + MinBlock - 1
    BY <1>1, <1>2, <1>10
  <2> QED BY <1>1, <1>9, <1>10, <2>1, <2>2
<1> QED BY <1>4, <1>7, <1>11 DEF n, s

\* The values that are up to date.
LEMMA SettledFacts ==
  ASSUME IInv
  PROVE  /\ pc \in {"ready", "down", "find", "failed"} => Settled = Index
         /\ pc # "init" => \A i \in Settled : Exact(blocks, i, longest[i])
         /\ \A i \in Index : longest[i] \in Nat
         /\ Apart(blocks)
         /\ pc \in {"down", "up", "find", "merge"} => index \in Index
BY DEF IInv, TypeOK, ExactInv, Settled

LEMMA AboveRoot ==
  ASSUME NEW i \in Index, Covers(0) \subseteq Covers(i)
  PROVE  i = 0
<1>1. NodeSize[0] <= NodeSize[i] /\ NodeSize[i] \in 1 .. Total
  BY RootFacts, SizeWithin, NodeSizeFacts
<1>2. NodeSize[0] = NodeSize[i]
  BY <1>1, RootFacts, TotalFacts
<1> QED BY <1>2, RootFacts, SizeWithin

\* One step of a walk back to the root: the children of the next node are up to date.
LEMMA StepUp ==
  ASSUME IInv, pc \in {"up", "merge"}, index # 0
  PROVE  /\ Parent(index) \in Index /\ Parent(index) # index
         /\ Covers(index) \subseteq Covers(Parent(index))
         /\ NodeSize[Parent(index)] = 2 * NodeSize[index] /\ NodeSize[Parent(index)] # 1
         /\ \A c \in {Left(Parent(index)), Right(Parent(index))} :
              c \in Index /\ c # Parent(index) /\ longest[c] \in Nat /\ Exact(blocks, c, longest[c])
         /\ \A i \in Index : (Covers(Parent(index)) \subseteq Covers(i) => i = Parent(index)) =>
              i = Parent(index) \/ Exact(blocks, i, longest[i])
<1> DEFINE q == Parent(index)
<1>1. index \in Index /\ \A i \in Index : longest[i] \in Nat
  BY SettledFacts
<1>2. /\ q \in Index /\ Covers(index) \subseteq Covers(q) /\ q # index
      /\ NodeSize[q] = 2 * NodeSize[index] /\ NodeSize[q] # 1
      /\ index = Left(q) \/ index = Right(q)
  BY <1>1, InParent
<1> HIDE DEF q
<1>3. /\ Left(q) \in Index /\ Right(q) \in Index
      /\ Covers(Left(q)) \cap Covers(Right(q)) = {}
      /\ Left(q) # q /\ Right(q) # q
  BY <1>2, ChildCovers, ChildrenFacts
<1>4. Covers(index) # {}
  BY <1>1, PieceFacts
<1>5. \A i \in Index : (Covers(index) \subseteq Covers(i) => i = index) => Exact(blocks, i, longest[i])
  BY SettledFacts DEF Settled
<1>6. ASSUME NEW c \in {Left(q), Right(q)} PROVE Exact(blocks, c, longest[c])
  <2>1. Covers(index) \subseteq Covers(c) => c = index
    BY <1>2, <1>3, <1>4, <1>6
  <2> QED BY <1>3, <1>5, <1>6, <2>1
<1>7. ASSUME NEW i \in Index, Covers(q) \subseteq Covers(i) => i = q
      PROVE  i = q \/ Exact(blocks, i, longest[i])
  <2> SUFFICES ASSUME i # q PROVE Exact(blocks, i, longest[i])
    OBVIOUS
  <2>1. Covers(index) \subseteq Covers(i) => i = index
    BY <1>1, <1>7, UpToParent DEF q
  <2> QED BY <1>5, <2>1
<1> QED BY <1>1, <1>2, <1>3, <1>6, <1>7 DEF q
-----------------------------------------------------------------------------
(* buddyInit.                                                              *)

LEMMA InitIInv == Init => IInv
<1> SUFFICES ASSUME Init PROVE IInv
  OBVIOUS
<1>1. TypeOK
  BY TotalFacts DEF Init, TypeOK
<1>2. InitInv
  BY TotalFacts DEF Init, InitInv
<1>3. Apart(blocks)
  BY DEF Init, Apart
<1>4. ExactInv /\ WalkInv /\ GivenInv /\ ZeroInv
  BY DEF Init, ExactInv, WalkInv, GivenInv, ZeroInv, ClearsItsPiece
<1> QED BY <1>1, <1>2, <1>3, <1>4 DEF IInv

\* The size that buddyInit has computed for a node.
LEMMA NextSize ==
  ASSUME NEW i \in Index, NEW s, s = IF i = 0 THEN 2 * Total ELSE NodeSize[i - 1]
  PROVE  NodeSize[i] = IF IsPowerOf2(i + 1) THEN s \div 2 ELSE s
<1>1. CASE i = 0
  BY <1>1, OneIsPower, RootFacts, TotalFacts
<1>2. CASE i # 0
  <2>1. i \in Nat \ {0} /\ i - 1 \in Index /\ i = i - 1 + 1 /\ i + 1 < 2 * Total
    BY <1>2, TotalFacts DEF Index
  <2>2. s = NodeSize[i - 1]
    BY <1>2
  <2>3. s \in Nat \ {0} /\ IsPowerOf2(s)
    BY <2>1, <2>2, NodeSizeFacts, PieceFacts
  <2>4. PICK m \in Nat \ {0} : Total = s * m /\ IsPowerOf2(m) /\ m <= i /\ i < 2 * m
    BY <2>1, <2>2, NodeAt
  <2> DEFINE n == i + 1
  <2>5. n \in Nat \ {0} /\ m < n /\ n <= 2 * m /\ n < 2 * Total
    BY <2>1, <2>4
  <2>6. CASE IsPowerOf2(n)
    <3> HIDE DEF n
    <3>1. n = 2 * m
      BY <2>4, <2>5, <2>6, NextPower
    <3>2. s * n = 2 * Total
      BY <2>3, <2>4, <3>1, Z3
    <3>3. s # 1
      BY <2>5, <3>2
    <3>4. PICK h \in Nat \ {0} : s = 2 * h /\ IsPowerOf2(h)
      BY <2>3, <3>3, HalfIsPower
    <3>5. h * n = Total
      <4>1. 2 * (h * n) = 2 * Total
        BY <2>5, <3>2, <3>4, Z3
      <4>2. h * n \in Nat
        BY <2>5, <3>4, Z3
      <4> QED BY <4>1, <4>2, TotalFacts
    <3>6. Total <= h * (i + 1) /\ h * (i + 1) < 2 * Total
      BY <3>5, TotalFacts DEF n
    <3>7. NodeSize[i] = h
      BY <3>4, <3>6, SizeIs
    <3> QED BY <2>6, <3>4, <3>7 DEF n
  <2>7. CASE ~IsPowerOf2(n)
    <3> HIDE DEF n
    <3>1. n # 2 * m
      BY <2>4, <2>7, DoubleIsPower
    <3>2. n < 2 * m
      BY <2>5, <3>1
    <3>3. s * m <= s * n /\ s * n < s * (2 * m)
      BY <2>3, <2>4, <2>5, <3>2, Z3
    <3>4. s * (2 * m) = 2 * Total
      BY <2>3, <2>4, Z3
    <3>5. Total <= s * (i + 1) /\ s * (i + 1) < 2 * Total
      BY <2>4, <3>3, <3>4 DEF n
    <3>6. NodeSize[i] = s
      BY <2>3, <3>5, SizeIs
    <3> QED BY <2>7, <3>6 DEF n
  <2> QED BY <2>6, <2>7
<1> QED BY <1>1, <1>2

LEMMA InitNodeKeeps == IInv /\ InitNode => IInv'
<1> SUFFICES ASSUME IInv, InitNode PROVE IInv'
  OBVIOUS
<1>1. /\ pc = "init" /\ pc' = "init" /\ index \in Index /\ index' = index + 1
      /\ nodeSize' = IF IsPowerOf2(index + 1) THEN nodeSize \div 2 ELSE nodeSize
      /\ longest' = [longest EXCEPT ![index] = nodeSize']
      /\ UNCHANGED <<offset, bytes, zeroed, blocks, given, asked>>
  BY TotalFacts DEF IInv, TypeOK, InitNode, Index
<1>2. TypeOK /\ InitInv /\ Apart(blocks)
  BY DEF IInv
<1>3. nodeSize = (IF index = 0 THEN 2 * Total ELSE NodeSize[index - 1]) /\ \A i \in 0 .. index - 1 : longest[i] = NodeSize[i]
  BY <1>1, <1>2 DEF InitInv
<1>4. nodeSize' = NodeSize[index]
  BY <1>1, <1>3, NextSize
<1>5. NodeSize[index] \in 1 .. Total
  BY <1>1, NodeSizeFacts
<1>6. TypeOK'
  BY <1>1, <1>2, <1>4, <1>5, TotalFacts DEF TypeOK, Index
<1>7. InitInv'
  <2>1. index' - 1 = index /\ index' # 0 /\ index' <= 2 * Total - 1
    BY <1>1, TotalFacts DEF Index
  <2>2. ASSUME NEW i \in 0 .. index' - 1 PROVE longest'[i] = NodeSize[i]
    <3>1. i \in Index /\ (i = index \/ i \in 0 .. index - 1)
      BY <1>1, <2>1, TotalFacts DEF Index
    <3> QED BY <1>1, <1>2, <1>3, <1>4, <3>1 DEF TypeOK
  <2> QED BY <1>1, <1>2, <1>4, <2>1, <2>2 DEF InitInv
<1>8. (Apart(blocks) /\ ExactInv /\ WalkInv /\ GivenInv /\ ZeroInv)'
  BY <1>1, <1>2 DEF ExactInv, WalkInv, InitInv, GivenInv, ZeroInv, ClearsItsPiece
<1> QED BY <1>6, <1>7, <1>8 DEF IInv

LEMMA InitDoneKeeps == IInv /\ InitDone => IInv'
<1> SUFFICES ASSUME IInv, InitDone PROVE IInv'
  OBVIOUS
<1>1. /\ pc = "init" /\ pc' = "ready" /\ index >= 2 * Total - 1
      /\ index' = 0 /\ nodeSize' = 0 /\ offset' = 0 /\ bytes' = 0
      /\ UNCHANGED <<longest, zeroed, blocks, given, asked>>
  BY DEF InitDone, Return
<1>2. TypeOK /\ InitInv /\ Apart(blocks)
  BY DEF IInv
<1>3. blocks = {} /\ given = {} /\ zeroed = {} /\ \A i \in Index : longest[i] = NodeSize[i]
  BY <1>1, <1>2, TotalFacts DEF InitInv, TypeOK, Index
<1>4. TypeOK'
  BY <1>1, <1>2, TotalFacts DEF TypeOK
<1>5. ExactInv'
  <2>1. ASSUME NEW i \in Index PROVE Exact(blocks, i, longest[i])
    <3>1. Open(blocks, i)
      BY <1>3 DEF Open
    <3> QED BY <1>3, <3>1, OpenIsFull
  <2>2. Settled' = Index
    BY <1>1 DEF Settled
  <2> QED BY <1>1, <2>1, <2>2 DEF ExactInv
<1>6. (InitInv /\ Apart(blocks) /\ WalkInv /\ GivenInv /\ ZeroInv)'
  BY <1>1, <1>2, <1>3 DEF WalkInv, InitInv, GivenInv, ZeroInv, ClearsItsPiece
<1> QED BY <1>4, <1>5, <1>6 DEF IInv
-----------------------------------------------------------------------------
(* buddyAlloc.                                                             *)

LEMMA RootIsFree ==
  ASSUME NEW B, Apart(B), NEW v \in Nat \ {0}, Exact(B, 0, v)
  PROVE  ~Inside(B, 0)
<1> SUFFICES ASSUME NEW b \in B, Covers(0) \subseteq Used(b) PROVE FALSE
  BY DEF Inside
<1>1. PICK k \in Index : Used(b) = Covers(k) /\ b.len = NodeSize[k]
  BY PieceOf
<1>2. k = 0
  BY <1>1, AboveRoot
<1> QED BY <1>1, <1>2 DEF Exact

LEMMA AllocKeeps ==
  ASSUME IInv, NEW b \in Sizes, kalloc(b)
  PROVE  IInv'
<1>1. /\ pc = "ready" /\ pc' = "down" /\ b \in Nat \ {0} /\ longest[0] >= Size(b)
      /\ bytes' = b /\ index' = 0 /\ nodeSize' = Total
      /\ UNCHANGED <<longest, offset, zeroed, blocks, given, asked>>
  BY HeapAssumption DEF kalloc
<1>2. TypeOK /\ Apart(blocks) /\ Settled = Index /\ \A i \in Index : longest[i] \in Nat /\ Exact(blocks, i, longest[i])
  BY <1>1, SettledFacts DEF IInv
<1>3. Size(b) \in Nat \ {0}
  BY <1>1, SizeFacts
<1>4. ~Inside(blocks, 0)
  BY <1>1, <1>2, <1>3, RootIsFree, RootFacts
<1>5. TypeOK'
  BY <1>1, <1>2, RootFacts, TotalFacts DEF TypeOK
<1>6. ExactInv'
  <2>1. Settled' = Index
    BY <1>1 DEF Settled
  <2> QED BY <1>1, <1>2, <2>1 DEF ExactInv
<1>7. WalkInv'
  BY <1>1, <1>4 DEF WalkInv
<1>8. (InitInv /\ Apart(blocks) /\ GivenInv /\ ZeroInv)'
  <2>1. GivenInv /\ ZeroInv
    BY DEF IInv
  <2> QED BY <1>1, <1>2, <2>1 DEF InitInv, GivenInv, Pending, ZeroInv, ClearsItsPiece
<1> QED BY <1>5, <1>6, <1>7, <1>8 DEF IInv

LEMMA PanicKeeps ==
  ASSUME IInv, NEW b \in Sizes, Panic(b)
  PROVE  IInv'
<1>1. /\ pc = "ready" /\ pc' = "failed"
      /\ UNCHANGED <<longest, index, nodeSize, offset, bytes, zeroed, blocks, given>>
  BY DEF Panic
<1>2. TypeOK /\ Apart(blocks) /\ Settled = Index /\ ExactInv /\ GivenInv /\ ZeroInv
  BY <1>1, SettledFacts DEF IInv
<1>3. TypeOK'
  BY <1>1, <1>2 DEF TypeOK
<1>4. ExactInv'
  <2>1. Settled' = Index
    BY <1>1 DEF Settled
  <2> QED BY <1>1, <1>2, <2>1 DEF ExactInv
<1>5. (InitInv /\ Apart(blocks) /\ WalkInv /\ GivenInv /\ ZeroInv)'
  BY <1>1, <1>2 DEF InitInv, WalkInv, GivenInv, Pending, ZeroInv, ClearsItsPiece
<1> QED BY <1>3, <1>4, <1>5 DEF IInv

\* The walk down stays at nodes that have room.
LEMMA DescendKeeps == IInv /\ Descend => IInv'
<1> SUFFICES ASSUME IInv, Descend PROVE IInv'
  OBVIOUS
<1> DEFINE size == Size(bytes)
           c == PickChild(index, size)
<1>1. /\ pc = "down" /\ pc' = "down" /\ nodeSize # size
      /\ index' = c /\ nodeSize' = nodeSize \div 2
      /\ UNCHANGED <<longest, offset, bytes, zeroed, blocks, given, asked>>
  BY DEF Descend
<1>2. TypeOK /\ Apart(blocks) /\ Settled = Index /\ \A i \in Index : longest[i] \in Nat /\ Exact(blocks, i, longest[i])
  BY <1>1, SettledFacts DEF IInv
<1>3. index \in Index /\ nodeSize = NodeSize[index]
  BY <1>1, <1>2 DEF TypeOK
<1>4. bytes \in Nat \ {0} /\ bytes \in Sizes /\ ~Inside(blocks, index) /\ size <= longest[index]
  BY <1>1, HeapAssumption DEF IInv, WalkInv
<1>5. size \in Nat \ {0} /\ IsPowerOf2(size)
  BY <1>4, SizeFacts
<1> HIDE DEF size
<1>6. size # NodeSize[index]
  BY <1>1, <1>3
<1>7. NodeSize[index] # 1
  <2>1. Largest(blocks, index, longest[index])
    BY <1>2, <1>3, <1>4 DEF Exact
  <2>2. longest[index] <= NodeSize[index]
    BY <1>2, <1>3, <2>1, LargestIsSmall
  <2> QED BY <1>2, <1>3, <1>4, <1>5, <1>6, <2>2
<1>8. /\ Left(index) \in Index /\ Right(index) \in Index
      /\ NodeSize[index] = 2 * NodeSize[Left(index)] /\ NodeSize[Right(index)] = NodeSize[Left(index)]
  BY <1>3, <1>7, ChildCovers
<1>a. size <= longest[Left(index)] \/ size <= longest[Right(index)]
  BY <1>2, <1>3, <1>4, <1>5, <1>6, <1>8, ChildHasRoom
<1>9. c \in {Left(index), Right(index)} /\ size <= longest[c]
  BY <1>2, <1>5, <1>8, <1>a DEF PickChild
<1>10. c \in Index /\ c # 0 /\ Parent(c) = index /\ NodeSize[c] = nodeSize \div 2 /\ longest[c] \in Nat \ {0}
  <2>1. c \in Index /\ longest[c] \in Nat
    BY <1>2, <1>8, <1>9
  <2>2. NodeSize[Left(index)] \in Nat
    BY <1>8, PieceFacts
  <2> QED BY <1>3, <1>5, <1>7, <1>8, <1>9, <2>1, <2>2, ChildrenFacts
<1> HIDE DEF c
<1>11. ~Inside(blocks, c)
  BY <1>2, <1>3, <1>4, <1>10, ChildIsLargest
<1>12. TypeOK'
  <2>1. nodeSize' \in Nat
    BY <1>1, <1>10, PieceFacts
  <2> QED BY <1>1, <1>2, <1>10, <2>1 DEF TypeOK, Index
<1>13. ExactInv'
  <2>1. Settled' = Index
    BY <1>1 DEF Settled
  <2> QED BY <1>1, <1>2, <2>1 DEF ExactInv
<1>14. WalkInv'
  BY <1>1, <1>4, <1>9, <1>11 DEF WalkInv, size
<1>15. (InitInv /\ Apart(blocks) /\ GivenInv /\ ZeroInv)'
  <2>1. GivenInv /\ ZeroInv
    BY DEF IInv
  <2> QED BY <1>1, <1>2, <2>1 DEF InitInv, GivenInv, Pending, ZeroInv, ClearsItsPiece
<1> QED BY <1>12, <1>13, <1>14, <1>15 DEF IInv

LEMMA TakeKeeps == IInv /\ Take => IInv'
<1> SUFFICES ASSUME IInv, Take PROVE IInv'
  OBVIOUS
<1>1. /\ pc = "down" /\ pc' = "up" /\ nodeSize = Size(bytes)
      /\ longest' = [longest EXCEPT ![index] = 0]
      /\ offset' = Offset(index, nodeSize)
      /\ blocks' = blocks \cup {[off |-> offset', len |-> nodeSize]}
      /\ UNCHANGED <<index, nodeSize, bytes, zeroed, given>>
  BY DEF Take
<1>2. TypeOK /\ Apart(blocks) /\ Settled = Index /\ \A i \in Index : longest[i] \in Nat /\ Exact(blocks, i, longest[i])
  BY <1>1, SettledFacts DEF IInv
<1>3. index \in Index /\ nodeSize = NodeSize[index] /\ nodeSize \in Nat \ {0}
  BY <1>1, <1>2, PieceFacts DEF TypeOK
<1>4. bytes \in Sizes \ {0} /\ ~Inside(blocks, index) /\ nodeSize <= longest[index]
  BY <1>1 DEF IInv, WalkInv
<1>5. Open(blocks, index)
  <2>1. Largest(blocks, index, longest[index])
    BY <1>2, <1>3, <1>4 DEF Exact
  <2>2. longest[index] = NodeSize[index]
    BY <1>2, <1>3, <1>4, <2>1, LargestIsSmall
  <2> QED BY <1>3, <2>1, <2>2, FullIsOpen
<1>6. offset' = First(index) /\ blocks' = blocks \cup {Piece(index)}
  BY <1>1, <1>3 DEF First, Piece
<1>7. /\ Apart(blocks') /\ Exact(blocks', index, 0) /\ Piece(index) \notin blocks
      /\ \A k \in Index, v \in Nat :
           Exact(blocks, k, v) /\ ~(Covers(index) \subseteq Covers(k)) => Exact(blocks', k, v)
  BY <1>2, <1>3, <1>5, <1>6, TakeIsExact
<1>8. First(index) \in Covers(index) /\ First(index) \in 0 .. Total - 1 /\ NodeSize[index] \in 1 .. Total
  BY <1>3, CoversFacts, NodeInHeap
<1>9. TypeOK'
  BY <1>1, <1>2, <1>3, <1>6, <1>8, TotalFacts DEF TypeOK, Piece
<1>10. ExactInv'
  <2> SUFFICES ASSUME NEW i \in Index, Covers(index) \subseteq Covers(i) => i = index
               PROVE  Exact(blocks', i, longest'[i])
    BY <1>1 DEF ExactInv, Settled
  <2>1. CASE i = index
    BY <1>1, <1>2, <1>7, <2>1 DEF TypeOK
  <2>2. CASE i # index
    BY <1>1, <1>2, <1>7, <2>2 DEF TypeOK
  <2> QED BY <2>1, <2>2
<1>11. WalkInv'
  <2>1. \A b \in blocks' : Covers(index) \subseteq Used(b) => Used(b) = Covers(index)
    BY <1>3, <1>5, <1>6, PieceFacts DEF Open
  <2>2. [off |-> offset', len |-> Size(bytes)] \in blocks'
    BY <1>1
  <2> QED BY <1>1, <1>4, <1>6, <1>8, <2>1, <2>2 DEF WalkInv
<1>12. GivenInv'
  <2>1. GivenInv /\ ~\E o : Pending(o)
    BY <1>1 DEF IInv, Pending
  <2>2. ASSUME NEW b \in blocks PROVE b.off # offset'
    <3>1. PICK k \in Index : Used(b) = Covers(k) /\ b.off = First(k)
      BY <1>2, PieceOf
    <3>2. First(k) \in Covers(k)
      BY CoversFacts
    <3> QED BY <1>5, <1>6, <1>8, <3>1, <3>2 DEF Open
  <2>3. \A o : Pending(o)' <=> o = offset'
    BY <1>1 DEF Pending
  <2>4. \A b \in blocks' : b \in blocks \/ b.off = offset'
    BY <1>1
  <2> QED BY <1>1, <2>1, <2>2, <2>3, <2>4 DEF GivenInv
<1>13. (InitInv /\ ZeroInv)'
  <2>1. ZeroInv
    BY DEF IInv
  <2> QED BY <1>1, <2>1 DEF InitInv, ZeroInv, ClearsItsPiece
<1> QED BY <1>7, <1>9, <1>10, <1>11, <1>12, <1>13 DEF IInv

LEMMA AscendKeeps == IInv /\ Ascend => IInv'
<1> SUFFICES ASSUME IInv, Ascend PROVE IInv'
  OBVIOUS
<1> DEFINE q == Parent(index)
<1>1. /\ pc = "up" /\ pc' = "up" /\ index # 0 /\ index' = q
      /\ longest' = [longest EXCEPT ![q] = Larger(longest[Left(q)], longest[Right(q)])]
      /\ UNCHANGED <<nodeSize, offset, bytes, zeroed, blocks, given, asked>>
  BY DEF Ascend
<1>2. TypeOK /\ Apart(blocks) /\ index \in Index
  BY <1>1, SettledFacts DEF IInv
<1>3. /\ q \in Index /\ q # index /\ Covers(index) \subseteq Covers(q) /\ NodeSize[q] # 1
      /\ \A c \in {Left(q), Right(q)} :
           c \in Index /\ c # q /\ longest[c] \in Nat /\ Exact(blocks, c, longest[c])
      /\ \A i \in Index : (Covers(q) \subseteq Covers(i) => i = q) => i = q \/ Exact(blocks, i, longest[i])
  BY <1>1, StepUp
<1> HIDE DEF q
<1>4. /\ offset \in Covers(index) /\ [off |-> offset, len |-> Size(bytes)] \in blocks
      /\ bytes \in Sizes \ {0}
      /\ \A b \in blocks : Covers(index) \subseteq Used(b) => Used(b) = Covers(index)
  BY <1>1 DEF IInv, WalkInv
<1>5. ~Inside(blocks, q)
  BY <1>2, <1>3, <1>4, SameCovers DEF Inside
<1>6. ~Open(blocks, q)
  <2> DEFINE new == [off |-> offset, len |-> Size(bytes)]
  <2>1. bytes \in Nat \ {0} /\ offset \in Nat
    BY <1>2, <1>4, HeapAssumption DEF TypeOK
  <2>2. offset \in Used(new)
    BY <2>1, SizeFacts DEF Used, Heaps!Units
  <2> QED BY <1>3, <1>4, <2>2 DEF Open
<1>7. Exact(blocks, q, longest'[q])
  BY <1>1, <1>2, <1>3, <1>5, <1>6, PullIsExact DEF TypeOK
<1>8. TypeOK'
  <2>1. Larger(longest[Left(q)], longest[Right(q)]) \in 0 .. Total
    BY <1>2, <1>3 DEF TypeOK, Larger
  <2> QED BY <1>1, <1>2, <1>3, <2>1 DEF TypeOK, Index
<1>9. ExactInv'
  <2> SUFFICES ASSUME NEW i \in Index, Covers(q) \subseteq Covers(i) => i = q
               PROVE  Exact(blocks, i, longest'[i])
    BY <1>1 DEF ExactInv, Settled
  <2>1. CASE i # q
    BY <1>1, <1>2, <1>3, <2>1 DEF TypeOK
  <2> QED BY <1>7, <2>1
<1>10. WalkInv'
  <2>1. offset \in Covers(q) /\ \A b \in blocks : ~(Covers(q) \subseteq Used(b))
    BY <1>3, <1>4, <1>5 DEF Inside
  <2> QED BY <1>1, <1>4, <2>1 DEF WalkInv
<1>11. (InitInv /\ Apart(blocks) /\ GivenInv /\ ZeroInv)'
  <2>1. GivenInv /\ ZeroInv
    BY DEF IInv
  <2> QED BY <1>1, <1>2, <2>1 DEF InitInv, GivenInv, Pending, ZeroInv, ClearsItsPiece
<1> QED BY <1>8, <1>9, <1>10, <1>11 DEF IInv

\* Addresses tell the blocks apart.
LEMMA AddressFacts ==
  ASSUME NEW o \in Nat
  PROVE  /\ AddressOf(o) \in Nat
         /\ (AddressOf(o) - HEAP) \div MinBlock = o
         /\ \A k \in Nat : AddressOf(o) = AddressOf(k) => o = k
<1>1. MinBlock \in Nat \ {0} /\ HEAP \in Nat
  BY HeapAssumption
<1>2. ASSUME NEW k \in Nat PROVE k * MinBlock \in Nat /\ (k * MinBlock) \div MinBlock = k
  BY <1>1, Z3
<1>3. ASSUME NEW k \in Nat PROVE AddressOf(k) \in Nat /\ AddressOf(k) - HEAP = k * MinBlock
  <2> DEFINE x == k * MinBlock
  <2>1. AddressOf(k) = HEAP + x
    BY DEF AddressOf
  <2>2. x \in Nat
    BY <1>2
  <2> HIDE DEF x
  <2>3. AddressOf(k) \in Nat /\ AddressOf(k) - HEAP = x
    BY <1>1, <2>1, <2>2
  <2> QED BY <2>3 DEF x
<1>4. (AddressOf(o) - HEAP) \div MinBlock = o
  BY <1>2, <1>3
<1>5. ASSUME NEW k \in Nat, AddressOf(o) = AddressOf(k) PROVE o = k
  <2>1. (AddressOf(k) - HEAP) \div MinBlock = k
    BY <1>2, <1>3
  <2> QED BY <1>4, <1>5, <2>1
<1> QED BY <1>3, <1>4, <1>5

LEMMA ClearKeeps == IInv /\ Clear => IInv'
<1> SUFFICES ASSUME IInv, Clear PROVE IInv'
  OBVIOUS
<1> DEFINE new == [off |-> offset, len |-> Size(bytes)]
           p == [ptr |-> AddressOf(offset), size |-> bytes]
<1>1. /\ pc = "up" /\ pc' = "ready" /\ index = 0
      /\ zeroed' = offset .. offset + fixSize(Needed(bytes)) - 1
      /\ given' = given \cup {p}
      /\ index' = 0 /\ nodeSize' = 0 /\ offset' = 0 /\ bytes' = 0
      /\ UNCHANGED <<longest, blocks, asked>>
  BY DEF Clear, Return
<1>2. TypeOK /\ Apart(blocks) /\ GivenInv
  BY DEF IInv
<1>3. new \in blocks /\ bytes \in Nat \ {0} /\ offset \in 0 .. Total - 1
  BY <1>1, <1>2, HeapAssumption DEF IInv, WalkInv, TypeOK
<1>4. Used(new) = zeroed' /\ bytes <= new.len * MinBlock /\ new.off = offset
  BY <1>1, <1>3, SizeFacts DEF Used, Heaps!Units
<1>5. zeroed' \subseteq 0 .. Total - 1
  <2>1. PICK k \in Index : Used(new) = Covers(k)
    BY <1>2, <1>3, PieceOf
  <2>2. Covers(k) \subseteq 0 .. Total - 1
    BY NodeInHeap, TotalFacts DEF Covers
  <2> QED BY <1>4, <2>1, <2>2
<1>6. AddressOf(offset) \in Nat
  BY <1>3, AddressFacts
<1>7. TypeOK'
  <2>1. p \in [ptr : Nat, size : Nat \ {0}]
    BY <1>3, <1>6
  <2> HIDE DEF p
  <2> QED BY <1>1, <1>2, <1>5, <2>1, TotalFacts DEF TypeOK
<1>8. ExactInv'
  <2>1. \A i \in Index : i \in Settled
    BY <1>1, AboveRoot DEF Settled
  <2>2. \A i \in Index : Exact(blocks, i, longest[i])
    BY <1>1, <2>1, SettledFacts
  <2>3. Settled' = Index
    BY <1>1 DEF Settled
  <2> QED BY <1>1, <2>2, <2>3 DEF ExactInv
<1>9. WalkInv'
  BY <1>1 DEF WalkInv
<1>10. GivenInv'
  <2>1. \A o : Pending(o) <=> o = offset
    BY <1>1 DEF Pending
  <2>2. \A o : ~Pending(o)'
    BY <1>1 DEF Pending
  <2>3. ASSUME NEW r \in given PROVE r.ptr # p.ptr
    <3>1. PICK b \in blocks : r.ptr = AddressOf(b.off) /\ b.off # offset
      BY <1>2, <2>1, <2>3 DEF GivenInv
    <3>2. b.off \in Nat
      BY <1>2 DEF TypeOK
    <3> QED BY <1>3, <3>1, <3>2, AddressFacts
  <2>4. \A r \in given' : \E b \in blocks : r.ptr = AddressOf(b.off) /\ r.size <= b.len * MinBlock
    <3>1. p.ptr = AddressOf(new.off) /\ p.size <= new.len * MinBlock
      BY <1>4
    <3> HIDE DEF p, new
    <3> QED BY <1>1, <1>2, <1>3, <3>1 DEF GivenInv
  <2>5. \A r, s \in given' : r.ptr = s.ptr => r = s
    <3> HIDE DEF p
    <3> QED BY <1>1, <1>2, <2>3 DEF GivenInv
  <2>6. ASSUME NEW b \in blocks PROVE \E r \in given' : r.ptr = AddressOf(b.off)
    <3>1. CASE b.off = offset
      <4>1. p \in given' /\ p.ptr = AddressOf(offset)
        BY <1>1
      <4> HIDE DEF p
      <4> QED BY <3>1, <4>1
    <3>2. CASE b.off # offset
      BY <1>1, <1>2, <2>1, <3>2 DEF GivenInv
    <3> QED BY <3>1, <3>2
  <2> QED BY <1>1, <2>2, <2>4, <2>5, <2>6 DEF GivenInv
<1>11. ZeroInv'
  BY <1>1, <1>3, <1>4 DEF ZeroInv, ClearsItsPiece
<1>12. (InitInv /\ Apart(blocks))'
  BY <1>1, <1>2 DEF InitInv
<1> QED BY <1>7, <1>8, <1>9, <1>10, <1>11, <1>12 DEF IInv
-----------------------------------------------------------------------------
(* buddyFree.                                                              *)

LEMMA BlockInHeap ==
  ASSUME NEW o \in 0 .. Total - 1
  PROVE  InHeap(AddressOf(o))
<1>1. MinBlock \in Nat \ {0} /\ HEAP \in Nat /\ Total \in Nat \ {0}
  BY HeapAssumption
<1>2. o * MinBlock >= 0 /\ o * MinBlock <= (Total - 1) * MinBlock
  BY <1>1, Z3
<1>3. (Total - 1) * MinBlock = Total * MinBlock - MinBlock
  BY <1>1, Z3
<1>4. o * MinBlock \in Int /\ Total * MinBlock \in Int
  BY <1>1
<1>5. HEAP <= HEAP + o * MinBlock /\ HEAP + o * MinBlock <= HEAP + Total * MinBlock - MinBlock
  BY <1>1, <1>2, <1>3, <1>4
<1> QED BY <1>5 DEF InHeap, AddressOf

LEMMA ForeignFacts ==
  ASSUME NEW ptr \in Foreign
  PROVE  ~InHeap(ptr)
<1>1. MinBlock \in Nat \ {0} /\ HEAP \in Nat /\ Total \in Nat \ {0} /\ Total * MinBlock \in Nat
      /\ ptr \in Nat /\ ~(ptr \in HEAP .. HEAP + Total * MinBlock - 1)
  <2>1. Total * MinBlock \in Nat
    BY HeapAssumption, Z3
  <2> QED BY <2>1, HeapAssumption
<1> QED BY <1>1 DEF InHeap

\* Where a pointer that is freed leads: to the first block of a piece in use, or
\* to a block that is not in use.
LEMMA PointerFacts ==
  ASSUME IInv, pc = "ready", NEW ptr \in {p.ptr : p \in given} \cup Foreign \cup Vacant
  PROVE  /\ InHeap(ptr) => \E o \in 0 .. Total - 1 :
                             /\ ptr = AddressOf(o)
                             /\ \A b \in blocks : o \in Used(b) => b.off = o
         /\ ~InHeap(ptr) => {p \in given : p.ptr # ptr} = given
<1>1. TypeOK /\ Apart(blocks) /\ GivenInv
  BY DEF IInv
<1>2. ASSUME NEW p \in given
      PROVE  \E b \in blocks : p.ptr = AddressOf(b.off) /\ b.off \in 0 .. Total - 1
  BY <1>1 DEF GivenInv, TypeOK
<1>3. CASE ptr \in {p.ptr : p \in given}
  <2>1. PICK b \in blocks : ptr = AddressOf(b.off) /\ b.off \in 0 .. Total - 1
    BY <1>2, <1>3
  <2>2. PICK i \in Index : Used(b) = Covers(i) /\ b.off = First(i)
    BY <1>1, PieceOf
  <2>3. b.off \in Used(b)
    BY <2>2, CoversFacts
  <2>4. \A c \in blocks : b.off \in Used(c) => c = b
    BY <1>1, <2>3 DEF Apart
  <2>5. \A c \in blocks : b.off \in Used(c) => c.off = b.off
    BY <2>4
  <2>6. InHeap(ptr)
    BY <2>1, BlockInHeap
  <2> QED BY <2>1, <2>5, <2>6
<1>4. CASE ptr \in Vacant
  <2>1. PICK o \in 0 .. Total - 1 : ptr = AddressOf(o) /\ \A b \in blocks : o \notin Used(b)
    BY <1>4 DEF Vacant
  <2> QED BY <2>1, BlockInHeap
<1>5. CASE ptr \in Foreign
  <2>1. ~InHeap(ptr)
    BY <1>5, ForeignFacts
  <2>2. ASSUME NEW p \in given PROVE p.ptr # ptr
    BY <1>2, <2>1, BlockInHeap
  <2> QED BY <2>1, <2>2
<1> QED BY <1>3, <1>4, <1>5

LEMMA FreeKeeps ==
  ASSUME IInv, NEW ptr \in {p.ptr : p \in given} \cup Foreign \cup Vacant, kfree(ptr)
  PROVE  IInv'
<1>1. /\ pc = "ready" /\ given' = {p \in given : p.ptr # ptr} /\ zeroed' = {}
      /\ UNCHANGED <<longest, bytes, blocks, asked>>
  BY DEF kfree
<1>2. /\ TypeOK /\ Apart(blocks) /\ GivenInv
      /\ \A i \in Index : Exact(blocks, i, longest[i])
  BY <1>1, SettledFacts DEF IInv
<1>3. (InitInv /\ Apart(blocks) /\ ZeroInv)'
  <2>1. pc' \in {"ready", "find"}
    BY <1>1 DEF kfree
  <2> QED BY <1>1, <1>2, <2>1 DEF InitInv, ZeroInv, ClearsItsPiece
<1>4. ExactInv'
  <2>1. Settled' = Index
    BY <1>1 DEF Settled, kfree
  <2> QED BY <1>1, <1>2, <2>1 DEF ExactInv
<1>5. CASE ~InHeap(ptr)
  <2>1. UNCHANGED <<pc, index, nodeSize, offset>> /\ given' = given
    BY <1>1, <1>5, PointerFacts DEF kfree
  <2>2. TypeOK'
    BY <1>1, <1>2, <2>1 DEF TypeOK
  <2>3. (WalkInv /\ GivenInv)'
    BY <1>1, <1>2, <2>1 DEF WalkInv, GivenInv, Pending
  <2> QED BY <1>3, <1>4, <2>2, <2>3 DEF IInv
<1>6. CASE InHeap(ptr)
  <2>1. PICK o \in 0 .. Total - 1 :
          /\ ptr = AddressOf(o)
          /\ \A b \in blocks : o \in Used(b) => b.off = o
    BY <1>1, <1>6, PointerFacts
  <2>2. pc' = "find" /\ offset' = o /\ index' = o + Total - 1 /\ nodeSize' = 1
    <3>1. (ptr - HEAP) \div MinBlock = o
      BY <2>1, AddressFacts
    <3> QED BY <1>6, <3>1 DEF kfree
  <2>3. index' \in Index /\ nodeSize' = NodeSize[index'] /\ Covers(index') = {o}
    BY <2>2, LeafFacts DEF Covers
  <2>4. TypeOK'
    BY <1>1, <1>2, <2>2, <2>3, TotalFacts DEF TypeOK, Index
  <2>5. WalkInv'
    BY <1>1, <2>1, <2>2, <2>3 DEF WalkInv
  <2>6. GivenInv'
    <3>1. \A x : Pending(x)' <=> x = o
      BY <2>2 DEF Pending
    <3>2. \A b \in blocks : b.off \in Nat /\ (AddressOf(b.off) = ptr <=> b.off = o)
      BY <1>2, <2>1, AddressFacts DEF TypeOK
    <3>3. \A p \in given' : p \in given /\ p.ptr # ptr
      BY <1>1
    <3>4. \A p \in given : p.ptr # ptr => p \in given'
      BY <1>1
    <3>5. ASSUME NEW p \in given'
          PROVE  \E b \in blocks : /\ p.ptr = AddressOf(b.off) /\ p.size <= b.len * MinBlock
                                   /\ b.off # o
      BY <1>2, <3>2, <3>3 DEF GivenInv
    <3>6. ASSUME NEW b \in blocks
          PROVE  b.off = o \/ \E p \in given' : p.ptr = AddressOf(b.off)
      BY <1>1, <1>2, <3>2, <3>4 DEF GivenInv, Pending
    <3>7. \A p, r \in given' : p.ptr = r.ptr => p = r
      BY <1>2, <3>3 DEF GivenInv
    <3> QED BY <1>1, <3>1, <3>5, <3>6, <3>7 DEF GivenInv
  <2> QED BY <1>3, <1>4, <2>4, <2>5, <2>6 DEF IInv
<1> QED BY <1>5, <1>6

\* What the walk from the leaf has found.
LEMMA FindFacts ==
  ASSUME IInv, pc = "find"
  PROVE  /\ TypeOK /\ Apart(blocks) /\ GivenInv /\ zeroed = {}
         /\ index \in Index /\ nodeSize = NodeSize[index]
         /\ offset \in Covers(index) /\ offset \in 0 .. Total - 1
         /\ \A i \in Index : longest[i] \in Nat /\ Exact(blocks, i, longest[i])
         /\ \A b \in blocks : offset \in Used(b) => b.off = offset /\ Covers(index) \subseteq Used(b)
         /\ \A b \in blocks : b.off = offset => offset \in Used(b)
<1>1. TypeOK /\ Apart(blocks) /\ GivenInv /\ WalkInv /\ ZeroInv
  BY DEF IInv
<1>2. ASSUME NEW b \in blocks PROVE b.off \in Used(b)
  <2>1. PICK k \in Index : Used(b) = Covers(k) /\ b.off = First(k)
    BY <1>1, PieceOf
  <2> QED BY <2>1, CoversFacts
<1>3. \A i \in Index : longest[i] \in Nat /\ Exact(blocks, i, longest[i])
  BY SettledFacts
<1> QED BY <1>1, <1>2, <1>3 DEF TypeOK, WalkInv, ZeroInv

LEMMA FindKeeps == IInv /\ Find => IInv'
<1> SUFFICES ASSUME IInv, Find PROVE IInv'
  OBVIOUS
<1> DEFINE q == Parent(index)
<1>1. /\ pc = "find" /\ pc' = "find" /\ longest[index] # 0 /\ index # 0
      /\ index' = q /\ nodeSize' = 2 * nodeSize
      /\ UNCHANGED <<longest, offset, bytes, zeroed, blocks, given, asked>>
  BY DEF Find
<1>2. /\ TypeOK /\ Apart(blocks) /\ GivenInv /\ zeroed = {}
      /\ index \in Index /\ nodeSize = NodeSize[index] /\ offset \in Covers(index)
      /\ \A i \in Index : longest[i] \in Nat /\ Exact(blocks, i, longest[i])
      /\ \A b \in blocks : offset \in Used(b) => b.off = offset /\ Covers(index) \subseteq Used(b)
  BY <1>1, FindFacts
<1>3. q \in Index /\ Covers(index) \subseteq Covers(q) /\ NodeSize[q] = 2 * nodeSize
  BY <1>1, <1>2, InParent
<1>4. ASSUME NEW b \in blocks, offset \in Used(b) PROVE Covers(q) \subseteq Used(b)
  <2>1. PICK k \in Index : Used(b) = Covers(k) /\ b.len = NodeSize[k]
    BY <1>2, PieceOf
  <2>2. Covers(index) \subseteq Covers(k)
    BY <1>2, <1>4, <2>1
  <2>3. index # k
    BY <1>1, <1>2, <1>4, <2>1 DEF Exact
  <2> QED BY <1>2, <2>1, <2>2, <2>3, UpToParent
<1> HIDE DEF q
<1>5. TypeOK'
  BY <1>1, <1>2, <1>3, PieceFacts DEF TypeOK, Index
<1>6. ExactInv'
  <2>1. Settled' = Index
    BY <1>1 DEF Settled
  <2> QED BY <1>1, <1>2, <2>1 DEF ExactInv
<1>7. WalkInv'
  BY <1>1, <1>2, <1>3, <1>4 DEF WalkInv
<1>8. (InitInv /\ Apart(blocks) /\ GivenInv /\ ZeroInv)'
  BY <1>1, <1>2 DEF InitInv, GivenInv, Pending, ZeroInv, ClearsItsPiece
<1> QED BY <1>5, <1>6, <1>7, <1>8 DEF IInv

LEMMA NotUsedKeeps == IInv /\ NotUsed => IInv'
<1> SUFFICES ASSUME IInv, NotUsed PROVE IInv'
  OBVIOUS
<1>1. /\ pc = "find" /\ pc' = "ready" /\ longest[index] # 0 /\ index = 0
      /\ index' = 0 /\ nodeSize' = 0 /\ offset' = 0 /\ bytes' = 0
      /\ UNCHANGED <<longest, zeroed, blocks, given, asked>>
  BY DEF NotUsed, Return
<1>2. /\ TypeOK /\ Apart(blocks) /\ GivenInv /\ zeroed = {}
      /\ \A i \in Index : longest[i] \in Nat /\ Exact(blocks, i, longest[i])
      /\ \A b \in blocks : offset \in Used(b) => Covers(index) \subseteq Used(b)
      /\ \A b \in blocks : b.off = offset => offset \in Used(b)
  BY <1>1, FindFacts
<1>3. ASSUME NEW b \in blocks PROVE b.off # offset
  <2> SUFFICES ASSUME b.off = offset PROVE FALSE
    OBVIOUS
  <2>1. PICK k \in Index : Used(b) = Covers(k) /\ b.len = NodeSize[k]
    BY <1>2, PieceOf
  <2>2. Covers(0) \subseteq Used(b) /\ k = 0
    BY <1>1, <1>2, <2>1, AboveRoot
  <2> QED BY <1>1, <1>2, <2>1, <2>2, RootFacts DEF Exact
<1>4. GivenInv'
  BY <1>1, <1>2, <1>3 DEF GivenInv, Pending
<1>5. TypeOK'
  BY <1>1, <1>2, TotalFacts DEF TypeOK
<1>6. ExactInv'
  <2>1. Settled' = Index
    BY <1>1 DEF Settled
  <2> QED BY <1>1, <1>2, <2>1 DEF ExactInv
<1>7. (InitInv /\ Apart(blocks) /\ WalkInv /\ ZeroInv)'
  BY <1>1, <1>2 DEF InitInv, WalkInv, ZeroInv, ClearsItsPiece
<1> QED BY <1>4, <1>5, <1>6, <1>7 DEF IInv

\* The first zero above the leaf is the node that was allocated: the piece that is
\* given back is the one that begins at offset.
LEMMA FoundFacts ==
  ASSUME IInv, Found
  PROVE  Piece(index) \in blocks /\ blocks' = blocks \ {Piece(index)}
<1>1. pc = "find" /\ longest[index] = 0 /\ blocks' = {b \in blocks : b.off # offset}
  BY DEF Found
<1>2. /\ Apart(blocks) /\ index \in Index /\ offset \in Covers(index) /\ offset \in 0 .. Total - 1
      /\ \A i \in Index : longest[i] \in Nat /\ Exact(blocks, i, longest[i])
      /\ \A b \in blocks : offset \in Used(b) => b.off = offset /\ Covers(index) \subseteq Used(b)
      /\ \A b \in blocks : b.off = offset => offset \in Used(b)
  BY <1>1, FindFacts
<1>3. \E b \in blocks : offset \in Used(b)
  <2> SUFFICES ASSUME \A b \in blocks : offset \notin Used(b) PROVE FALSE
    OBVIOUS
  <2> DEFINE j == offset + Total - 1
  <2>1. j \in Index /\ NodeSize[j] = 1 /\ Covers(j) = {offset}
    BY <1>2, LeafFacts DEF Covers
  <2> HIDE DEF j
  <2>2. Open(blocks, j) /\ Covers(j) \subseteq Covers(index)
    BY <1>2, <2>1 DEF Open
  <2>3. ~Inside(blocks, index)
    BY <1>2 DEF Inside
  <2>4. NodeSize[j] <= longest[index]
    BY <1>2, <2>1, <2>2, <2>3 DEF Exact, Largest
  <2> QED BY <1>1, <2>1, <2>4
<1>4. PICK b \in blocks : offset \in Used(b)
  BY <1>3
<1>5. PICK k \in Index : b = Piece(k) /\ Used(b) = Covers(k) /\ b.len = NodeSize[k]
  BY <1>2, PieceOf
<1>6. Covers(index) \subseteq Covers(k) /\ NodeSize[index] = NodeSize[k]
  BY <1>1, <1>2, <1>4, <1>5, PieceFacts DEF Exact
<1>7. k = index
  BY <1>2, <1>5, <1>6, SizeWithin
<1>8. \A c \in blocks : c.off = offset <=> c = b
  BY <1>2, <1>4 DEF Apart
<1>9. blocks' = blocks \ {b}
  BY <1>1, <1>8
<1> QED BY <1>4, <1>5, <1>7, <1>9

LEMMA FoundKeeps == IInv /\ Found => IInv'
<1> SUFFICES ASSUME IInv, Found PROVE IInv'
  OBVIOUS
<1>1. /\ pc = "find" /\ pc' = "merge"
      /\ longest' = [longest EXCEPT ![index] = nodeSize]
      /\ blocks' = {b \in blocks : b.off # offset}
      /\ UNCHANGED <<index, nodeSize, offset, bytes, zeroed, given, asked>>
  BY DEF Found
<1>2. /\ TypeOK /\ Apart(blocks) /\ GivenInv /\ zeroed = {}
      /\ index \in Index /\ nodeSize = NodeSize[index]
      /\ \A i \in Index : longest[i] \in Nat /\ Exact(blocks, i, longest[i])
  BY <1>1, FindFacts
<1>3. /\ Apart(blocks') /\ Exact(blocks', index, NodeSize[index]) /\ ~Inside(blocks', index)
      /\ \A k \in Index, v \in Nat :
           Exact(blocks, k, v) /\ ~(Covers(index) \subseteq Covers(k)) => Exact(blocks', k, v)
  BY <1>2, FoundFacts, FreeIsExact
<1>4. TypeOK'
  <2>1. NodeSize[index] \in 0 .. Total
    BY <1>2, NodeInHeap
  <2> QED BY <1>1, <1>2, <2>1 DEF TypeOK
<1>5. ExactInv'
  <2> SUFFICES ASSUME NEW i \in Index, Covers(index) \subseteq Covers(i) => i = index
               PROVE  Exact(blocks', i, longest'[i])
    BY <1>1 DEF ExactInv, Settled
  <2>1. CASE i = index
    BY <1>1, <1>2, <1>3, <2>1 DEF TypeOK
  <2>2. CASE i # index
    BY <1>1, <1>2, <1>3, <2>2 DEF TypeOK
  <2> QED BY <2>1, <2>2
<1>6. WalkInv'
  BY <1>1, <1>3 DEF WalkInv
<1>7. GivenInv'
  <2>1. \A o : Pending(o) <=> o = offset
    BY <1>1 DEF Pending
  <2>2. \A o : ~Pending(o)'
    BY <1>1 DEF Pending
  <2>3. \A b : b \in blocks' <=> b \in blocks /\ b.off # offset
    BY <1>1
  <2> QED BY <1>1, <1>2, <2>1, <2>2, <2>3 DEF GivenInv
<1>8. (InitInv /\ ZeroInv)'
  BY <1>1, <1>2 DEF InitInv, ZeroInv, ClearsItsPiece
<1> QED BY <1>3, <1>4, <1>5, <1>6, <1>7, <1>8 DEF IInv

LEMMA MergeKeeps == IInv /\ Merge => IInv'
<1> SUFFICES ASSUME IInv, Merge PROVE IInv'
  OBVIOUS
<1> DEFINE q == Parent(index)
<1>1. /\ pc = "merge" /\ pc' = "merge" /\ index # 0 /\ index' = q /\ nodeSize' = 2 * nodeSize
      /\ longest' = [longest EXCEPT ![q] = Merged(longest[Left(q)], longest[Right(q)], nodeSize')]
      /\ UNCHANGED <<offset, bytes, zeroed, blocks, given, asked>>
  BY DEF Merge
<1>2. TypeOK /\ Apart(blocks) /\ index \in Index /\ nodeSize = NodeSize[index] /\ ~Inside(blocks, index)
      /\ GivenInv /\ zeroed = {}
  BY <1>1, SettledFacts DEF IInv, TypeOK, WalkInv, ZeroInv
<1>3. /\ q \in Index /\ q # index /\ Covers(index) \subseteq Covers(q)
      /\ NodeSize[q] # 1 /\ NodeSize[q] = 2 * NodeSize[index]
      /\ \A c \in {Left(q), Right(q)} :
           c \in Index /\ c # q /\ longest[c] \in Nat /\ Exact(blocks, c, longest[c])
      /\ \A i \in Index : (Covers(q) \subseteq Covers(i) => i = q) => i = q \/ Exact(blocks, i, longest[i])
  BY <1>1, StepUp
<1> HIDE DEF q
<1>4. nodeSize' = NodeSize[q] /\ NodeSize[q] \in 1 .. Total
  BY <1>1, <1>2, <1>3, NodeInHeap
<1>5. ~Inside(blocks, q)
  BY <1>2, <1>3 DEF Inside
<1>6. Exact(blocks, q, longest'[q])
  BY <1>1, <1>2, <1>3, <1>4, <1>5, MergeIsExact DEF TypeOK
<1>7. TypeOK'
  <2>a. Left(q) \in Index /\ Right(q) \in Index
    BY <1>3
  <2>b. longest[Left(q)] \in 0 .. Total /\ longest[Right(q)] \in 0 .. Total
    BY <1>2, <2>a DEF TypeOK
  <2>c. nodeSize' \in 0 .. Total
    BY <1>4, TotalFacts
  <2>1. Merged(longest[Left(q)], longest[Right(q)], nodeSize') \in 0 .. Total
    BY <2>b, <2>c DEF Merged, Larger
  <2>2. longest' \in [Index -> 0 .. Total]
    BY <1>1, <1>2, <2>1 DEF TypeOK
  <2>3. index' \in Index /\ index' \in Nat /\ nodeSize' \in Nat /\ nodeSize' = NodeSize[index']
    BY <1>1, <1>3, <1>4 DEF Index
  <2> QED BY <1>1, <1>2, <2>2, <2>3 DEF TypeOK
<1>8. ExactInv'
  <2> SUFFICES ASSUME NEW i \in Index, Covers(q) \subseteq Covers(i) => i = q
               PROVE  Exact(blocks, i, longest'[i])
    BY <1>1 DEF ExactInv, Settled
  <2>1. CASE i # q
    BY <1>1, <1>2, <1>3, <2>1 DEF TypeOK
  <2> QED BY <1>6, <2>1
<1>9. WalkInv'
  BY <1>1, <1>5 DEF WalkInv
<1>10. (InitInv /\ Apart(blocks) /\ GivenInv /\ ZeroInv)'
  BY <1>1, <1>2 DEF InitInv, GivenInv, Pending, ZeroInv, ClearsItsPiece
<1> QED BY <1>7, <1>8, <1>9, <1>10 DEF IInv

LEMMA FreeDoneKeeps == IInv /\ FreeDone => IInv'
<1> SUFFICES ASSUME IInv, FreeDone PROVE IInv'
  OBVIOUS
<1>1. /\ pc = "merge" /\ pc' = "ready" /\ index = 0
      /\ index' = 0 /\ nodeSize' = 0 /\ offset' = 0 /\ bytes' = 0
      /\ UNCHANGED <<longest, zeroed, blocks, given, asked>>
  BY DEF FreeDone, Return
<1>2. TypeOK /\ Apart(blocks) /\ GivenInv /\ ZeroInv
  BY DEF IInv
<1>3. ExactInv'
  <2>1. \A i \in Index : i \in Settled
    BY <1>1, AboveRoot DEF Settled
  <2>2. \A i \in Index : Exact(blocks, i, longest[i])
    BY <1>1, <2>1, SettledFacts
  <2>3. Settled' = Index
    BY <1>1 DEF Settled
  <2> QED BY <1>1, <2>2, <2>3 DEF ExactInv
<1>4. TypeOK'
  BY <1>1, <1>2, TotalFacts DEF TypeOK
<1>5. (InitInv /\ Apart(blocks) /\ WalkInv /\ GivenInv /\ ZeroInv)'
  BY <1>1, <1>2 DEF InitInv, WalkInv, GivenInv, Pending, ZeroInv, ClearsItsPiece
<1> QED BY <1>3, <1>4, <1>5 DEF IInv
-----------------------------------------------------------------------------
LEMMA StepIInv == IInv /\ [Next]_vars => IInv'
<1> SUFFICES ASSUME IInv, [Next]_vars PROVE IInv'
  OBVIOUS
<1>1. CASE UNCHANGED vars
  <2>1. UNCHANGED <<pc, longest, index, nodeSize, offset, bytes, zeroed, blocks, given, asked>>
    BY <1>1 DEF vars
  <2>2. TypeOK' /\ InitInv'
    BY <2>1 DEF IInv, TypeOK, InitInv
  <2>3. Settled' = Settled
    BY <2>1 DEF Settled
  <2>4. ExactInv'
    BY <2>1, <2>3 DEF IInv, ExactInv
  <2>5. (Apart(blocks) /\ WalkInv /\ GivenInv /\ ZeroInv)'
    BY <2>1 DEF IInv, WalkInv, GivenInv, Pending, ZeroInv, ClearsItsPiece
  <2> QED BY <2>2, <2>4, <2>5 DEF IInv
<1>2. CASE AllocNothing
  BY <1>1, <1>2 DEF AllocNothing
<1>3. CASE Stopped
  BY <1>1, <1>3 DEF Stopped
<1>4. ASSUME NEW b \in Sizes, kalloc(b) PROVE IInv'
  BY <1>4, AllocKeeps
<1>5. ASSUME NEW b \in Sizes, Panic(b) PROVE IInv'
  BY <1>5, PanicKeeps
<1>6. ASSUME NEW ptr \in {p.ptr : p \in given} \cup Foreign \cup Vacant, kfree(ptr) PROVE IInv'
  BY <1>6, FreeKeeps
<1> QED
  BY <1>1, <1>2, <1>3, <1>4, <1>5, <1>6, InitNodeKeeps, InitDoneKeeps, DescendKeeps, TakeKeeps, AscendKeeps,
     ClearKeeps, FindKeeps, NotUsedKeeps, FoundKeeps, MergeKeeps, FreeDoneKeeps DEF Next

LEMMA HeapInvariant == Spec => []IInv
BY InitIInv, StepIInv, PTL DEF Spec

\* longest tells the truth about every node that no call is about to update,
\* whatever the number of blocks and the sizes asked for: the search of
\* buddyAlloc finds room if there is any, and the walk of buddyFree stops at
\* the node that was allocated.
THEOREM LongestStaysExact == Spec => []LongestIsExact
BY HeapInvariant, InvExact, PTL

\* kalloc clears exactly the piece it has taken, although it computes how much
\* to clear from the number of bytes and not from the node.
THEOREM ZeroesItsPiece == Spec => []ClearsItsPiece
<1>1. IInv => ClearsItsPiece
  BY DEF IInv, ZeroInv
<1> QED BY <1>1, HeapInvariant, PTL
-----------------------------------------------------------------------------
(* Bytes.                                                                  *)

\* The bytes of a piece lie in the heap and before those of the pieces that
\* follow it.
LEMMA PieceBytes ==
  ASSUME NEW o \in Nat, NEW len \in Nat \ {0}, NEW k \in Nat, o + len <= k
  PROVE  AddressOf(o) + len * MinBlock <= AddressOf(k)
<1>1. MinBlock \in Nat \ {0} /\ HEAP \in Nat
  BY HeapAssumption
<1>2. (o + len) * MinBlock <= k * MinBlock
  BY <1>1, Z3
<1>3. (o + len) * MinBlock = o * MinBlock + len * MinBlock
  BY <1>1, Z3
<1> DEFINE x == o * MinBlock
           y == len * MinBlock
           z == k * MinBlock
<1>4. x \in Nat /\ y \in Nat /\ z \in Nat
  BY <1>1, Z3
<1>5. AddressOf(o) = HEAP + x /\ AddressOf(k) = HEAP + z
  BY DEF AddressOf
<1>6. x + y <= z
  BY <1>2, <1>3
<1>7. HEAP + x + y <= HEAP + z
  <2> HIDE DEF x, y, z
  <2> QED BY <1>1, <1>4, <1>6
<1> QED BY <1>5, <1>7

LEMMA PieceInHeap ==
  ASSUME NEW o \in Nat, NEW len \in Nat \ {0}, o + len <= Total
  PROVE  HEAP <= AddressOf(o) /\ AddressOf(o) + len * MinBlock <= HEAP + Total * MinBlock
<1>1. AddressOf(o) + len * MinBlock <= AddressOf(Total)
  BY PieceBytes, TotalFacts
<1>2. o * MinBlock \in Nat /\ HEAP \in Nat
  BY HeapAssumption, Z3
<1>3. HEAP <= AddressOf(o)
  BY <1>2 DEF AddressOf
<1> QED BY <1>1, <1>3 DEF AddressOf

LEMMA InvOwned == IInv => BytesAreOwned
<1> SUFFICES ASSUME IInv PROVE BytesAreOwned
  OBVIOUS
<1>1. TypeOK /\ Apart(blocks) /\ GivenInv /\ MinBlock \in Nat \ {0} /\ HEAP \in Nat
  BY HeapAssumption DEF IInv
<1>2. ASSUME NEW b \in blocks
      PROVE  /\ b.off \in Nat /\ b.len \in Nat \ {0} /\ b.off + b.len <= Total
             /\ AddressOf(b.off) \in Nat /\ b.len * MinBlock \in Nat
  <2>1. PICK i \in Index : b.len = NodeSize[i] /\ b.off = First(i)
    BY <1>1, PieceOf
  <2>2. b.off \in Nat /\ b.len \in Nat \ {0} /\ b.off + b.len <= Total
    BY <2>1, NodeInHeap
  <2>3. b.len * MinBlock \in Nat
    BY <1>1, <2>2, Z3
  <2> QED BY <2>2, <2>3, AddressFacts
<1>3. ASSUME NEW p \in given
      PROVE  p.ptr \in Nat /\ p.size \in Nat \ {0}
  BY <1>1 DEF TypeOK
<1>4. ASSUME NEW p \in given PROVE Bytes(p) \subseteq HEAP .. HEAP + Total * MinBlock - 1
  <2>1. PICK b \in blocks : p.ptr = AddressOf(b.off) /\ p.size <= b.len * MinBlock
    BY <1>1 DEF GivenInv
  <2> DEFINE y == b.len * MinBlock
             z == Total * MinBlock
  <2>2. HEAP <= p.ptr /\ p.ptr + y <= HEAP + z
    BY <1>2, <2>1, PieceInHeap
  <2>3. y \in Nat /\ p.size <= y /\ z \in Nat
    BY <1>1, <1>2, <2>1, TotalFacts, Z3
  <2> HIDE DEF y, z
  <2>4. Bytes(p) \subseteq HEAP .. HEAP + z - 1
    BY <1>1, <1>3, <2>2, <2>3 DEF Bytes
  <2> QED BY <2>4 DEF z
<1>5. ASSUME NEW p \in given, NEW q \in given, p # q PROVE Bytes(p) \cap Bytes(q) = {}
  <2>1. PICK b \in blocks : p.ptr = AddressOf(b.off) /\ p.size <= b.len * MinBlock
    BY <1>1 DEF GivenInv
  <2>2. PICK c \in blocks : q.ptr = AddressOf(c.off) /\ q.size <= c.len * MinBlock
    BY <1>1 DEF GivenInv
  <2>3. b # c
    BY <1>1, <1>5, <2>1, <2>2 DEF GivenInv
  <2>4. Used(b) \cap Used(c) = {}
    BY <1>1, <2>3 DEF Apart
  <2>5. b.off + b.len <= c.off \/ c.off + c.len <= b.off
    <3>1. PICK i \in Index : Used(b) = Covers(i) /\ b.len = NodeSize[i] /\ b.off = First(i)
      BY <1>1, PieceOf
    <3>2. PICK j \in Index : Used(c) = Covers(j) /\ c.len = NodeSize[j] /\ c.off = First(j)
      BY <1>1, PieceOf
    <3> QED BY <2>4, <3>1, <3>2, CoversFacts
  <2>6. p.ptr + b.len * MinBlock <= q.ptr \/ q.ptr + c.len * MinBlock <= p.ptr
    BY <1>2, <2>1, <2>2, <2>5, PieceBytes
  <2>7. p.ptr + p.size <= q.ptr \/ q.ptr + q.size <= p.ptr
    <3> DEFINE x == b.len * MinBlock
               y == c.len * MinBlock
    <3>1. x \in Nat /\ y \in Nat /\ p.size <= x /\ q.size <= y
      BY <1>2, <2>1, <2>2
    <3>2. p.ptr + x <= q.ptr \/ q.ptr + y <= p.ptr
      BY <2>6
    <3> HIDE DEF x, y
    <3> QED BY <1>3, <3>1, <3>2
  <2> QED BY <1>3, <2>7 DEF Bytes
<1>6. pc = "ready" => \A b \in blocks : \E p \in given : p.ptr = AddressOf(b.off)
  BY <1>1 DEF GivenInv, Pending
<1> QED BY <1>4, <1>5, <1>6 DEF BytesAreOwned

\* What callers were given lies in the heap and apart from everything else that
\* is in use, byte by byte, and between calls nothing is in use that no caller
\* can free, for any size of the heap and of its blocks.
THEOREM BytesStayOwned == Spec => []BytesAreOwned
BY HeapInvariant, InvOwned, PTL
-----------------------------------------------------------------------------
(* The heap is an allocator.                                               *)

\* The aligned pieces of a size are the pieces of the nodes of that size.
LEMMA NodeIsFreePiece ==
  ASSUME NEW i \in Index, Open(blocks, i)
  PROVE  Piece(i) \in Heaps!FreePieces(NodeSize[i])
<1> DEFINE s == NodeSize[i]
           n == i + 1
<1>1. n \in Nat /\ n = i + 1 /\ s \in Nat \ {0} /\ s = NodeSize[i]
  BY NodeInHeap DEF Index
<1> HIDE DEF n, s
<1>2. PICK m \in Nat \ {0} : Total = s * m /\ m <= n /\ n < 2 * m /\ First(i) = s * (n - m)
  BY <1>1, NodeAt
<1>3. Total \div s = m
  <2>1. (s * m) \div s = m
    BY <1>1, Z3
  <2> QED BY <1>2, <2>1
<1>4. n - m \in 0 .. Total \div s - 1
  BY <1>1, <1>2, <1>3
<1>5. Piece(i) = [off |-> First(i), len |-> s]
  BY <1>1 DEF Piece
<1>6. Piece(i) \in [off : {s * x : x \in 0 .. Total \div s - 1}, len : {s}]
  BY <1>2, <1>4, <1>5
<1>7. \A b \in blocks : Heaps!Units(b) \cap Heaps!Units(Piece(i)) = {}
  BY PieceFacts DEF Open, Used
<1>8. Piece(i) \in Heaps!FreePieces(s)
  BY <1>6, <1>7 DEF Heaps!FreePieces
<1> QED BY <1>1, <1>8

LEMMA FreePieceIsNode ==
  ASSUME NEW s \in Nat \ {0}, IsPowerOf2(s), Heaps!FreePieces(s) # {}
  PROVE  \E i \in Index : NodeSize[i] = s /\ Open(blocks, i)
<1>1. PICK b \in Heaps!FreePieces(s) : TRUE
  OBVIOUS
<1>2. /\ b \in [off : {s * x : x \in 0 .. Total \div s - 1}, len : {s}]
      /\ \A a \in blocks : Heaps!Units(a) \cap Heaps!Units(b) = {}
  BY <1>1 DEF Heaps!FreePieces
<1>3. PICK x \in 0 .. Total \div s - 1 : b.off = s * x
  BY <1>2
<1>4. Total \in Nat \ {0}
  BY TotalFacts
<1>5. s <= Total
  <2> SUFFICES ASSUME Total < s PROVE FALSE
    BY <1>4
  <2>1. Total \div s = 0
    BY <1>4, Z3
  <2> QED BY <2>1
<1>6. PICK m \in Nat \ {0} : Total = s * m /\ IsPowerOf2(m)
  BY <1>5, TotalFacts, PowersDivide
<1>7. x \in 0 .. m - 1
  <2>1. (s * m) \div s = m
    BY Z3
  <2> QED BY <1>6, <2>1
<1> DEFINE i == x + m - 1
<1>8. i \in Nat /\ i + 1 = x + m
  BY <1>6, <1>7
<1>9. s * (x + m) = s * x + s * m /\ s * x >= 0 /\ s * x < s * m /\ s * x \in Nat /\ m <= s * m
  BY <1>6, <1>7, Z3
<1>10. i \in Index
  BY <1>4, <1>6, <1>7, <1>9 DEF Index
<1> HIDE DEF i
<1>11. Total <= s * (i + 1) /\ s * (i + 1) < 2 * Total
  BY <1>4, <1>6, <1>8, <1>9
<1>12. NodeSize[i] = s
  BY <1>10, <1>11, SizeIs
<1>13. First(i) = s * x
  <2>1. (i + 1) * s = s * (i + 1)
    BY <1>8, Z3
  <2>2. First(i) = (i + 1) * s - Total
    BY <1>12 DEF First, Offset
  <2> QED BY <1>4, <1>6, <1>8, <1>9, <2>1, <2>2
<1>14. Covers(i) = Heaps!Units(b)
  BY <1>2, <1>3, <1>12, <1>13 DEF Covers, Heaps!Units
<1>15. Open(blocks, i)
  BY <1>2, <1>14 DEF Open, Used
<1> QED BY <1>10, <1>12, <1>15

LEMMA RoundedIsSize ==
  ASSUME NEW b \in Nat \ {0}
  PROVE  Heaps!Rounded(Needed(b)) = Size(b)
<1>1. \A n : Heaps!Power(n) = IsPowerOf2(n)
  BY DEF Heaps!Power, IsPowerOf2
<1>2. Heaps!Rounded(Needed(b)) = LeastPower(Needed(b))
  BY <1>1 DEF Heaps!Rounded, LeastPower
<1> QED BY <1>2, SizeFacts DEF fixSize

\* buddyAlloc takes an aligned piece of the right size that is free.
LEMMA TakeAllocates ==
  ASSUME IInv, Take
  PROVE  \E n \in {Needed(b) : b \in Sizes \ {0}} : Heaps!Alloc(n)
<1>1. /\ pc = "down" /\ pc' = "up" /\ nodeSize = Size(bytes) /\ asked' = Needed(bytes)
      /\ offset' = Offset(index, nodeSize)
      /\ blocks' = blocks \cup {[off |-> offset', len |-> nodeSize]}
  BY DEF Take
<1>2. /\ index \in Index /\ nodeSize = NodeSize[index] /\ Exact(blocks, index, longest[index])
      /\ bytes \in Sizes \ {0} /\ ~Inside(blocks, index) /\ nodeSize <= longest[index]
      /\ longest[index] \in Nat
  BY <1>1, SettledFacts DEF IInv, TypeOK, WalkInv
<1>3. Open(blocks, index)
  <2>1. Largest(blocks, index, longest[index])
    BY <1>2 DEF Exact
  <2>2. longest[index] = NodeSize[index]
    BY <1>2, <2>1, LargestIsSmall, PieceFacts
  <2> QED BY <1>2, <2>1, <2>2, FullIsOpen
<1>4. blocks' = blocks \cup {Piece(index)}
  BY <1>1, <1>2 DEF Piece, First
<1>5. Piece(index) \in Heaps!FreePieces(Size(bytes))
  BY <1>1, <1>2, <1>3, NodeIsFreePiece
<1>6. Heaps!Rounded(Needed(bytes)) = Size(bytes)
  BY <1>2, HeapAssumption, RoundedIsSize
<1>7. Heaps!Alloc(Needed(bytes))
  BY <1>1, <1>4, <1>5, <1>6 DEF Heaps!Alloc
<1> QED BY <1>2, <1>7

\* buddyAlloc fails only if no such piece is free.
LEMMA PanicAllocates ==
  ASSUME IInv, NEW b \in Sizes, Panic(b)
  PROVE  \E n \in {Needed(c) : c \in Sizes \ {0}} : Heaps!Alloc(n)
<1>1. /\ pc = "ready" /\ pc' = "failed" /\ b > 0 /\ longest[0] < Size(b) /\ asked' = Needed(b)
      /\ blocks' = blocks
  BY DEF Panic
<1>2. b \in Nat \ {0} /\ b \in Sizes \ {0}
  BY <1>1, HeapAssumption
<1>3. 0 \in Index /\ Exact(blocks, 0, longest[0]) /\ longest[0] \in Nat
  BY <1>1, RootFacts, SettledFacts
<1>4. Size(b) \in Nat \ {0} /\ IsPowerOf2(Size(b))
  BY <1>2, SizeFacts
<1>5. Heaps!FreePieces(Size(b)) = {}
  <2> SUFFICES ASSUME Heaps!FreePieces(Size(b)) # {} PROVE FALSE
    OBVIOUS
  <2>1. PICK i \in Index : NodeSize[i] = Size(b) /\ Open(blocks, i)
    BY <1>4, FreePieceIsNode
  <2>2. Covers(i) \subseteq Covers(0)
    BY <1>3, <2>1, RootFacts, NodeInHeap, CoversFacts
  <2>3. ~Inside(blocks, 0)
    <3>1. Covers(i) # {}
      BY PieceFacts
    <3> QED BY <2>1, <2>2, <3>1 DEF Inside, Open
  <2>4. NodeSize[i] <= longest[0]
    BY <1>3, <2>1, <2>2, <2>3 DEF Exact, Largest
  <2> QED BY <1>1, <1>3, <1>4, <2>1, <2>4
<1>6. Heaps!Rounded(Needed(b)) = Size(b)
  BY <1>2, RoundedIsSize
<1>7. Heaps!Alloc(Needed(b))
  BY <1>1, <1>5, <1>6 DEF Heaps!Alloc
<1> QED BY <1>2, <1>7

LEMMA StepRefines ==
  IInv /\ [Next]_vars => [Heaps!Next]_<<blocks, asked, pc = "failed">>
<1> SUFFICES ASSUME IInv, [Next]_vars
             PROVE  Heaps!Next \/ (UNCHANGED <<blocks, asked>> /\ (pc' = "failed" <=> pc = "failed"))
  OBVIOUS
<1>1. CASE UNCHANGED vars
  BY <1>1 DEF vars
<1>2. CASE InitNode \/ InitDone \/ AllocNothing \/ Descend \/ Ascend \/ Clear \/ Find \/ NotUsed \/ Merge
           \/ FreeDone \/ Stopped
  BY <1>2 DEF InitNode, InitDone, AllocNothing, Descend, Ascend, Clear, Find, NotUsed, Merge, FreeDone, Stopped,
              Return, vars
<1>3. CASE \E b \in Sizes : kalloc(b)
  BY <1>3 DEF kalloc
<1>4. CASE \E ptr \in {p.ptr : p \in given} \cup Foreign \cup Vacant : kfree(ptr)
  BY <1>4 DEF kfree
<1>5. CASE Take
  BY <1>5, TakeAllocates DEF Heaps!Next
<1>6. CASE \E b \in Sizes : Panic(b)
  BY <1>6, PanicAllocates DEF Heaps!Next
<1>7. CASE Found
  <2>1. Piece(index) \in blocks /\ blocks' = blocks \ {Piece(index)}
    BY <1>7, FoundFacts
  <2>2. pc = "find" /\ pc' = "merge" /\ asked' = asked
    BY <1>7 DEF Found
  <2>3. Heaps!Free(Piece(index))
    BY <2>1, <2>2 DEF Heaps!Free
  <2> QED BY <2>1, <2>3 DEF Heaps!Next
<1> QED BY <1>1, <1>2, <1>3, <1>4, <1>5, <1>6, <1>7 DEF Next

\* The buddy system hands out disjoint aligned pieces and refuses a request
\* only if no aligned run of the right size is free, for every size of the heap.
THEOREM HeapImplementsAllocator == Spec => ImplementsAllocator
<1>1. Spec => [][Heaps!Next]_<<blocks, asked, pc = "failed">>
  BY StepRefines, HeapInvariant, PTL DEF Spec
<1>2. Init => Heaps!Init
  BY DEF Init, Heaps!Init
<1> QED BY <1>1, <1>2, PTL DEF ImplementsAllocator, Heaps!Spec, Spec
=============================================================================
