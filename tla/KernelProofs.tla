----------------------------- MODULE KernelProofs -----------------------------
(***************************************************************************)
(* What the CUDA kernels compute, for every geometry of the block and      *)
(* every size asked for: argmax, routing and the one pass softmax select   *)
(* and weigh as the reference does; normalisation, rotation, the cache,    *)
(* attention, lookups and the rows of a batch store each element once, of  *)
(* what the reference makes it of (CudaKernels.cu); and no thread reaches  *)
(* further than the dispatcher demands (CudaKernelDispatch.cpp).           *)
(*                                                                         *)
(* The reference adds its weights with a fold over a set, whose value is   *)
(* that of a recursive function TLA+ only chooses; so are the scan of a    *)
(* thread, the tree of a block, the rounds of the router and the pass of   *)
(* the softmax.  That each function is there comes first, what it computes *)
(* after, by induction on a natural number: the least one of which it does *)
(* not hold is refuted.                                                    *)
(***************************************************************************)
EXTENDS KernelTasks, TLAPS, FiniteSetTheorems, WellFoundedInduction

-----------------------------------------------------------------------------
(* Natural numbers.                                                        *)

\* A set of naturals that is not empty has a least element.
LEMMA LeastNatural ==
    ASSUME NEW S \in SUBSET Nat, S # {}
    PROVE  \E n \in S : \A m \in S : n <= m
<1>1. PICK n \in S : \A m \in S : <<m, n>> \notin OpToRel(<, Nat)
  BY NatLessThanWellFounded, WFMin
<1>2. OpToRel(<, Nat) = {pair \in Nat \X Nat : pair[1] < pair[2]}
  BY DEF OpToRel
<1>3. \A m \in S : <<m, n>> \in Nat \X Nat /\ ~ (m < n)
  BY <1>1, <1>2
<1>4. \A m \in S : m \in Nat /\ n \in Nat
  OBVIOUS
<1>5. ASSUME NEW m \in S
      PROVE  n <= m
  <2>1. m \in Nat /\ n \in Nat /\ ~ (m < n)
    BY <1>3, <1>4
  <2>2. QED BY <2>1
<1>6. QED BY <1>5

\* A set that has 0, and with each natural number the next, has all of them.
LEMMA Induction ==
    ASSUME NEW S, 0 \in S, \A n \in Nat : n \in S => n + 1 \in S
    PROVE  Nat \subseteq S
<1>1. SUFFICES ASSUME Nat \ S # {} PROVE FALSE
  OBVIOUS
<1>2. PICK n \in Nat \ S : \A m \in Nat \ S : n <= m
  BY <1>1, LeastNatural
<1>3. n # 0 /\ n - 1 \in Nat
  BY <1>2
<1>4. n - 1 \in S
  BY <1>2, <1>3
<1>5. QED BY <1>2, <1>3, <1>4

\* A product grows with its factor.
LEMMA ProductGrows ==
    ASSUME NEW a \in Nat, NEW b \in Nat, NEW c \in Nat, a <= b
    PROVE  a * c <= b * c /\ a * c \in Nat
<1>1. PICK d \in Nat : b = a + d
  <2>1. b - a \in Nat /\ b = a + (b - a)
    OBVIOUS
  <2>2. QED BY <2>1
<1>2. b * c = a * c + d * c
  BY <1>1
<1>3. d * c \in Nat /\ a * c \in Nat
  OBVIOUS
<1>4. QED BY <1>2, <1>3

\* At most the quotient: as often as it fits.
LEMMA FitsAsOften ==
    ASSUME NEW room \in Nat, NEW width \in Nat, width > 0, NEW n \in Nat
    PROVE  /\ room \div width \in Nat
           /\ n <= room \div width <=> n * width <= room
<1> DEFINE q == room \div width
<1>1. q \in Nat /\ q * width <= room /\ room < (q + 1) * width
  OBVIOUS
<1> HIDE DEF q
<1>2. CASE n <= q
  <2>1. n * width <= q * width /\ n * width \in Nat /\ q * width \in Nat
    BY <1>1, <1>2, ProductGrows
  <2>2. QED BY <1>1, <1>2, <2>1 DEF q
<1>3. CASE n > q
  <2>1. q + 1 \in Nat /\ q + 1 <= n
    BY <1>1, <1>3
  <2>2. (q + 1) * width <= n * width /\ (q + 1) * width \in Nat /\ n * width \in Nat
    BY <2>1, ProductGrows
  <2>3. room < n * width
    BY <1>1, <2>2
  <2>4. QED BY <1>1, <1>3, <2>2, <2>3 DEF q
<1>4. QED BY <1>1, <1>2, <1>3

\* The numbers up to which everything is in a set are 1 .. n.
LEMMA InitialSegment ==
    ASSUME NEW L \in Nat, NEW G
    PROVE  \E n \in 0 .. L :
              /\ Cardinality({k \in 1 .. L : \A j \in 1 .. k : j \in G}) = n
              /\ \A j \in 1 .. n : j \in G
              /\ n < L => n + 1 \notin G
<1> DEFINE A == {k \in 1 .. L : \A j \in 1 .. k : j \in G}
           Out == {k \in Nat : k >= 1 /\ (k \notin G \/ k > L)}
<1>1. L + 1 \in Out /\ Out \in SUBSET Nat
  OBVIOUS
<1>2. PICK k \in Out : \A m \in Out : k <= m
  <2> HIDE DEF Out
  <2> QED BY <1>1, LeastNatural
<1>3. k \in 1 .. L + 1 /\ k - 1 \in 0 .. L /\ k \in Nat
  BY <1>1, <1>2
<1>4. \A j \in 1 .. k - 1 : j \in G
  BY <1>2, <1>3
<1>5. k - 1 < L => k \notin G
  BY <1>2, <1>3
<1>6. A = 1 .. k - 1
  <2>1. \A i \in 1 .. k - 1 : i \in A
    BY <1>3, <1>4
  <2>2. ASSUME NEW i \in A, i > k - 1
        PROVE  FALSE
    <3>1. k \in 1 .. i /\ i <= L
      BY <1>3, <2>2
    <3>2. k \in G /\ k <= L
      BY <1>3, <2>2, <3>1
    <3>3. QED BY <1>2, <3>2
  <2>3. QED BY <1>3, <2>1, <2>2
<1>7. Cardinality(1 .. k - 1) = k - 1
  BY <1>3, FS_Interval
<1>8. PICK n \in 0 .. L : n = k - 1 /\ n + 1 = k
  BY <1>3
<1>9. Cardinality(A) = n /\ (\A j \in 1 .. n : j \in G) /\ (n < L => n + 1 \notin G)
  <2> HIDE DEF A
  <2> QED BY <1>4, <1>5, <1>6, <1>7, <1>8
<1>10. QED BY <1>9

\* A product of natural numbers is one.
LEMMA NaturalProduct ==
    ASSUME NEW a \in Nat, NEW b \in Nat
    PROVE  a * b \in Nat
  OBVIOUS

\* A bounded set of naturals has a greatest element.
LEMMA GreatestNatural ==
    ASSUME NEW S \in SUBSET Nat, S # {}, NEW b \in Nat, \A n \in S : n <= b
    PROVE  \E n \in S : \A m \in S : n >= m
<1> DEFINE Bounds == {n \in Nat : \A m \in S : m <= n}
<1>1. PICK n \in Bounds : \A m \in Bounds : n <= m
  <2>1. Bounds \in SUBSET Nat /\ b \in Bounds
    OBVIOUS
  <2>2. QED BY <2>1, LeastNatural
<1>2. CASE n \in S
  BY <1>2
<1>3. CASE n \notin S
  <2>1. \A m \in S : m < n
    BY <1>3
  <2>2. n \in Nat /\ n # 0
    <3>1. PICK m \in S : m < n
      BY <2>1
    <3>2. m \in Nat
      OBVIOUS
    <3>3. QED BY <3>1, <3>2
  <2>3. n - 1 \in Bounds
    BY <2>1, <2>2
  <2>4. QED BY <1>1, <2>2, <2>3
<1>4. QED BY <1>2, <1>3

\* Powers of two double: a set has as many subsets with an element more as
\* without it.
LEMMA PowersDouble ==
    ASSUME NEW n \in Nat
    PROVE  2 ^ n \in Nat /\ 2 ^ (n + 1) = 2 * 2 ^ n
<1> DEFINE A == 1 .. n
           B == 1 .. n + 1
           P == SUBSET A
           All == SUBSET B
           With == {s \in SUBSET B : n + 1 \in s}
           f == [s \in P |-> s \cup {n + 1}]
<1>1. /\ IsFiniteSet(A) /\ Cardinality(A) = n /\ IsFiniteSet(B) /\ Cardinality(B) = n + 1
  BY FS_Interval
<1>2. IsFiniteSet(P) /\ Cardinality(P) = 2 ^ n
  <2> HIDE DEF A
  <2>1. IsFiniteSet(SUBSET A) /\ Cardinality(SUBSET A) = 2 ^ Cardinality(A)
    BY <1>1, FS_SUBSET
  <2>2. QED BY <1>1, <2>1
<1>3. IsFiniteSet(All) /\ Cardinality(All) = 2 ^ (n + 1)
  <2> HIDE DEF B
  <2>1. IsFiniteSet(SUBSET B) /\ Cardinality(SUBSET B) = 2 ^ Cardinality(B)
    BY <1>1, FS_SUBSET
  <2>2. QED BY <1>1, <2>1
<1>4. f \in Bijection(P, With)
  <2>1. \A s \in P : f[s] \in With /\ n + 1 \notin s
    OBVIOUS
  <2>2. \A s, t \in P : f[s] = f[t] => s = t
    <3>1. \A s \in P : s = f[s] \ {n + 1}
      BY <2>1
    <3>2. QED BY <3>1
  <2>3. ASSUME NEW w \in With PROVE \E s \in P : f[s] = w
    <3>1. w \ {n + 1} \in P
      <4>1. ASSUME NEW i \in w, i # n + 1 PROVE i \in A
        BY <4>1
      <4>2. QED BY <4>1
    <3>2. f[w \ {n + 1}] = w
      BY <3>1
    <3>3. QED BY <3>1, <3>2
  <2> HIDE DEF f, With, P
  <2>4. f \in [P -> With]
    BY <2>1 DEF f
  <2>5. QED BY <2>2, <2>3, <2>4 DEF Bijection, Injection, Surjection, IsInjective
<1>5. All = P \cup With /\ P \cap With = {}
  <2>1. ASSUME NEW s \in All, n + 1 \notin s PROVE s \in P
    <3>1. ASSUME NEW i \in s PROVE i \in A
      BY <2>1
    <3>2. QED BY <3>1
  <2>2. A \subseteq B /\ n + 1 \notin A
    OBVIOUS
  <2>3. QED BY <2>1, <2>2
<1> HIDE DEF A, B, P, All, With, f
<1>6. IsFiniteSet(With) /\ Cardinality(With) = 2 ^ n
  <2>1. ExistsBijection(P, With)
    BY <1>4 DEF ExistsBijection
  <2>2. QED BY <1>2, <2>1, FS_Bijection
<1>7. Cardinality(All) = Cardinality(P) + Cardinality(With) - 0
  <2>1. Cardinality(P \cap With) = 0
    BY <1>5, FS_EmptySet
  <2>2. QED BY <1>2, <1>5, <1>6, <2>1, FS_Union
<1>8. 2 ^ n \in Nat
  BY <1>2, FS_CardinalityType
<1>9. QED
  <2>1. PICK a \in Nat : a = 2 ^ n
    BY <1>8
  <2>2. 2 ^ (n + 1) = a + a
    BY <1>2, <1>3, <1>6, <1>7, <2>1
  <2>3. QED BY <2>1, <2>2

\* Powers of two are larger than their exponents.
LEMMA PowersGrow ==
    ASSUME NEW n \in Nat
    PROVE  2 ^ n \in Nat /\ 2 ^ n > n
<1> DEFINE Q == {k \in Nat : 2 ^ k > k}
<1>1. 0 \in Q
  OBVIOUS
<1>2. ASSUME NEW k \in Nat, k \in Q PROVE k + 1 \in Q
  <2>1. 2 ^ k \in Nat /\ 2 ^ (k + 1) = 2 * 2 ^ k /\ 2 ^ k > k
    BY <1>2, PowersDouble
  <2>2. 2 * 2 ^ k > k + 1
    BY <2>1
  <2>3. QED BY <2>1, <2>2
<1>3. Nat \subseteq Q
  <2> HIDE DEF Q
  <2> QED BY <1>1, <1>2, Induction
<1>4. QED BY <1>3, PowersDouble

\* Exponents are added.
LEMMA PowersMultiply ==
    ASSUME NEW m \in Nat, NEW n \in Nat
    PROVE  2 ^ (m + n) = 2 ^ m * 2 ^ n
<1> DEFINE Q == {k \in Nat : 2 ^ (m + k) = 2 ^ m * 2 ^ k}
<1>1. 0 \in Q
  <2>1. m + 0 = m /\ 2 ^ m \in Nat /\ 2 ^ 0 = 1
    BY PowersDouble
  <2>2. QED BY <2>1
<1>2. ASSUME NEW k \in Nat, k \in Q PROVE k + 1 \in Q
  <2>1. 2 ^ (m + k) = 2 ^ m * 2 ^ k /\ 2 ^ m \in Nat /\ 2 ^ k \in Nat
    BY <1>2, PowersDouble
  <2>2. m + k \in Nat /\ m + (k + 1) = (m + k) + 1
    OBVIOUS
  <2>3. 2 ^ ((m + k) + 1) = 2 * 2 ^ (m + k) /\ 2 ^ (k + 1) = 2 * 2 ^ k
    BY <2>2, PowersDouble
  <2>4. 2 * (2 ^ m * 2 ^ k) = 2 ^ m * (2 * 2 ^ k)
    <3>1. PICK a \in Nat, b \in Nat : a = 2 ^ m /\ b = 2 ^ k
      BY <2>1
    <3>2. 2 * (a * b) = a * (2 * b)
      OBVIOUS
    <3>3. QED BY <3>1, <3>2
  <2>5. QED BY <2>1, <2>2, <2>3, <2>4
<1>3. Nat \subseteq Q
  <2> HIDE DEF Q
  <2> QED BY <1>1, <1>2, Induction
<1>4. QED BY <1>3

\* A power of two that is less than another is at most half of it.
LEMMA PowersBelow ==
    ASSUME NEW m \in Nat, NEW k \in Nat, 2 ^ k < 2 ^ m
    PROVE  k < m /\ 2 ^ (k + 1) <= 2 ^ m
<1>1. \A i \in Nat : 2 ^ i \in Nat /\ 2 ^ i >= 1
  <2>1. ASSUME NEW i \in Nat PROVE 2 ^ i \in Nat /\ 2 ^ i >= 1
    BY PowersGrow
  <2>2. QED BY <2>1
<1>2. \A i \in Nat, d \in Nat : 2 ^ i <= 2 ^ (i + d)
  <2>1. ASSUME NEW i \in Nat, NEW d \in Nat PROVE 2 ^ i <= 2 ^ (i + d)
    <3>1. PICK a \in Nat, b \in Nat : a = 2 ^ i /\ b = 2 ^ d /\ b >= 1
      BY <1>1
    <3>2. 1 * a <= b * a
      BY <3>1, ProductGrows
    <3>3. 2 ^ (i + d) = a * b /\ a * b = b * a
      BY <3>1, PowersMultiply
    <3>4. QED BY <3>1, <3>2, <3>3
  <2>2. QED BY <2>1
<1>3. ~ (m <= k)
  <2>1. SUFFICES ASSUME m <= k PROVE FALSE
    OBVIOUS
  <2>2. k - m \in Nat /\ m + (k - m) = k
    BY <2>1
  <2>3. 2 ^ m <= 2 ^ (m + (k - m))
    BY <1>2, <2>2
  <2>4. 2 ^ m <= 2 ^ k
    BY <2>2, <2>3
  <2>5. 2 ^ m \in Nat /\ 2 ^ k \in Nat
    BY <1>1
  <2>6. QED BY <2>4, <2>5
<1>4. m - (k + 1) \in Nat /\ (k + 1) + (m - (k + 1)) = m /\ k + 1 \in Nat
  BY <1>3
<1>5. 2 ^ (k + 1) <= 2 ^ ((k + 1) + (m - (k + 1)))
  BY <1>2, <1>4
<1>6. QED BY <1>3, <1>4, <1>5

\* A quotient and a remainder are the only ones.
LEMMA DivisionIs ==
    ASSUME NEW s \in Nat, NEW a \in Nat, NEW b \in Nat, b < s, NEW n, n = s * a + b
    PROVE  n \in Nat /\ n \div s = a /\ n % s = b
<1>1. n \in Nat /\ s > 0
  BY NaturalProduct
<1>2. a * s <= n /\ n < (a + 1) * s /\ (a + 1) * s \in Nat
  <2>1. a * s \in Nat /\ s * a = a * s /\ (a + 1) * s = a * s + s
    BY NaturalProduct
  <2>2. QED BY <2>1
<1>3. a <= n \div s /\ ~ (a + 1 <= n \div s) /\ n \div s \in Nat
  BY <1>1, <1>2, FitsAsOften
<1>4. n \div s = a
  BY <1>3
<1>5. n % s = n - s * (n \div s)
  BY <1>1
<1>6. s * a \in Nat
  BY NaturalProduct
<1>7. QED BY <1>1, <1>4, <1>5, <1>6

\* Every number has a quotient and a remainder.
LEMMA Division ==
    ASSUME NEW s \in Nat, s > 0, NEW n \in Nat
    PROVE  \E q \in Nat, r \in Nat : q = n \div s /\ r = n % s /\ r < s /\ n = s * q + r
<1>1. n \div s \in Nat /\ n % s \in Nat /\ n % s < s
  OBVIOUS
<1>2. n % s = n - s * (n \div s)
  OBVIOUS
<1>3. PICK q \in Nat, r \in Nat, p \in Nat : q = n \div s /\ r = n % s /\ p = s * q
  BY <1>1, NaturalProduct
<1>4. r = n - p
  BY <1>2, <1>3
<1>5. n = p + r
  BY <1>3, <1>4
<1>6. QED BY <1>1, <1>3, <1>5

\* What has a remainder has it, or half the modulus more, for twice the modulus.
LEMMA HalfTheModulus ==
    ASSUME NEW s \in Nat, s > 0, NEW t \in Nat, t < s, NEW j \in Nat
    PROVE  j % s = t <=> j % (2 * s) = t \/ j % (2 * s) = t + s
<1>1. 2 * s \in Nat /\ 2 * s > 0
  OBVIOUS
<1>2. PICK q \in Nat, r \in Nat : q = j \div (2 * s) /\ r = j % (2 * s) /\ r < 2 * s
                               /\ j = (2 * s) * q + r
  BY <1>1, Division
<1>3. (2 * s) * q = s * (2 * q) /\ s * (2 * q + 1) = s * (2 * q) + s /\ s * (2 * q) \in Nat
  BY NaturalProduct
<1>4. CASE r < s
  <2>1. j = s * (2 * q) + r /\ 2 * q \in Nat
    BY <1>2, <1>3
  <2>2. j % s = r
    BY <1>4, <2>1, DivisionIs
  <2>3. QED BY <1>2, <1>4, <2>2
<1>5. CASE ~ (r < s)
  <2>1. r - s \in Nat /\ r - s < s /\ 2 * q + 1 \in Nat
    BY <1>2, <1>5
  <2>2. j = s * (2 * q + 1) + (r - s)
    BY <1>2, <1>3, <2>1
  <2>3. j % s = r - s
    BY <2>1, <2>2, DivisionIs
  <2>4. j % s = t <=> r = t + s
    BY <2>1, <2>3
  <2>5. r # t
    BY <1>5
  <2>6. QED BY <1>2, <2>4, <2>5
<1>6. QED BY <1>4, <1>5

\* A set with a least number has it as its minimum.
LEMMA MinIs ==
    ASSUME NEW S \in SUBSET Nat, NEW n \in S, \A i \in S : n <= i
    PROVE  Min(S) = n
<1>1. \A x \in S : (\A y \in S : x <= y) => x = n
  <2>1. \A x \in S : x \in Nat
    OBVIOUS
  <2>2. QED BY <2>1
<1>2. QED BY <1>1 DEF Min

\* The larger of two numbers.
LEMMA MaxOfTwo ==
    ASSUME NEW a \in Int, NEW b \in Int
    PROVE  Max({a, b}) = IF a >= b THEN a ELSE b
<1>1. PICK m : m = (IF a >= b THEN a ELSE b) /\ m \in {a, b}
  OBVIOUS
<1>2. \A x \in {a, b} : (\A y \in {a, b} : x >= y) <=> x = m
  BY <1>1
<1>3. QED BY <1>1, <1>2 DEF Max

\* A set with a greatest number has it as its maximum.
LEMMA MaxIs ==
    ASSUME NEW S \in SUBSET Nat, NEW n \in S, \A i \in S : i <= n
    PROVE  Max(S) = n
<1>1. \A x \in S : (\A y \in S : x >= y) => x = n
  <2>1. \A x \in S : x \in Nat
    OBVIOUS
  <2>2. QED BY <2>1
<1>2. \A y \in S : n >= y
  <2>1. \A x \in S : x \in Nat
    OBVIOUS
  <2>2. QED BY <2>1
<1>3. QED BY <1>1, <1>2 DEF Max

\* What is below a number is, shifted, below the number shifted.
LEMMA BelowShifted ==
    ASSUME NEW p \in Nat, NEW n \in Nat, NEW q \in Nat, p + n <= q
    PROVE  \A e \in Below(n) : p + e \in Below(q)
  BY DEF Below

\* A value made a step at a time.
Iterated(f, N, start, g) == f = [n \in 0 .. N |-> IF n = 0 THEN start ELSE g[n][f[n - 1]]]

\* A value made by functions into a set is there, and in the set.
LEMMA Iterates ==
    ASSUME NEW N \in Nat, NEW S, NEW start \in S, NEW g \in [1 .. N -> [S -> S]]
    PROVE  \E f \in [0 .. N -> S] : Iterated(f, N, start, g)
<1> DEFINE Upto(f, n) == \A k \in 0 .. N : k <= n => f[k] = IF k = 0 THEN start ELSE g[k][f[k - 1]]
           Q == {n \in Nat : \E f \in [0 .. N -> S] : Upto(f, n)}
<1>1. 0 \in Q
  <2> DEFINE f == [n \in 0 .. N |-> start]
  <2>1. f \in [0 .. N -> S] /\ Upto(f, 0)
    OBVIOUS
  <2>2. QED BY <2>1
<1>2. ASSUME NEW n \in Nat, n \in Q PROVE n + 1 \in Q
  <2>1. PICK f \in [0 .. N -> S] : Upto(f, n)
    BY <1>2
  <2>2. CASE n + 1 > N
    <3>1. Upto(f, n + 1)
      BY <2>1, <2>2
    <3>2. QED BY <3>1
  <2>3. CASE n + 1 <= N
    <3> DEFINE next == g[n + 1][f[n]]
               nx == [f EXCEPT ![n + 1] = next]
    <3>1. n + 1 \in 1 .. N /\ n \in 0 .. N /\ n + 1 \in 0 .. N /\ f[n] \in S /\ next \in S
      BY <2>3
    <3> HIDE DEF next
    <3>2. nx \in [0 .. N -> S] /\ nx[n + 1] = next /\ \A k \in 0 .. N : k # n + 1 => nx[k] = f[k]
      BY <3>1
    <3> HIDE DEF nx
    <3>3. ASSUME NEW k \in 0 .. N, k <= n + 1
          PROVE  nx[k] = IF k = 0 THEN start ELSE g[k][nx[k - 1]]
      <4>1. CASE k = n + 1
        <5>1. nx[k - 1] = f[n] /\ k # 0
          BY <3>1, <3>2, <4>1
        <5>2. QED BY <3>2, <4>1, <5>1 DEF next
      <4>2. CASE k # n + 1
        <5>1. k <= n
          BY <3>3, <4>2
        <5>2. f[k] = IF k = 0 THEN start ELSE g[k][f[k - 1]]
          BY <2>1, <5>1
        <5>3. k # 0 => k - 1 \in 0 .. N /\ k - 1 # n + 1
          BY <5>1
        <5>4. QED BY <3>2, <4>2, <5>2, <5>3
      <4>3. QED BY <4>1, <4>2
    <3>4. Upto(nx, n + 1)
      BY <3>3
    <3>5. QED BY <3>2, <3>4
  <2>4. QED BY <2>2, <2>3
<1>3. Nat \subseteq Q
  <2> HIDE DEF Q
  <2> QED BY <1>1, <1>2, Induction
<1>4. PICK f \in [0 .. N -> S] : Upto(f, N)
  BY <1>3
<1>5. f = [n \in 0 .. N |-> f[n]]
  OBVIOUS
<1>6. \A n \in 0 .. N : f[n] = IF n = 0 THEN start ELSE g[n][f[n - 1]]
  BY <1>4
<1>7. f = [n \in 0 .. N |-> IF n = 0 THEN start ELSE g[n][f[n - 1]]]
  BY <1>5, <1>6
<1>8. QED BY <1>7 DEF Iterated

-----------------------------------------------------------------------------
(* Sums, as the folds of the community modules form them: c picks what is  *)
(* added next.                                                             *)

\* A choice from every subset, and a sum that takes the chosen element first.
Picks(c, S) == \A s \in SUBSET S : s # {} => c[s] \in s

Rest(it, s, g, c) == IF s = {} THEN 0 ELSE it[s \ {c[s]}] + g[c[s]]
Sums(it, S, g, c) == it = [s \in SUBSET S |-> Rest(it, s, g, c)]

\* The subsets of a finite set are well founded under leaving an element out.
LEMMA SubsetsShrink ==
    ASSUME NEW S, IsFiniteSet(S), NEW s \in SUBSET S, s # {}, NEW x \in s
    PROVE  /\ s \ {x} \in SUBSET S
           /\ Cardinality(s) \in Nat /\ Cardinality(s) > 0
           /\ Cardinality(s \ {x}) = Cardinality(s) - 1
<1>1. IsFiniteSet(s)
  BY FS_Subset
<1>2. Cardinality(s) \in Nat /\ Cardinality(s) # 0
  BY <1>1, FS_CardinalityType, FS_EmptySet
<1>3. Cardinality(s \ {x}) = Cardinality(s) - 1
  BY <1>1, FS_RemoveElement
<1>4. QED BY <1>2, <1>3

\* The sum over a finite set that a fold chooses is there.
LEMMA SumsExist ==
    ASSUME NEW S, IsFiniteSet(S), NEW g, NEW c, Picks(c, S)
    PROVE  \E it : Sums(it, S, g, c)
<1> DEFINE Upto(it, n) == \A s \in SUBSET S : Cardinality(s) <= n => it[s] = Rest(it, s, g, c)
           Q == {n \in Nat : \E it : Upto(it, n)}
<1>0. \A s \in SUBSET S : IsFiniteSet(s) /\ Cardinality(s) \in Nat /\ Cardinality(s) <= Cardinality(S)
  BY FS_Subset, FS_CardinalityType
<1>1. 0 \in Q
  <2> DEFINE it == [s \in SUBSET S |-> 0]
  <2>1. ASSUME NEW s \in SUBSET S, Cardinality(s) <= 0
        PROVE  it[s] = Rest(it, s, g, c)
    <3>1. Cardinality(s) = 0 /\ IsFiniteSet(s)
      BY <1>0, <2>1
    <3>2. s = {}
      BY <3>1, FS_EmptySet
    <3>3. QED BY <3>2 DEF Rest
  <2> HIDE DEF it
  <2>2. Upto(it, 0)
    BY <2>1
  <2>3. QED BY <2>2
<1>2. ASSUME NEW n \in Nat, n \in Q
      PROVE  n + 1 \in Q
  <2>1. PICK it : Upto(it, n)
    BY <1>2
  <2> DEFINE nx == [s \in SUBSET S |-> IF Cardinality(s) <= n THEN it[s] ELSE it[s \ {c[s]}] + g[c[s]]]
  <2>2. ASSUME NEW s \in SUBSET S, Cardinality(s) <= n + 1
        PROVE  nx[s] = Rest(nx, s, g, c)
    <3>1. CASE s = {}
      <4>1. Cardinality(s) = 0
        BY <3>1, FS_EmptySet
      <4>2. Cardinality(s) <= n
        BY <4>1
      <4>3. nx[s] = it[s] /\ it[s] = Rest(it, s, g, c)
        BY <2>1, <4>2
      <4>4. QED BY <3>1, <4>3 DEF Rest
    <3>2. CASE s # {}
      <4>1. c[s] \in s
        BY <3>2 DEF Picks
      <4>2. /\ s \ {c[s]} \in SUBSET S /\ Cardinality(s) \in Nat
            /\ Cardinality(s \ {c[s]}) = Cardinality(s) - 1
        BY <3>2, <4>1, SubsetsShrink
      <4>3. Cardinality(s \ {c[s]}) <= n
        BY <2>2, <4>2
      <4>4. nx[s \ {c[s]}] = it[s \ {c[s]}]
        BY <4>2, <4>3
      <4>5. Cardinality(s) <= n => it[s] = it[s \ {c[s]}] + g[c[s]]
        BY <2>1, <3>2 DEF Rest
      <4>6. nx[s] = it[s \ {c[s]}] + g[c[s]]
        BY <4>5
      <4> HIDE DEF nx
      <4>7. QED BY <3>2, <4>4, <4>6 DEF Rest
    <3>3. QED BY <3>1, <3>2
  <2> HIDE DEF nx
  <2>3. Upto(nx, n + 1)
    BY <2>2
  <2>4. QED BY <2>3
<1>3. Nat \subseteq Q
  <2> HIDE DEF Q
  <2> QED BY <1>1, <1>2, Induction
<1>4. Cardinality(S) \in Nat
  BY FS_CardinalityType
<1>5. PICK it : Upto(it, Cardinality(S))
  BY <1>3, <1>4
<1> DEFINE all == [s \in SUBSET S |-> it[s]]
<1>6. ASSUME NEW s \in SUBSET S
      PROVE  all[s] = Rest(all, s, g, c)
  <2>1. it[s] = Rest(it, s, g, c)
    BY <1>0, <1>5
  <2>2. all[s] = it[s] /\ all[s \ {c[s]}] = it[s \ {c[s]}]
    OBVIOUS
  <2> HIDE DEF all
  <2>3. QED BY <2>1, <2>2 DEF Rest
<1>7. all = [s \in SUBSET S |-> all[s]]
  OBVIOUS
<1>8. [s \in SUBSET S |-> all[s]] = [s \in SUBSET S |-> Rest(all, s, g, c)]
  <2> HIDE DEF all
  <2> QED BY <1>6
<1> HIDE DEF all
<1>9. Sums(all, S, g, c)
  BY <1>7, <1>8 DEF Sums
<1>10. QED BY <1>9

\* What two sums of the same values are: the same, and a natural number if the
\* values are.
LEMMA SumsAgree ==
    ASSUME NEW S, IsFiniteSet(S), NEW g, NEW h, NEW c, Picks(c, S), \A x \in S : g[x] = h[x],
           NEW it, NEW jt, Sums(it, S, g, c), Sums(jt, S, h, c)
    PROVE  it[S] = jt[S]
<1> DEFINE Q == {n \in Nat : \A s \in SUBSET S : Cardinality(s) = n => it[s] = jt[s]}
<1>1. ASSUME NEW s \in SUBSET S, s # {}
      PROVE  /\ c[s] \in s /\ s \ {c[s]} \in SUBSET S
             /\ it[s] = it[s \ {c[s]}] + g[c[s]]
             /\ jt[s] = jt[s \ {c[s]}] + g[c[s]]
             /\ Cardinality(s) \in Nat /\ Cardinality(s) > 0
             /\ Cardinality(s \ {c[s]}) = Cardinality(s) - 1
  <2>1. c[s] \in s
    BY <1>1 DEF Picks
  <2>2. it[s] = Rest(it, s, g, c) /\ jt[s] = Rest(jt, s, h, c)
    BY DEF Sums
  <2>3. QED BY <1>1, <2>1, <2>2, SubsetsShrink DEF Rest
<1>2. it[{}] = 0 /\ jt[{}] = 0
  <2>1. it[{}] = Rest(it, {}, g, c) /\ jt[{}] = Rest(jt, {}, h, c)
    BY DEF Sums
  <2>2. QED BY <2>1 DEF Rest
<1>3. 0 \in Q
  <2>1. ASSUME NEW s \in SUBSET S, Cardinality(s) = 0
        PROVE  s = {}
    BY <2>1, FS_Subset, FS_EmptySet
  <2>2. QED BY <1>2, <2>1
<1>4. ASSUME NEW n \in Nat, n \in Q
      PROVE  n + 1 \in Q
  <2>1. ASSUME NEW s \in SUBSET S, Cardinality(s) = n + 1
        PROVE  it[s] = jt[s]
    <3>1. s # {}
      <4>1. n + 1 # 0
        OBVIOUS
      <4>2. QED BY <2>1, <4>1, FS_EmptySet
    <3>2. Cardinality(s \ {c[s]}) = n /\ s \ {c[s]} \in SUBSET S
      BY <1>1, <2>1, <3>1
    <3>3. it[s \ {c[s]}] = jt[s \ {c[s]}]
      BY <1>4, <3>2
    <3>4. QED BY <1>1, <3>1, <3>3
  <2>2. QED BY <2>1
<1>5. Nat \subseteq Q
  <2> HIDE DEF Q
  <2> QED BY <1>3, <1>4, Induction
<1>6. Cardinality(S) \in Nat
  BY FS_CardinalityType
<1>7. QED BY <1>5, <1>6

\* A sum of natural numbers is one.
LEMMA SumsNatural ==
    ASSUME NEW S, IsFiniteSet(S), NEW g, NEW c, Picks(c, S), \A x \in S : g[x] \in Nat,
           NEW it, Sums(it, S, g, c)
    PROVE  \A s \in SUBSET S : it[s] \in Nat
<1> DEFINE Q == {n \in Nat : \A s \in SUBSET S : Cardinality(s) = n => it[s] \in Nat}
<1>1. ASSUME NEW s \in SUBSET S, s # {}
      PROVE  /\ c[s] \in s /\ s \ {c[s]} \in SUBSET S
             /\ it[s] = it[s \ {c[s]}] + g[c[s]] /\ g[c[s]] \in Nat
             /\ Cardinality(s \ {c[s]}) = Cardinality(s) - 1
  <2>1. c[s] \in s
    BY <1>1 DEF Picks
  <2>2. it[s] = Rest(it, s, g, c)
    BY DEF Sums
  <2>3. QED BY <1>1, <2>1, <2>2, SubsetsShrink DEF Rest
<1>2. it[{}] = 0
  <2>1. it[{}] = Rest(it, {}, g, c)
    BY DEF Sums
  <2>2. QED BY <2>1 DEF Rest
<1>3. 0 \in Q
  <2>1. ASSUME NEW s \in SUBSET S, Cardinality(s) = 0
        PROVE  s = {}
    BY <2>1, FS_Subset, FS_EmptySet
  <2>2. QED BY <1>2, <2>1
<1>4. ASSUME NEW n \in Nat, n \in Q
      PROVE  n + 1 \in Q
  <2>1. ASSUME NEW s \in SUBSET S, Cardinality(s) = n + 1
        PROVE  it[s] \in Nat
    <3>1. s # {}
      <4>1. n + 1 # 0
        OBVIOUS
      <4>2. QED BY <2>1, <4>1, FS_EmptySet
    <3>2. Cardinality(s \ {c[s]}) = n /\ s \ {c[s]} \in SUBSET S
      BY <1>1, <2>1, <3>1
    <3>3. it[s \ {c[s]}] \in Nat
      BY <1>4, <3>2
    <3>4. it[s] = it[s \ {c[s]}] + g[c[s]] /\ g[c[s]] \in Nat
      BY <1>1, <3>1
    <3>5. QED BY <3>3, <3>4
  <2>2. QED BY <2>1
<1>5. Nat \subseteq Q
  <2> HIDE DEF Q
  <2> QED BY <1>3, <1>4, Induction
<1>6. \A s \in SUBSET S : Cardinality(s) \in Nat
  BY FS_CardinalityType, FS_Subset
<1>7. QED BY <1>5, <1>6

\* A sum that adds the chosen element in front.
Fronts(it, S, g, c) ==
    it = [s \in SUBSET S |-> IF s = {} THEN 0 ELSE g[c[s]] + it[s \ {c[s]}]]

\* The order of the two summands does not matter.
LEMMA RestInFront ==
    ASSUME NEW s, NEW it, NEW g, NEW c, s # {} => g[c[s]] \in Nat /\ it[s \ {c[s]}] \in Nat
    PROVE  Rest(it, s, g, c) = IF s = {} THEN 0 ELSE g[c[s]] + it[s \ {c[s]}]
<1>1. CASE s = {}
  BY <1>1 DEF Rest
<1>2. CASE s # {}
  <2>1. PICK a \in Nat, b \in Nat : a = g[c[s]] /\ b = it[s \ {c[s]}]
    BY <1>2
  <2>2. a + b = b + a
    OBVIOUS
  <2>3. Rest(it, s, g, c) = b + a
    BY <1>2, <2>1 DEF Rest
  <2>4. QED BY <1>2, <2>1, <2>2, <2>3
<1>3. QED BY <1>1, <1>2

\* A sum of natural numbers may add the chosen element in front.
LEMMA SumsInFront ==
    ASSUME NEW S, IsFiniteSet(S), NEW g, NEW c, Picks(c, S), \A x \in S : g[x] \in Nat, NEW it
    PROVE  Fronts(it, S, g, c) <=> Sums(it, S, g, c)
<1>1. ASSUME NEW s \in SUBSET S, s # {}
      PROVE  /\ c[s] \in s /\ s \ {c[s]} \in SUBSET S /\ g[c[s]] \in Nat
             /\ Cardinality(s \ {c[s]}) = Cardinality(s) - 1
  <2>1. c[s] \in s
    BY <1>1 DEF Picks
  <2>2. QED BY <1>1, <2>1, SubsetsShrink
<1>2. ASSUME Sums(it, S, g, c) PROVE Fronts(it, S, g, c)
  <2>1. \A s \in SUBSET S : it[s] \in Nat
    BY <1>2, SumsNatural
  <2>2. \A s \in SUBSET S :
          Rest(it, s, g, c) = IF s = {} THEN 0 ELSE g[c[s]] + it[s \ {c[s]}]
    BY <1>1, <2>1, RestInFront
  <2>3. QED BY <1>2, <2>2 DEF Sums, Fronts
<1>3. ASSUME Fronts(it, S, g, c) PROVE Sums(it, S, g, c)
  <2>1. \A s \in SUBSET S : it[s] = IF s = {} THEN 0 ELSE g[c[s]] + it[s \ {c[s]}]
    BY <1>3 DEF Fronts
  <2> DEFINE Q == {n \in Nat : \A s \in SUBSET S : Cardinality(s) = n => it[s] \in Nat}
  <2>2. 0 \in Q
    <3>1. ASSUME NEW s \in SUBSET S, Cardinality(s) = 0 PROVE s = {}
      BY <3>1, FS_Subset, FS_EmptySet
    <3>2. it[{}] = 0
      BY <2>1
    <3>3. QED BY <3>1, <3>2
  <2>3. ASSUME NEW n \in Nat, n \in Q PROVE n + 1 \in Q
    <3>1. ASSUME NEW s \in SUBSET S, Cardinality(s) = n + 1 PROVE it[s] \in Nat
      <4>1. s # {}
        <5>1. n + 1 # 0
          OBVIOUS
        <5>2. QED BY <3>1, <5>1, FS_EmptySet
      <4>2. Cardinality(s \ {c[s]}) = n /\ s \ {c[s]} \in SUBSET S /\ g[c[s]] \in Nat
        BY <1>1, <3>1, <4>1
      <4>3. it[s \ {c[s]}] \in Nat
        BY <2>3, <4>2
      <4>4. it[s] = g[c[s]] + it[s \ {c[s]}]
        BY <2>1, <4>1
      <4>5. QED BY <4>2, <4>3, <4>4
    <3>2. QED BY <3>1
  <2>4. Nat \subseteq Q
    <3> HIDE DEF Q
    <3> QED BY <2>2, <2>3, Induction
  <2>5. \A s \in SUBSET S : Cardinality(s) \in Nat
    BY FS_CardinalityType, FS_Subset
  <2>6. \A s \in SUBSET S : it[s] \in Nat
    BY <2>4, <2>5
  <2> HIDE DEF Q
  <2>7. \A s \in SUBSET S :
          Rest(it, s, g, c) = IF s = {} THEN 0 ELSE g[c[s]] + it[s \ {c[s]}]
    BY <1>1, <2>6, RestInFront
  <2>8. QED BY <1>3, <2>7 DEF Sums, Fronts
<1>4. QED BY <1>2, <1>3

\* Any element may be the one added last.
TakesAny(it, S, g) == \A s \in SUBSET S : \A x \in s : it[s] = it[s \ {x}] + g[x]

\* A sum of natural numbers takes any of its elements last, whatever c picks.
LEMMA SumsTakeAny ==
    ASSUME NEW S, IsFiniteSet(S), NEW g, NEW c, Picks(c, S), \A x \in S : g[x] \in Nat,
           NEW it, Sums(it, S, g, c)
    PROVE  TakesAny(it, S, g)
<1> DEFINE Q == {n \in Nat : \A s \in SUBSET S : \A x \in s :
                              Cardinality(s) = n => it[s] = it[s \ {x}] + g[x]}
<1>1. \A s \in SUBSET S : it[s] \in Nat /\ Cardinality(s) \in Nat
  BY SumsNatural, FS_CardinalityType, FS_Subset
<1>2. ASSUME NEW s \in SUBSET S, s # {}
      PROVE  \E y \in s : it[s] = it[s \ {y}] + g[y]
  <2>1. PICK y : y = c[s] /\ y \in s
    BY <1>2 DEF Picks
  <2>2. it[s] = Rest(it, s, g, c)
    BY DEF Sums
  <2>3. it[s] = it[s \ {y}] + g[y]
    BY <1>2, <2>1, <2>2 DEF Rest
  <2>4. QED BY <2>1, <2>3
<1>3. \A s \in SUBSET S : \A x \in s :
        s \ {x} \in SUBSET S /\ Cardinality(s) > 0 /\ Cardinality(s \ {x}) = Cardinality(s) - 1
  BY SubsetsShrink
<1>4. 0 \in Q
  BY <1>1, <1>3
<1>5. ASSUME NEW n \in Nat, n \in Q PROVE n + 1 \in Q
  <2>1. ASSUME NEW s \in SUBSET S, NEW x \in s, Cardinality(s) = n + 1
        PROVE  it[s] = it[s \ {x}] + g[x]
    <3>1. PICK y \in s : it[s] = it[s \ {y}] + g[y]
      BY <1>2
    <3>2. CASE x = y
      BY <3>1, <3>2
    <3>3. CASE x # y
      <4>1. /\ s \ {x} \in SUBSET S /\ Cardinality(s \ {x}) = n
            /\ s \ {y} \in SUBSET S /\ Cardinality(s \ {y}) = n
        BY <1>3, <2>1
      <4>2. x \in s \ {y} /\ y \in s \ {x}
        BY <3>3
      <4>3. it[s \ {y}] = it[(s \ {y}) \ {x}] + g[x]
        BY <1>5, <4>1, <4>2
      <4>4. it[s \ {x}] = it[(s \ {x}) \ {y}] + g[y]
        BY <1>5, <4>1, <4>2
      <4>5. PICK r \in SUBSET S : r = (s \ {y}) \ {x} /\ r = (s \ {x}) \ {y}
        <5>1. (s \ {y}) \ {x} = (s \ {x}) \ {y}
          OBVIOUS
        <5>2. QED BY <5>1
      <4>6. it[r] \in Nat /\ g[x] \in Nat /\ g[y] \in Nat
        BY <1>1
      <4>7. it[s \ {y}] = it[r] + g[x] /\ it[s \ {x}] = it[r] + g[y]
        BY <4>3, <4>4, <4>5
      <4>8. QED BY <3>1, <4>6, <4>7
    <3>4. QED BY <3>2, <3>3
  <2>2. QED BY <2>1
<1>6. Nat \subseteq Q
  <2> HIDE DEF Q
  <2> QED BY <1>4, <1>5, Induction
<1>7. QED BY <1>1, <1>6 DEF TakesAny

\* A sum over the first numbers that grows by the next.
SumsBy(it, N, g) ==
    /\ it[1 .. 0] = 0
    /\ \A n \in 1 .. N : it[1 .. n] = it[1 .. n - 1] + g[n]
    /\ \A n \in 0 .. N : it[1 .. n] \in Nat

\* A sum over 1 .. N is the one that adds the numbers in their order.
LEMMA SumsByPrefix ==
    ASSUME NEW N \in Nat, NEW g, NEW c, Picks(c, 1 .. N), \A i \in 1 .. N : g[i] \in Nat,
           NEW it, Sums(it, 1 .. N, g, c)
    PROVE  SumsBy(it, N, g)
<1>1. IsFiniteSet(1 .. N)
  BY FS_Interval
<1>2. \A s \in SUBSET (1 .. N) : it[s] \in Nat /\ \A x \in s : it[s] = it[s \ {x}] + g[x]
  <2>1. \A s \in SUBSET (1 .. N) : it[s] \in Nat
    BY <1>1, SumsNatural
  <2>2. \A s \in SUBSET (1 .. N) : \A x \in s : it[s] = it[s \ {x}] + g[x]
    <3>1. TakesAny(it, 1 .. N, g)
      BY <1>1, SumsTakeAny
    <3>2. QED BY <3>1 DEF TakesAny
  <2>3. QED BY <2>1, <2>2
<1>3. it[{}] = 0
  <2>1. it[{}] = Rest(it, {}, g, c)
    BY DEF Sums
  <2>2. QED BY <2>1 DEF Rest
<1>4. 1 .. 0 = {}
  OBVIOUS
<1>5. ASSUME NEW n \in 1 .. N PROVE it[1 .. n] = it[1 .. n - 1] + g[n]
  <2>1. 1 .. n \in SUBSET (1 .. N) /\ n \in 1 .. n /\ (1 .. n) \ {n} = 1 .. n - 1
    OBVIOUS
  <2>2. it[1 .. n] = it[(1 .. n) \ {n}] + g[n]
    BY <1>2, <2>1
  <2>3. QED BY <2>1, <2>2
<1>6. \A n \in 0 .. N : it[1 .. n] \in Nat
  <2>1. \A n \in 0 .. N : 1 .. n \in SUBSET (1 .. N)
    OBVIOUS
  <2>2. QED BY <1>2, <2>1
<1>7. QED BY <1>3, <1>4, <1>5, <1>6 DEF SumsBy

\* One number is a multiple of another.
Multiple(a, k, b) == a = k * b

\* A sum of multiples is the multiple of the sum.
LEMMA SumsScale ==
    ASSUME NEW N \in Nat, NEW g, NEW h, NEW c, Picks(c, 1 .. N), NEW k \in Nat,
           \A i \in 1 .. N : h[i] \in Nat /\ Multiple(g[i], k, h[i]),
           NEW it, Sums(it, 1 .. N, g, c), NEW jt, Sums(jt, 1 .. N, h, c)
    PROVE  Multiple(it[1 .. N], k, jt[1 .. N])
<1>1. \A i \in 1 .. N : g[i] \in Nat
  <2>1. ASSUME NEW i \in 1 .. N PROVE g[i] \in Nat
    <3>1. PICK b \in Nat : b = h[i] /\ g[i] = k * b
      BY DEF Multiple
    <3>2. QED BY <3>1, NaturalProduct
  <2>2. QED BY <2>1
<1>2. SumsBy(it, N, g) /\ SumsBy(jt, N, h)
  <2>1. \A i \in 1 .. N : h[i] \in Nat
    OBVIOUS
  <2>2. SumsBy(it, N, g)
    BY <1>1, SumsByPrefix
  <2>3. SumsBy(jt, N, h)
    BY <2>1, SumsByPrefix
  <2>4. QED BY <2>2, <2>3
<1>3. /\ it[1 .. 0] = 0 /\ jt[1 .. 0] = 0
      /\ \A n \in 1 .. N : it[1 .. n] = it[1 .. n - 1] + g[n] /\ jt[1 .. n] = jt[1 .. n - 1] + h[n]
      /\ \A n \in 0 .. N : jt[1 .. n] \in Nat
  BY <1>2 DEF SumsBy
<1> DEFINE Q == {n \in Nat : n <= N => it[1 .. n] = k * jt[1 .. n]}
<1>4. 0 \in Q
  <2>1. k * 0 = 0
    OBVIOUS
  <2>2. QED BY <1>3, <2>1
<1>5. ASSUME NEW n \in Nat, n \in Q PROVE n + 1 \in Q
  <2>1. SUFFICES ASSUME n + 1 <= N PROVE it[1 .. n + 1] = k * jt[1 .. n + 1]
    OBVIOUS
  <2>2. PICK m \in 1 .. N : m = n + 1 /\ m - 1 = n /\ n \in 0 .. N
    BY <2>1
  <2>3. it[1 .. m] = it[1 .. n] + g[m] /\ jt[1 .. m] = jt[1 .. n] + h[m]
    BY <1>3, <2>2
  <2>4. PICK a \in Nat, b \in Nat : a = jt[1 .. n] /\ b = h[m] /\ g[m] = k * b
    BY <1>3, <2>2 DEF Multiple
  <2>5. it[1 .. n] = k * a
    BY <1>5, <2>2, <2>4
  <2>6. k * (a + b) = k * a + k * b
    OBVIOUS
  <2>7. it[1 .. m] = k * (a + b) /\ jt[1 .. m] = a + b
    BY <2>3, <2>4, <2>5, <2>6
  <2>8. QED BY <2>2, <2>7
<1>6. Nat \subseteq Q
  <2> HIDE DEF Q
  <2> QED BY <1>4, <1>5, Induction
<1>7. N \in 0 .. N
  OBVIOUS
<1>8. QED BY <1>6, <1>7 DEF Multiple

-----------------------------------------------------------------------------
(* The largest of the values: argmaxKernel.                                *)

\* What a candidate is to be of the values at the indices J: none, if nothing
\* but minus infinity is there, or the first of the largest.
Leads(values, J, b) ==
    \/ b = Best(NegInf, 0) /\ \A j \in J : values[j] = NegInf
    \/ /\ b.index \in J /\ b = Best(values[b.index], b.index) /\ values[b.index] # NegInf
       /\ \A j \in J : ~ TakesOther(Best(values[j], j), b)

Scored(values, count) == values \in [Below(count) -> Nat \cup {NegInf}]

\* The better of two candidates leads the indices of both.
LEMMA LeadsBoth ==
    ASSUME NEW count \in Nat, NEW values, Scored(values, count),
           NEW J \in SUBSET Below(count), NEW K \in SUBSET Below(count),
           NEW a, NEW b, Leads(values, J, a), Leads(values, K, b)
    PROVE  Leads(values, J \cup K, IF TakesOther(a, b) THEN a ELSE b)
<1> DEFINE c == IF TakesOther(a, b) THEN a ELSE b
           None(S, x) == x = Best(NegInf, 0) /\ \A j \in S : values[j] = NegInf
           First(S, x) == /\ x.index \in S /\ x = Best(values[x.index], x.index)
                          /\ values[x.index] # NegInf
                          /\ \A j \in S : ~ TakesOther(Best(values[j], j), x)
<1>1. \A j \in J \cup K : j \in Nat /\ values[j] \in Int /\ values[j] >= NegInf
  BY DEF Scored, Below, NegInf
<1>2. \A v, i : Best(v, i).value = v /\ Best(v, i).index = i
  BY DEF Best
<1>3. CASE None(J, a) /\ None(K, b)
  <2>1. c = Best(NegInf, 0)
    BY <1>3
  <2>2. QED BY <1>3, <2>1 DEF Leads
<1>4. CASE None(J, a) /\ First(K, b)
  <2>1. b.value \in Int /\ b.value > NegInf /\ a.value = NegInf
    BY <1>1, <1>2, <1>4 DEF NegInf
  <2>2. c = b
    BY <2>1 DEF TakesOther, NegInf
  <2>3. ASSUME NEW j \in J PROVE ~ TakesOther(Best(values[j], j), b)
    <3>1. values[j] = NegInf
      BY <1>4
    <3>2. QED BY <1>2, <2>1, <3>1 DEF TakesOther, NegInf
  <2>4. First(J \cup K, b)
    BY <1>4, <2>3
  <2>5. QED BY <2>2, <2>4 DEF Leads
<1>5. CASE First(J, a) /\ None(K, b)
  <2>1. a.value \in Int /\ a.value > NegInf /\ b.value = NegInf
    BY <1>1, <1>2, <1>5 DEF NegInf
  <2>2. c = a
    BY <2>1 DEF TakesOther, NegInf
  <2>3. ASSUME NEW j \in K PROVE ~ TakesOther(Best(values[j], j), a)
    <3>1. values[j] = NegInf
      BY <1>5
    <3>2. QED BY <1>2, <2>1, <3>1 DEF TakesOther, NegInf
  <2>4. First(J \cup K, a)
    BY <1>5, <2>3
  <2>5. QED BY <2>2, <2>4 DEF Leads
<1>6. CASE First(J, a) /\ First(K, b)
  <2>1. /\ a.value \in Int /\ a.index \in Nat /\ a.value = values[a.index]
        /\ b.value \in Int /\ b.index \in Nat /\ b.value = values[b.index]
    BY <1>1, <1>2, <1>6
  <2>2. CASE TakesOther(a, b)
    <3>1. ASSUME NEW j \in K PROVE ~ TakesOther(Best(values[j], j), a)
      <4>1. ~ TakesOther(Best(values[j], j), b)
        BY <1>6
      <4>2. QED BY <1>1, <1>2, <2>1, <2>2, <4>1 DEF TakesOther
    <3>2. First(J \cup K, a)
      BY <1>6, <3>1
    <3>3. QED BY <2>2, <3>2 DEF Leads
  <2>3. CASE ~ TakesOther(a, b)
    <3>1. ASSUME NEW j \in J PROVE ~ TakesOther(Best(values[j], j), b)
      <4>1. ~ TakesOther(Best(values[j], j), a)
        BY <1>6
      <4>2. QED BY <1>1, <1>2, <2>1, <2>3, <4>1 DEF TakesOther
    <3>2. First(J \cup K, b)
      BY <1>6, <3>1
    <3>3. QED BY <2>3, <3>2 DEF Leads
  <2>4. QED BY <2>2, <2>3
<1>7. QED BY <1>3, <1>4, <1>5, <1>6 DEF Leads

\* A thread's scan leads the indices it strides over.
LEMMA ScanLeads ==
    ASSUME NEW count \in Nat, NEW values, Scored(values, count), NEW t \in Threads
    PROVE  Leads(values, {j \in Below(count) : j % Block = t}, Scan(values, t))
<1> DEFINE R == CeilDiv(count, Block)
           S == [value : Int, index : Nat]
           start == Best(NegInf, 0)
           Index(n) == t + (n - 1) * Block
           Step(n, b) == IF Index(n) < count /\ values[Index(n)] > b.value THEN Best(values[Index(n)], Index(n)) ELSE b
           g == [n \in 1 .. R |-> [b \in S |-> Step(n, b)]]
           Scans(f) == f = [n \in 0 .. R |-> IF n = 0 THEN start ELSE Step(n, f[n - 1])]
<1>1. Block \in Nat /\ Block > 0 /\ t \in Nat /\ t < Block
  <2>1. WarpSize \in Nat /\ Warps \in Nat /\ WarpSize > 0 /\ Warps > 0
    BY GeometryAssumption
  <2>2. 1 * WarpSize <= Warps * WarpSize /\ Warps * WarpSize \in Nat
    BY <2>1, ProductGrows, NaturalProduct
  <2>3. Block \in Nat /\ Block > 0
    BY <2>1, <2>2 DEF Block
  <2>4. QED BY <2>3 DEF Threads, Below
<1> HIDE DEF Block
<1>2. R \in Nat /\ \A n \in Nat : n * Block < count => n < R
  <2>1. PICK B \in Nat : B = Block /\ B > 0
    BY <1>1
  <2>2. PICK room \in Nat : room = count + B - 1
    BY <2>1
  <2>3. room \div B \in Nat /\ \A n \in Nat : n <= room \div B <=> n * B <= room
    BY <2>1, FitsAsOften
  <2>4. ASSUME NEW n \in Nat, n * B < count PROVE n < room \div B
    <3>1. (n + 1) * B = n * B + B /\ n * B \in Nat /\ (n + 1) * B \in Nat
      BY NaturalProduct
    <3>2. (n + 1) * B <= room
      BY <2>1, <2>2, <2>4, <3>1
    <3>3. n + 1 <= room \div B
      BY <2>3, <3>2
    <3>4. QED BY <2>3, <3>3
  <2>5. R = room \div B
    BY <2>1, <2>2 DEF CeilDiv
  <2>6. QED BY <2>1, <2>3, <2>4, <2>5
<1> HIDE DEF R
<1>3. \A n \in 1 .. R : Index(n) \in Nat
  <2>1. ASSUME NEW n \in 1 .. R PROVE Index(n) \in Nat
    <3>1. (n - 1) * Block \in Nat
      BY <1>1, <1>2, NaturalProduct
    <3>2. QED BY <1>1, <3>1
  <2>2. QED BY <2>1
<1>4. Cardinality(DOMAIN values) = count
  <2>1. DOMAIN values = 0 .. count - 1
    BY DEF Scored, Below
  <2>2. Cardinality(0 .. count - 1) = count
    BY FS_Interval
  <2>3. QED BY <2>1, <2>2
<1>5. Scan(values, t) = (CHOOSE f : Scans(f))[R]
  BY <1>4 DEF Scan, R
<1>6. \E f : Scans(f)
  <2>1. \A n \in 1 .. R, b \in S : Step(n, b) \in S
    <3>1. ASSUME NEW n \in 1 .. R, Index(n) < count PROVE values[Index(n)] \in Int /\ Index(n) \in Nat
      BY <1>3, <3>1 DEF Scored, Below, NegInf
    <3> HIDE DEF At
    <3>2. QED BY <3>1 DEF Best
  <2>2. start \in S
    BY DEF Best, NegInf
  <2> HIDE DEF S, start, Step
  <2>3. g \in [1 .. R -> [S -> S]]
    BY <2>1
  <2> HIDE DEF g
  <2>4. PICK f \in [0 .. R -> S] : Iterated(f, R, start, g)
    BY <1>2, <2>2, <2>3, Iterates
  <2>5. ASSUME NEW n \in 0 .. R, n # 0 PROVE g[n][f[n - 1]] = Step(n, f[n - 1])
    <3>1. n \in 1 .. R /\ n - 1 \in 0 .. R
      BY <1>2, <2>5
    <3>2. f[n - 1] \in S
      BY <3>1
    <3>3. QED BY <3>1, <3>2 DEF g
  <2>6. [n \in 0 .. R |-> IF n = 0 THEN start ELSE g[n][f[n - 1]]]
          = [n \in 0 .. R |-> IF n = 0 THEN start ELSE Step(n, f[n - 1])]
    BY <2>5
  <2>7. Scans(f)
    BY <2>4, <2>6 DEF Iterated
  <2>8. QED BY <2>7
<1>7. PICK f : Scans(f) /\ Scan(values, t) = f[R]
  <2> HIDE DEF Scans
  <2> QED BY <1>5, <1>6
<1> HIDE DEF g
<1> DEFINE Seen(n) == {j \in Below(count) : j % Block = t /\ j < n * Block}
           Q == {n \in Nat : n <= R => Leads(values, Seen(n), f[n])}
<1>8. 0 \in Q
  <2>1. Seen(0) = {} /\ 0 \in 0 .. R
    BY <1>1, <1>2 DEF Below
  <2>2. f[0] = Best(NegInf, 0)
    BY <1>7, <2>1
  <2> HIDE DEF Seen
  <2>3. QED BY <2>1, <2>2 DEF Leads
<1>9. ASSUME NEW n \in Nat, n \in Q PROVE n + 1 \in Q
  <2>1. SUFFICES ASSUME n + 1 <= R PROVE Leads(values, Seen(n + 1), f[n + 1])
    OBVIOUS
  <2>2. Leads(values, Seen(n), f[n])
    BY <1>2, <1>9, <2>1
  <2>3. PICK i \in Nat : i = t + n * Block /\ n * Block \in Nat
    BY <1>1, NaturalProduct
  <2>4. f[n + 1] = IF i < count /\ values[i] > f[n].value THEN Best(values[i], i) ELSE f[n]
    <3>1. n + 1 \in 0 .. R /\ n + 1 # 0 /\ (n + 1) - 1 = n
      BY <1>2, <2>1
    <3>2. f[n + 1] = Step(n + 1, f[n])
      BY <1>7, <3>1
    <3>3. Index(n + 1) = i
      BY <2>3, <3>1
    <3>4. QED BY <3>2, <3>3
  <2>5. i % Block = t
    <3>1. i = Block * n + t
      BY <1>1, <2>3
    <3>2. QED BY <1>1, <3>1, DivisionIs
  <2>6. \A j \in Seen(n + 1) : j \in Seen(n) \/ j = i
    <3>1. ASSUME NEW j \in Below(count), j % Block = t, j < (n + 1) * Block, ~ (j < n * Block)
          PROVE  j = i
      <4>1. j \in Nat
        BY DEF Below
      <4>2. PICK q \in Nat, r \in Nat : q = j \div Block /\ r = j % Block /\ r < Block /\ j = Block * q + r
        BY <1>1, <4>1, Division
      <4>3. j = q * Block + t /\ q * Block \in Nat
        BY <1>1, <3>1, <4>2, NaturalProduct
      <4>4. ~ (q <= n - 1)
        <5>1. SUFFICES ASSUME q + 1 <= n PROVE FALSE
          OBVIOUS
        <5>2. (q + 1) * Block <= n * Block /\ (q + 1) * Block = q * Block + Block
          BY <1>1, <5>1, ProductGrows
        <5>3. QED BY <1>1, <2>3, <3>1, <4>3, <5>2
      <4>5. ~ (n + 1 <= q)
        <5>1. SUFFICES ASSUME n + 1 <= q PROVE FALSE
          OBVIOUS
        <5>2. (n + 1) * Block <= q * Block
          BY <1>1, <5>1, ProductGrows
        <5>3. (n + 1) * Block \in Nat
          BY <1>1, NaturalProduct
        <5>4. QED BY <1>1, <3>1, <4>3, <5>2, <5>3
      <4>6. q = n
        BY <4>4, <4>5
      <4>7. QED BY <1>1, <2>3, <4>3, <4>6
    <3>2. QED BY <3>1
  <2>7. \A j \in Seen(n) : j \in Seen(n + 1) /\ j < i /\ j \in Nat /\ values[j] \in Int
    <3>1. (n + 1) * Block = n * Block + Block
      BY <1>1
    <3>2. \A j \in Seen(n) : j \in Nat /\ j < n * Block /\ j \in Below(count) /\ j % Block = t
      BY DEF Below
    <3>3. \A j \in Below(count) : values[j] \in Int
      BY DEF Scored, NegInf
    <3>4. QED BY <1>1, <2>3, <3>1, <3>2, <3>3
  <2>8. i < count => i \in Seen(n + 1) /\ values[i] \in Int /\ values[i] >= NegInf
    <3>1. (n + 1) * Block = n * Block + Block
      BY <1>1
    <3>2. ASSUME i < count PROVE i \in Below(count) /\ values[i] \in Int /\ values[i] >= NegInf
      BY <3>2 DEF Scored, NegInf, Below
    <3>3. QED BY <1>1, <2>3, <2>5, <3>1, <3>2
  <2>9. ~ (i < count) => i \notin Seen(n + 1)
    BY DEF Below
  <2>10. \A v, k : Best(v, k).value = v /\ Best(v, k).index = k
    BY DEF Best
  <2> HIDE DEF Seen
  <2>11. CASE ~ (i < count)
    <3>1. Seen(n + 1) = Seen(n) /\ f[n + 1] = f[n]
      BY <2>4, <2>6, <2>7, <2>9, <2>11
    <3>2. QED BY <2>2, <3>1
  <2>12. CASE i < count /\ values[i] > f[n].value
    <3>1. f[n + 1] = Best(values[i], i)
      BY <2>4, <2>12
    <3>2. f[n].value \in Int /\ f[n].value >= NegInf /\ \A j \in Seen(n) : values[j] <= f[n].value
      <4>1. CASE f[n] = Best(NegInf, 0) /\ \A j \in Seen(n) : values[j] = NegInf
        BY <2>10, <4>1 DEF NegInf
      <4>2. CASE /\ f[n].index \in Seen(n) /\ f[n] = Best(values[f[n].index], f[n].index)
                 /\ \A j \in Seen(n) : ~ TakesOther(Best(values[j], j), f[n])
        <5>1. f[n].value = values[f[n].index]
          BY <2>10, <4>2
        <5>2. f[n].index \in Below(count)
          BY <4>2 DEF Seen
        <5>3. f[n].value \in Int /\ f[n].value >= NegInf
          BY <5>1, <5>2 DEF Scored, NegInf
        <5>4. \A j \in Seen(n) : values[j] <= f[n].value
          BY <2>7, <2>10, <4>2, <5>3 DEF TakesOther
        <5>5. QED BY <5>3, <5>4
      <4>3. QED BY <2>2, <4>1, <4>2 DEF Leads
    <3>3. \A j \in Seen(n + 1) : ~ TakesOther(Best(values[j], j), Best(values[i], i))
      BY <2>6, <2>7, <2>8, <2>10, <2>12, <3>2 DEF TakesOther
    <3>4. values[i] # NegInf
      BY <2>8, <2>12, <3>2
    <3>5. QED BY <2>8, <2>10, <2>12, <3>1, <3>3, <3>4 DEF Leads
  <2>13. CASE i < count /\ ~ (values[i] > f[n].value)
    <3>1. f[n + 1] = f[n]
      BY <2>4, <2>13
    <3>2. CASE f[n] = Best(NegInf, 0) /\ \A j \in Seen(n) : values[j] = NegInf
      <4>1. values[i] = NegInf
        BY <2>8, <2>10, <2>13, <3>2 DEF NegInf
      <4>2. QED BY <2>6, <3>1, <3>2, <4>1 DEF Leads
    <3>3. CASE /\ f[n].index \in Seen(n) /\ f[n] = Best(values[f[n].index], f[n].index)
               /\ values[f[n].index] # NegInf
               /\ \A j \in Seen(n) : ~ TakesOther(Best(values[j], j), f[n])
      <4>1. f[n].value = values[f[n].index] /\ f[n].value \in Int
            /\ f[n].index \in Nat /\ f[n].index < i /\ f[n].index \in Seen(n + 1)
        BY <2>7, <2>10, <3>3
      <4>2. ~ TakesOther(Best(values[i], i), f[n])
        BY <2>8, <2>10, <2>13, <4>1 DEF TakesOther
      <4>3. \A j \in Seen(n + 1) : ~ TakesOther(Best(values[j], j), f[n])
        BY <2>6, <3>3, <4>2
      <4>4. QED BY <3>1, <3>3, <4>1, <4>3 DEF Leads
    <3>4. QED BY <2>2, <3>2, <3>3 DEF Leads
  <2>14. QED BY <2>11, <2>12, <2>13
<1>10. Nat \subseteq Q
  <2> HIDE DEF Q
  <2> QED BY <1>8, <1>9, Induction
<1>11. Leads(values, Seen(R), f[R])
  BY <1>2, <1>10
<1>12. \A j \in Below(count) : j % Block = t => j < R * Block
  <2>1. ASSUME NEW j \in Below(count), ~ (j < R * Block) PROVE FALSE
    <3>1. R * Block \in Nat /\ R * Block < count /\ R \in Nat
      BY <1>1, <1>2, <2>1, NaturalProduct DEF Below
    <3>2. R < R
      BY <1>2, <3>1
    <3>3. QED BY <1>2, <3>2
  <2>2. QED BY <2>1
<1>13. Seen(R) = {j \in Below(count) : j % Block = t}
  BY <1>12
<1>14. QED BY <1>7, <1>11, <1>13

\* A block is a power of two.
LEMMA BlockIsPower ==
    \E m \in Nat : Block = 2 ^ m
<1>1. PICK a \in Nat : WarpSize = 2 ^ a
  BY GeometryAssumption DEF PowerOfTwo
<1>2. PICK b \in Nat : Warps = 2 ^ b
  BY GeometryAssumption DEF PowerOfTwo
<1>3. 2 ^ (b + a) = 2 ^ b * 2 ^ a /\ b + a \in Nat
  BY PowersMultiply
<1>4. QED BY <1>1, <1>2, <1>3 DEF Block

\* What the tree has of a stride, made of what it has of twice the stride.
Halved(wide, stride) ==
    [t \in Threads |->
        IF t < stride /\ TakesOther(wide[t + stride], wide[t]) THEN wide[t + stride] ELSE wide[t]]
TreeRow(best, scans, stride) ==
    IF stride >= Block THEN scans ELSE Halved(best[2 * stride], stride)
Strides == {2 ^ k : k \in 0 .. Block}
IsTree(best, scans) == best = [stride \in Strides |-> TreeRow(best, scans, stride)]

\* The strides are powers of two, each of its own exponent, up to a block at least.
LEMMA StridesAre ==
    /\ Block \in Nat /\ Block > 0
    /\ \A k \in Nat : 2 ^ k \in Nat /\ 2 ^ k > k /\ 2 * 2 ^ k = 2 ^ (k + 1) /\ k + 1 \in Nat
    /\ 2 ^ Block >= Block
    /\ \A i, j \in Nat : 2 ^ i = 2 ^ j => i = j
<1>1. PICK m \in Nat : Block = 2 ^ m
  BY BlockIsPower
<1>2. \A k \in Nat : 2 ^ k \in Nat /\ 2 ^ k > k /\ 2 * 2 ^ k = 2 ^ (k + 1) /\ k + 1 \in Nat
  BY PowersDouble, PowersGrow
<1>3. Block \in Nat /\ Block > 0
  BY <1>1, <1>2
<1>4. 2 ^ Block >= Block
  BY <1>2, <1>3
<1>5. \A i, j \in Nat : i < j => 2 ^ i # 2 ^ j
  <2>1. ASSUME NEW i \in Nat, NEW d \in Nat, d > 0, 2 ^ (i + d) = 2 ^ i PROVE FALSE
    <3>1. PICK a \in Nat, b \in Nat : a = 2 ^ i /\ b = 2 ^ d /\ a >= 1 /\ b >= 2
      <4>1. 2 ^ i > i /\ 2 ^ d > d /\ 2 ^ i \in Nat /\ 2 ^ d \in Nat
        BY <1>2
      <4>2. QED BY <2>1, <4>1
    <3>2. 2 * a <= b * a /\ b * a \in Nat
      BY <3>1, ProductGrows, NaturalProduct
    <3>3. a * b = a
      BY <2>1, <3>1, PowersMultiply
    <3>4. QED BY <3>1, <3>2, <3>3
  <2>2. ASSUME NEW i \in Nat, NEW j \in Nat, i < j PROVE 2 ^ i # 2 ^ j
    <3>1. j - i \in Nat /\ j - i > 0 /\ i + (j - i) = j
      BY <2>2
    <3>2. QED BY <2>1, <3>1
  <2>3. QED BY <2>2
<1>6. \A i, j \in Nat : 2 ^ i = 2 ^ j => i = j
  <2>1. ASSUME NEW i \in Nat, NEW j \in Nat, 2 ^ i = 2 ^ j PROVE i = j
    <3>1. ~ (i < j) /\ ~ (j < i)
      BY <1>5, <2>1
    <3>2. QED BY <3>1
  <2>2. QED BY <2>1
<1>7. QED BY <1>2, <1>3, <1>4, <1>6

\* The function the tree's recursion chooses is there.
LEMMA TreeExists ==
    ASSUME NEW scans
    PROVE  \E best : IsTree(best, scans)
<1> DEFINE Down(b, n) == \A k \in 0 .. Block : k >= Block - n => b[2 ^ k] = TreeRow(b, scans, 2 ^ k)
           Q == {n \in Nat : n <= Block => \E b : DOMAIN b = Strides /\ Down(b, n)}
<1>1. /\ Block \in Nat /\ Block > 0
      /\ \A k \in Nat : 2 ^ k \in Nat /\ 2 ^ k > k /\ 2 * 2 ^ k = 2 ^ (k + 1) /\ k + 1 \in Nat
      /\ 2 ^ Block >= Block
      /\ \A i, j \in Nat : 2 ^ i = 2 ^ j => i = j
  BY StridesAre
<1> HIDE DEF Block
<1>2. \A k \in 0 .. Block : k \in Nat /\ 2 ^ k \in Strides
  BY <1>1 DEF Strides
<1>3. 0 \in Q
  <2> DEFINE b == [s \in Strides |-> scans]
  <2>1. ASSUME NEW k \in 0 .. Block, k >= Block - 0 PROVE b[2 ^ k] = TreeRow(b, scans, 2 ^ k)
    <3>1. k = Block /\ 2 ^ k \in Strides /\ 2 ^ k >= Block
      BY <1>1, <1>2, <2>1
    <3>2. b[2 ^ k] = scans
      BY <3>1
    <3> HIDE DEF b
    <3>3. QED BY <3>1, <3>2 DEF TreeRow
  <2>2. DOMAIN b = Strides
    OBVIOUS
  <2> HIDE DEF b
  <2>3. QED BY <2>1, <2>2
<1>4. ASSUME NEW n \in Nat, n \in Q PROVE n + 1 \in Q
  <2>1. SUFFICES ASSUME n + 1 <= Block PROVE \E b : DOMAIN b = Strides /\ Down(b, n + 1)
    OBVIOUS
  <2>2. PICK b : DOMAIN b = Strides /\ Down(b, n)
    BY <1>1, <1>4, <2>1
  <2>3. PICK low \in 0 .. Block : low = Block - (n + 1)
    BY <1>1, <2>1
  <2> DEFINE row == TreeRow(b, scans, 2 ^ low)
             c == [s \in Strides |-> IF s = 2 ^ low THEN row ELSE b[s]]
  <2> HIDE DEF row
  <2>4. \A k \in 0 .. Block : k # low => c[2 ^ k] = b[2 ^ k]
    BY <1>1, <1>2
  <2>5. c[2 ^ low] = row /\ DOMAIN c = Strides
    BY <1>2
  <2> HIDE DEF c
  <2>6. ASSUME NEW k \in 0 .. Block, k >= low PROVE TreeRow(c, scans, 2 ^ k) = TreeRow(b, scans, 2 ^ k)
    <3>1. CASE 2 ^ k >= Block
      BY <3>1 DEF TreeRow
    <3>2. CASE ~ (2 ^ k >= Block)
      <4>1. k + 1 \in 0 .. Block /\ k + 1 # low /\ 2 * 2 ^ k = 2 ^ (k + 1)
        BY <1>1, <1>2, <2>3, <2>6, <3>2
      <4>2. c[2 * 2 ^ k] = b[2 * 2 ^ k]
        BY <2>4, <4>1
      <4>3. QED BY <3>2, <4>2 DEF TreeRow
    <3>3. QED BY <3>1, <3>2
  <2>7. ASSUME NEW k \in 0 .. Block, k >= Block - (n + 1) PROVE c[2 ^ k] = TreeRow(c, scans, 2 ^ k)
    <3>1. CASE k = low
      <4>1. c[2 ^ k] = TreeRow(b, scans, 2 ^ k)
        BY <2>5, <3>1 DEF row
      <4>2. k >= low
        BY <2>3, <2>7
      <4>3. QED BY <2>6, <4>1, <4>2
    <3>2. CASE k # low
      <4>1. k >= Block - n /\ k >= low
        BY <1>1, <2>3, <2>7, <3>2
      <4>2. b[2 ^ k] = TreeRow(b, scans, 2 ^ k)
        BY <2>2, <4>1
      <4>3. QED BY <2>4, <2>6, <3>2, <4>1, <4>2
    <3>3. QED BY <3>1, <3>2
  <2>8. QED BY <2>5, <2>7
<1>5. Nat \subseteq Q
  <2> HIDE DEF Q
  <2> QED BY <1>3, <1>4, Induction
<1>6. PICK b : DOMAIN b = Strides /\ Down(b, Block)
  <2>1. Block \in Q /\ Block <= Block
    <3> HIDE DEF Q
    <3> QED BY <1>1, <1>5
  <2> HIDE DEF Down
  <2>2. QED BY <2>1
<1> DEFINE best == [s \in Strides |-> b[s]]
<1>7. \A s \in Strides : best[s] = b[s]
  OBVIOUS
<1>8. ASSUME NEW s \in Strides PROVE b[s] = TreeRow(best, scans, s)
  <2>1. PICK k \in 0 .. Block : s = 2 ^ k
    BY DEF Strides
  <2>2. b[s] = TreeRow(b, scans, s)
    BY <1>1, <1>6, <2>1
  <2> HIDE DEF best
  <2>3. ASSUME ~ (s >= Block) PROVE best[2 * s] = b[2 * s]
    <3>1. k + 1 \in 0 .. Block /\ 2 * s = 2 ^ (k + 1)
      BY <1>1, <1>2, <2>1, <2>3
    <3>2. QED BY <1>2, <1>7, <3>1
  <2>4. QED BY <2>2, <2>3 DEF TreeRow
<1>9. [s \in Strides |-> b[s]] = [s \in Strides |-> TreeRow(best, scans, s)]
  <2> HIDE DEF best
  <2> QED BY <1>8
<1>10. best = [s \in Strides |-> TreeRow(best, scans, s)]
  <2>1. best = [s \in Strides |-> b[s]]
    OBVIOUS
  <2> HIDE DEF best
  <2>2. QED BY <1>9, <2>1
<1> HIDE DEF best
<1>11. QED BY <1>10 DEF IsTree

\* The tree's root leads all indices.
LEMMA RootLeads ==
    ASSUME NEW count \in Nat, NEW values, Scored(values, count)
    PROVE  Leads(values, Below(count), ArgmaxTree(values))
<1> DEFINE scans == [t \in Threads |-> Scan(values, t)]
           Class(s, t) == {j \in Below(count) : j % s = t}
<1>1. PICK best : IsTree(best, scans) /\ ArgmaxTree(values) = best[1][0]
  <2>1. ArgmaxTree(values) = (CHOOSE best : IsTree(best, scans))[1][0]
    BY DEF ArgmaxTree, IsTree, TreeRow, Halved, Strides
  <2> HIDE DEF scans
  <2>2. QED BY <2>1, TreeExists
<1>2. /\ Block \in Nat /\ Block > 0
      /\ \A k \in Nat : 2 ^ k \in Nat /\ 2 ^ k > k /\ 2 * 2 ^ k = 2 ^ (k + 1) /\ k + 1 \in Nat
      /\ 2 ^ Block >= Block
      /\ \A i, j \in Nat : 2 ^ i = 2 ^ j => i = j
  BY StridesAre
<1>3. PICK m \in Nat : Block = 2 ^ m
  BY BlockIsPower
<1>4. \A t \in Threads : t \in Nat /\ scans[t] = Scan(values, t) /\ Leads(values, Class(Block, t), scans[t])
  <2>1. ASSUME NEW t \in Threads
        PROVE  t \in Nat /\ scans[t] = Scan(values, t) /\ Leads(values, Class(Block, t), scans[t])
    <3>1. t \in Nat /\ scans[t] = Scan(values, t)
      BY <1>2 DEF Threads, Below
    <3>2. Leads(values, Class(Block, t), Scan(values, t))
      BY ScanLeads
    <3>3. QED BY <3>1, <3>2
  <2>2. QED BY <2>1
<1> HIDE DEF Block, scans
<1>5. Threads = 0 .. Block - 1
  BY DEF Threads, Below
<1>6. \A k \in 0 .. m : k <= Block /\ k \in 0 .. Block /\ best[2 ^ k] = TreeRow(best, scans, 2 ^ k)
  <2>1. ASSUME NEW k \in 0 .. m
        PROVE  k <= Block /\ k \in 0 .. Block /\ best[2 ^ k] = TreeRow(best, scans, 2 ^ k)
    <3>1. k <= Block /\ k \in 0 .. Block
      BY <1>2, <1>3
    <3>2. 2 ^ k \in Strides
      BY <3>1 DEF Strides
    <3>3. best[2 ^ k] = TreeRow(best, scans, 2 ^ k)
      BY <1>1, <3>2 DEF IsTree
    <3>4. QED BY <3>1, <3>3
  <2>2. QED BY <2>1
<1> DEFINE Right(k) == \A t \in 0 .. 2 ^ k - 1 : Leads(values, Class(2 ^ k, t), best[2 ^ k][t])
           Q == {n \in Nat : \A k \in 0 .. m : k = m - n => Right(k)}
<1>7. 0 \in Q
  <2>1. m - 0 = m /\ m \in 0 .. m /\ 2 ^ m >= Block
    BY <1>2, <1>3
  <2>2. best[2 ^ m] = scans
    BY <1>6, <2>1 DEF TreeRow
  <2>3. Right(m)
    BY <1>3, <1>4, <1>5, <2>2
  <2> HIDE DEF Right
  <2>4. QED BY <2>1, <2>3
<1>8. ASSUME NEW n \in Nat, n \in Q PROVE n + 1 \in Q
  <2>1. SUFFICES ASSUME NEW k \in 0 .. m, k = m - (n + 1) PROVE Right(k)
    <3> HIDE DEF Right
    <3> QED OBVIOUS
  <2>2. k \in Nat /\ k + 1 \in 0 .. m /\ k + 1 = m - n /\ k < m
    BY <2>1
  <2>3. PICK s \in Nat : s = 2 ^ k /\ 2 * s = 2 ^ (k + 1) /\ s > 0
    BY <1>2
  <2>4. Right(k + 1)
    <3> HIDE DEF Right
    <3> QED BY <1>8, <2>2
  <2>5. s < Block /\ 2 * s <= Block
    <3>1. 2 ^ k < 2 ^ m
      <4>1. 2 ^ k # 2 ^ m
        BY <1>2, <2>2
      <4>2. ~ (2 ^ m < 2 ^ k)
        BY <2>2, PowersBelow
      <4>3. 2 ^ k \in Nat /\ 2 ^ m \in Nat
        BY <1>2
      <4>4. QED BY <4>1, <4>2, <4>3
    <3>2. 2 ^ (k + 1) <= 2 ^ m
      BY <3>1, PowersBelow
    <3>3. QED BY <1>3, <2>3, <3>1, <3>2
  <2>6. best[s] = Halved(best[2 * s], s)
    BY <1>2, <1>6, <2>2, <2>3, <2>5 DEF TreeRow
  <2>7. ASSUME NEW t \in 0 .. s - 1 PROVE Leads(values, Class(s, t), best[s][t])
    <3> DEFINE a == best[2 * s][t + s]
               b == best[2 * s][t]
    <3>1. t \in 0 .. 2 * s - 1 /\ t + s \in 0 .. 2 * s - 1 /\ t \in Threads /\ t < s /\ t \in Nat
      BY <1>2, <1>5, <2>3, <2>5
    <3>2. Leads(values, Class(2 * s, t + s), a) /\ Leads(values, Class(2 * s, t), b)
      BY <2>3, <2>4, <3>1
    <3>3. best[s][t] = IF TakesOther(a, b) THEN a ELSE b
      BY <2>6, <3>1 DEF Halved
    <3>4. Class(s, t) = Class(2 * s, t + s) \cup Class(2 * s, t)
      <4>1. \A j \in Below(count) : j \in Nat
        BY DEF Below
      <4>2. \A j \in Below(count) : j % s = t <=> j % (2 * s) = t \/ j % (2 * s) = t + s
        BY <2>3, <3>1, <4>1, HalfTheModulus
      <4>3. QED BY <4>2
    <3> HIDE DEF a, b
    <3>5. /\ Class(2 * s, t + s) \in SUBSET Below(count) /\ Class(2 * s, t) \in SUBSET Below(count)
      OBVIOUS
    <3> HIDE DEF Class
    <3>6. Leads(values, Class(2 * s, t + s) \cup Class(2 * s, t), IF TakesOther(a, b) THEN a ELSE b)
      BY <3>2, <3>5, LeadsBoth
    <3>7. QED BY <3>3, <3>4, <3>6
  <2>8. QED BY <2>2, <2>3, <2>7
<1>9. Nat \subseteq Q
  <2> HIDE DEF Q
  <2> QED BY <1>7, <1>8, Induction
<1>10. Right(0)
  <2> HIDE DEF Right
  <2>1. m \in Q /\ m - m = 0 /\ 0 \in 0 .. m
    BY <1>9
  <2>2. QED BY <2>1
<1>11. Leads(values, Class(1, 0), best[1][0])
  <2>1. 2 ^ 0 = 1 /\ 0 \in 0 .. 1 - 1
    OBVIOUS
  <2>2. QED BY <1>10, <2>1
<1>12. Class(1, 0) = Below(count)
  <2>1. \A j \in Below(count) : j % 1 = 0
    BY DEF Below
  <2>2. QED BY <2>1
<1>13. QED BY <1>1, <1>11, <1>12

\* The index of the first of the largest values.
LEMMA ArgmaxIs ==
    ASSUME NEW count \in Nat, count > 0, NEW values, Scored(values, count)
    PROVE  /\ Argmax(values) \in Below(count)
           /\ \A j \in Below(count) :
                 /\ values[j] <= values[Argmax(values)]
                 /\ values[j] = values[Argmax(values)] => Argmax(values) <= j
<1>1. PICK b : b = ArgmaxTree(values) /\ Leads(values, Below(count), b)
  BY RootLeads
<1>2. \A j \in Below(count) : j \in Nat /\ values[j] \in Int /\ values[j] >= NegInf
  BY DEF Scored, NegInf, Below
<1>3. \A v, i : Best(v, i).value = v /\ Best(v, i).index = i
  BY DEF Best
<1>4. Argmax(values) = b.index
  BY <1>1 DEF Argmax
<1>5. CASE b = Best(NegInf, 0) /\ \A j \in Below(count) : values[j] = NegInf
  <2>1. 0 \in Below(count) /\ b.index = 0
    BY <1>3, <1>5 DEF Below
  <2>2. QED BY <1>2, <1>4, <1>5, <2>1 DEF NegInf
<1>6. CASE /\ b.index \in Below(count) /\ b = Best(values[b.index], b.index)
           /\ \A j \in Below(count) : ~ TakesOther(Best(values[j], j), b)
  <2>1. b.value = values[b.index] /\ b.index \in Nat /\ b.value \in Int
    BY <1>2, <1>3, <1>6
  <2>2. \A j \in Below(count) : values[j] <= b.value /\ (values[j] = b.value => b.index <= j)
    BY <1>2, <1>3, <1>6, <2>1 DEF TakesOther
  <2>3. QED BY <1>4, <1>6, <2>1, <2>2
<1>7. QED BY <1>1, <1>5, <1>6 DEF Leads

\* argmaxKernel: for every number of values and every geometry of the block,
\* the index is that of the first of the largest, as with the reference.
THEOREM ArgmaxKeepsTheFirst ==
    ASSUME NEW count \in Nat, count > 0, NEW values, Scored(values, count)
    PROVE  Argmax(values) = ArgmaxReference(values)
<1> DEFINE S == {i \in DOMAIN values : \A j \in DOMAIN values : values[j] <= values[i]}
<1>1. PICK w : /\ w = Argmax(values) /\ w \in Below(count)
               /\ \A j \in Below(count) : values[j] <= values[w] /\ (values[j] = values[w] => w <= j)
  BY ArgmaxIs
<1>2. DOMAIN values = Below(count) /\ \A j \in Below(count) : j \in Nat /\ values[j] \in Int
  BY DEF Scored, NegInf, Below
<1>3. S \in SUBSET Nat /\ w \in S
  BY <1>1, <1>2
<1>4. ASSUME NEW i \in S PROVE w <= i
  <2>1. i \in Below(count) /\ values[w] <= values[i] /\ values[i] <= values[w]
    BY <1>1, <1>2
  <2>2. values[i] = values[w]
    BY <1>1, <1>2, <2>1
  <2>3. QED BY <1>1, <2>1, <2>2
<1>5. Min(S) = w
  <2> HIDE DEF S
  <2> QED BY <1>3, <1>4, MinIs
<1>6. QED BY <1>1, <1>5 DEF ArgmaxReference

-----------------------------------------------------------------------------
(* The experts of a token: routerTopKKernel.                               *)

\* Of two experts one is ahead, and what is ahead of it is ahead of the other.
LEMMA AheadOrders ==
    ASSUME NEW E \in Nat, NEW mine \in [Below(E) -> Nat]
    PROVE  \A a, b \in Below(E) :
             /\ ~ Ahead(mine, a, a)
             /\ a # b => Ahead(mine, a, b) \/ Ahead(mine, b, a)
             /\ ~ (Ahead(mine, a, b) /\ Ahead(mine, b, a))
             /\ \A c \in Below(E) : Ahead(mine, a, b) /\ Ahead(mine, b, c) => Ahead(mine, a, c)
<1>1. \A a \in Below(E) : a \in Nat /\ mine[a] \in Nat
  BY DEF Below
<1>2. QED BY <1>1 DEF Ahead

\* An expert is known by the number of those ahead of it.
LEMMA RankIsUnique ==
    ASSUME NEW E \in Nat, NEW mine \in [Below(E) -> Nat], NEW r,
           NEW e \in Below(E), Cardinality({b \in Below(E) : Ahead(mine, b, e)}) = r
    PROVE  (CHOOSE x \in Below(E) : Cardinality({b \in Below(E) : Ahead(mine, b, x)}) = r) = e
<1> DEFINE Fore(x) == {b \in Below(E) : Ahead(mine, b, x)}
<1>1. IsFiniteSet(Below(E))
  BY FS_Interval DEF Below
<1>2. ASSUME NEW x \in Below(E), NEW y \in Below(E), Ahead(mine, x, y)
      PROVE  Cardinality(Fore(x)) # Cardinality(Fore(y))
  <2>1. Fore(x) \subseteq Fore(y) /\ x \in Fore(y) /\ x \notin Fore(x)
    BY <1>2, AheadOrders
  <2>2. Fore(y) \in SUBSET Below(E)
    OBVIOUS
  <2> HIDE DEF Fore
  <2>3. IsFiniteSet(Fore(y))
    BY <1>1, <2>2, FS_Subset
  <2>4. Fore(x) \in SUBSET Fore(y)
    BY <2>1
  <2>5. Cardinality(Fore(y)) = Cardinality(Fore(x)) => Fore(y) = Fore(x)
    BY <2>3, <2>4, FS_Subset
  <2>6. QED BY <2>1, <2>5
<1> HIDE DEF Fore
<1>3. \A x \in Below(E) : Cardinality(Fore(x)) = r => x = e
  <2>1. ASSUME NEW x \in Below(E), Cardinality(Fore(x)) = r, x # e PROVE FALSE
    <3>1. Ahead(mine, x, e) \/ Ahead(mine, e, x)
      BY <2>1, AheadOrders
    <3>2. Cardinality(Fore(e)) = r
      BY DEF Fore
    <3>3. QED BY <1>2, <2>1, <3>1, <3>2
  <2>2. QED BY <2>1
<1>4. (CHOOSE x \in Below(E) : Cardinality(Fore(x)) = r) = e
  <2>1. Cardinality(Fore(e)) = r
    BY DEF Fore
  <2>2. QED BY <1>3, <2>1
<1>5. QED BY <1>4 DEF Fore

\* What the rounds of the router have chosen: experts with exactly the ones
\* chosen earlier ahead of them; these are out for the next round.
Chosen(mine, E, n, state) ==
    /\ state.chosen \in Seq(Below(E)) /\ Len(state.chosen) = n
    /\ state.working = [e \in Below(E) |->
                          IF \E m \in 1 .. n : state.chosen[m] = e THEN NegInf ELSE mine[e]]
    /\ \A m \in 1 .. n, b \in Below(E) :
         Ahead(mine, b, state.chosen[m]) <=> \E k \in 1 .. m - 1 : state.chosen[k] = b

\* As long as there are experts a round finds the next.
LEMMA RoundChooses ==
    ASSUME NEW E \in Nat, NEW mine \in [Below(E) -> Nat], NEW n \in Nat, n < E,
           NEW was, Chosen(mine, E, n, was)
    PROVE  Chosen(mine, E, n + 1, RouterRound(was))
<1> DEFINE c == was.chosen
           w == was.working
           winner == Argmax(w)
           next == RouterRound(was)
<1>1. /\ c \in Seq(Below(E)) /\ Len(c) = n
      /\ w = [e \in Below(E) |-> IF \E m \in 1 .. n : c[m] = e THEN NegInf ELSE mine[e]]
      /\ \A m \in 1 .. n, b \in Below(E) : Ahead(mine, b, c[m]) <=> \E k \in 1 .. m - 1 : c[k] = b
  BY DEF Chosen
<1>2. next.working = [w EXCEPT ![winner] = NegInf] /\ next.chosen = Append(c, winner)
  BY DEF RouterRound
<1> HIDE DEF c, w, next
<1>3. \A b \in Below(E) : b \in Nat /\ mine[b] \in Nat
  BY DEF Below
<1>4. Scored(w, E) /\ E > 0
  BY <1>1, <1>3 DEF Scored
<1>5. /\ winner \in Below(E)
      /\ \A j \in Below(E) : w[j] <= w[winner] /\ (w[j] = w[winner] => winner <= j)
  BY <1>4, ArgmaxIs
<1> HIDE DEF winner
<1>6. \A m \in 1 .. n : c[m] \in Below(E)
  BY <1>1
<1>7. PICK free \in Below(E) : \A m \in 1 .. n : c[m] # free
  <2>1. SUFFICES ASSUME \A b \in Below(E) : \E m \in 1 .. n : c[m] = b PROVE FALSE
    OBVIOUS
  <2>2. PICK f : f = [m \in 1 .. n |-> c[m]]
    OBVIOUS
  <2>3. f \in Surjection(1 .. n, Below(E))
    BY <1>6, <2>1, <2>2 DEF Surjection
  <2>4. IsFiniteSet(1 .. n) /\ Cardinality(1 .. n) = n
    <3>1. n - 1 + 1 = n
      OBVIOUS
    <3>2. QED BY <3>1, FS_Interval
  <2>5. Cardinality(0 .. E - 1) = E
    <3>1. 0 \in Int /\ E - 1 \in Int /\ ~ (0 > E - 1)
      OBVIOUS
    <3>2. QED BY <3>1, FS_Interval
  <2>6. Cardinality(Below(E)) <= Cardinality(1 .. n)
    BY <2>3, <2>4, FS_Surjection
  <2>7. QED BY <2>4, <2>5, <2>6 DEF Below
<1>8. w[free] = mine[free] /\ w[winner] >= 0
  <2>1. w[free] = mine[free]
    BY <1>1, <1>7
  <2>2. mine[free] \in Nat /\ mine[winner] \in Nat /\ w[free] <= w[winner]
    BY <1>3, <1>5
  <2>3. w[winner] = NegInf \/ w[winner] = mine[winner]
    BY <1>1, <1>5
  <2>4. w[winner] \in Int
    BY <2>2, <2>3 DEF NegInf
  <2>5. QED BY <2>1, <2>2, <2>4
<1>9. w[winner] = mine[winner] /\ \A m \in 1 .. n : c[m] # winner
  BY <1>1, <1>5, <1>8 DEF NegInf
<1>10. \A b \in Below(E) : Ahead(mine, b, winner) <=> \E k \in 1 .. n : c[k] = b
  <2>1. ASSUME NEW k \in 1 .. n PROVE Ahead(mine, c[k], winner)
    <3>1. c[k] \in Below(E) /\ c[k] # winner
      BY <1>6, <1>9
    <3>2. ~ Ahead(mine, winner, c[k])
      <4>1. \A i \in 1 .. k - 1 : i \in 1 .. n
        OBVIOUS
      <4>2. QED BY <1>1, <1>5, <1>9, <4>1
    <3>3. QED BY <1>5, <3>1, <3>2, AheadOrders
  <2>2. ASSUME NEW b \in Below(E), \A k \in 1 .. n : c[k] # b PROVE ~ Ahead(mine, b, winner)
    <3>1. w[b] = mine[b]
      BY <1>1, <2>2
    <3>2. QED BY <1>3, <1>5, <1>9, <3>1 DEF Ahead
  <2>3. QED BY <2>1, <2>2
<1>11. PICK d \in Seq(Below(E)) : d = next.chosen /\ Len(d) = n + 1 /\ d[n + 1] = winner
                 /\ \A m \in 1 .. n : d[m] = c[m]
  <2>1. Append(c, winner) \in Seq(Below(E)) /\ Len(Append(c, winner)) = n + 1
    BY <1>1, <1>5
  <2>2. Append(c, winner)[n + 1] = winner /\ \A m \in 1 .. n : Append(c, winner)[m] = c[m]
    BY <1>1, <1>5
  <2>3. QED BY <1>2, <2>1, <2>2
<1>12. next.working = [e \in Below(E) |-> IF \E m \in 1 .. n + 1 : d[m] = e THEN NegInf ELSE mine[e]]
  <2>1. ASSUME NEW e \in Below(E)
        PROVE  (\E m \in 1 .. n + 1 : d[m] = e) <=> (e = winner \/ \E m \in 1 .. n : c[m] = e)
    <3>1. \A m \in 1 .. n + 1 : m = n + 1 \/ m \in 1 .. n
      OBVIOUS
    <3>2. n + 1 \in 1 .. n + 1 /\ \A m \in 1 .. n : m \in 1 .. n + 1
      OBVIOUS
    <3>3. QED BY <1>11, <3>1, <3>2
  <2>2. [w EXCEPT ![winner] = NegInf]
          = [e \in Below(E) |-> IF e = winner \/ \E m \in 1 .. n : c[m] = e THEN NegInf ELSE mine[e]]
    BY <1>1, <1>5
  <2>3. QED BY <1>2, <2>1, <2>2
<1>13. ASSUME NEW m \in 1 .. n + 1, NEW b \in Below(E)
       PROVE  Ahead(mine, b, d[m]) <=> \E k \in 1 .. m - 1 : d[k] = b
  <2>1. CASE m = n + 1
    <3>1. m - 1 = n
      BY <2>1
    <3>2. (\E k \in 1 .. n : d[k] = b) <=> \E k \in 1 .. n : c[k] = b
      BY <1>11
    <3>3. d[m] = winner
      BY <1>11, <2>1
    <3>4. QED BY <1>10, <3>1, <3>2, <3>3
  <2>2. CASE m \in 1 .. n
    <3>1. \A k \in 1 .. m - 1 : k \in 1 .. n
      BY <2>2
    <3>2. (\E k \in 1 .. m - 1 : d[k] = b) <=> \E k \in 1 .. m - 1 : c[k] = b
      BY <1>11, <3>1
    <3>3. QED BY <1>1, <1>11, <2>2, <3>2
  <2>3. QED BY <2>1, <2>2
<1>14. QED BY <1>11, <1>12, <1>13 DEF Chosen, next

\* The place of a choice is the number of experts ahead of it.
LEMMA ChosenByRank ==
    ASSUME NEW E \in Nat, NEW mine \in [Below(E) -> Nat], NEW n \in Nat,
           NEW state, Chosen(mine, E, n, state), NEW m \in 1 .. n
    PROVE  /\ state.chosen[m] \in Below(E)
           /\ Cardinality({b \in Below(E) : Ahead(mine, b, state.chosen[m])}) = m - 1
<1> DEFINE c == state.chosen
           Fore == {b \in Below(E) : Ahead(mine, b, c[m])}
           f == [k \in 1 .. m - 1 |-> c[k]]
<1>1. /\ c \in Seq(Below(E)) /\ Len(c) = n
      /\ \A i \in 1 .. n, b \in Below(E) : Ahead(mine, b, c[i]) <=> \E k \in 1 .. i - 1 : c[k] = b
  BY DEF Chosen
<1> HIDE DEF c
<1>2. \A i \in 1 .. n : c[i] \in Below(E)
  BY <1>1
<1>3. \A k \in 1 .. m - 1 : k \in 1 .. n /\ f[k] = c[k] /\ c[k] \in Fore
  BY <1>1, <1>2
<1>4. \A i, k \in 1 .. m - 1 : c[i] = c[k] => i = k
  <2>1. ASSUME NEW i \in 1 .. m - 1, NEW k \in 1 .. m - 1, c[i] = c[k], i < k PROVE FALSE
    <3>1. i \in 1 .. k - 1 /\ i \in 1 .. n /\ k \in 1 .. n
      BY <2>1
    <3>2. Ahead(mine, c[i], c[k])
      BY <1>1, <1>2, <3>1
    <3>3. QED BY <1>2, <2>1, <3>1, <3>2, AheadOrders
  <2>2. \A i, k \in 1 .. m - 1 : i < k \/ k < i \/ i = k
    OBVIOUS
  <2>3. QED BY <2>1, <2>2
<1>5. \A b \in Fore : \E k \in 1 .. m - 1 : f[k] = b
  BY <1>1, <1>3
<1>6. f \in [1 .. m - 1 -> Fore]
  BY <1>3
<1> HIDE DEF f, Fore
<1>7. f \in Surjection(1 .. m - 1, Fore) /\ f \in Injection(1 .. m - 1, Fore)
  BY <1>3, <1>4, <1>5, <1>6 DEF Surjection, Injection, IsInjective
<1>8. IsFiniteSet(1 .. m - 1) /\ Cardinality(1 .. m - 1) = m - 1
  BY FS_Interval
<1>9. Cardinality(Fore) = m - 1
  BY <1>7, <1>8, FS_Surjection
<1>10. QED BY <1>2, <1>9 DEF Fore, c

\* The rounds of a block, as a function of their number.
Rounds(f, mine, topK) ==
    f = [n \in 0 .. topK |->
            IF n = 0 THEN [working |-> mine, chosen |-> <<>>] ELSE RouterRound(f[n - 1])]

\* The function the rounds' recursion chooses is there.
LEMMA RoundsExist ==
    ASSUME NEW E \in Nat, E > 0, NEW mine \in [Below(E) -> Nat], NEW topK \in Nat
    PROVE  \E f : Rounds(f, mine, topK)
<1> DEFINE States == [working : [Below(E) -> Nat \cup {NegInf}], chosen : Seq(Below(E))]
           start == [working |-> mine, chosen |-> <<>>]
           g == [n \in 1 .. topK |-> [s \in States |-> RouterRound(s)]]
<1>1. start \in States
  OBVIOUS
<1>2. ASSUME NEW s \in States PROVE RouterRound(s) \in States
  <2>1. PICK w, c : /\ w = s.working /\ c = s.chosen
                    /\ w \in [Below(E) -> Nat \cup {NegInf}] /\ c \in Seq(Below(E))
    OBVIOUS
  <2>2. Scored(w, E)
    BY <2>1 DEF Scored
  <2>3. PICK a : a = Argmax(w) /\ a \in Below(E)
    BY <2>2, ArgmaxIs
  <2>4. RouterRound(s) = [working |-> [w EXCEPT ![a] = NegInf], chosen |-> Append(c, a)]
    BY <2>1, <2>3 DEF RouterRound
  <2>5. [w EXCEPT ![a] = NegInf] \in [Below(E) -> Nat \cup {NegInf}]
    BY <2>1, <2>3
  <2>6. Append(c, a) \in Seq(Below(E))
    BY <2>1, <2>3
  <2>7. QED BY <2>4, <2>5, <2>6
<1>3. g \in [1 .. topK -> [States -> States]]
  BY <1>2
<1>4. \A n \in 1 .. topK, s \in States : g[n][s] = RouterRound(s)
  OBVIOUS
<1> HIDE DEF States, start, g
<1>5. PICK f \in [0 .. topK -> States] : Iterated(f, topK, start, g)
  BY <1>1, <1>3, Iterates
<1>6. f = [n \in 0 .. topK |-> IF n = 0 THEN start ELSE g[n][f[n - 1]]]
  BY <1>5 DEF Iterated
<1>7. \A n \in 0 .. topK : n # 0 => n \in 1 .. topK /\ f[n - 1] \in States
  BY <1>5
<1>8. f = [n \in 0 .. topK |-> IF n = 0 THEN start ELSE RouterRound(f[n - 1])]
  BY <1>4, <1>6, <1>7
<1>9. QED BY <1>8 DEF Rounds, start

\* A block selects as many experts as it has rounds for, the first ones first.
LEMMA SelectedAre ==
    ASSUME NEW E \in Nat, E > 0, NEW mine \in [Below(E) -> Nat], NEW topK \in Nat, topK <= E
    PROVE  \E state : /\ Chosen(mine, E, topK, state)
                      /\ SelectedExperts(mine, topK) = state.chosen
<1>1. PICK f : Rounds(f, mine, topK) /\ SelectedExperts(mine, topK) = f[topK].chosen
  <2>1. SelectedExperts(mine, topK) = (CHOOSE f : Rounds(f, mine, topK))[topK].chosen
    BY DEF SelectedExperts, Rounds
  <2>2. PICK f : f = CHOOSE r : Rounds(r, mine, topK)
    OBVIOUS
  <2>3. Rounds(f, mine, topK)
    BY <2>2, RoundsExist
  <2>4. QED BY <2>1, <2>2, <2>3
<1>2. \A n \in 0 .. topK : f[n] = IF n = 0 THEN [working |-> mine, chosen |-> <<>>]
                                  ELSE RouterRound(f[n - 1])
  BY <1>1 DEF Rounds
<1> DEFINE Q == {n \in Nat : n <= topK => Chosen(mine, E, n, f[n])}
<1>3. 0 \in Q
  <2>1. f[0] = [working |-> mine, chosen |-> <<>>]
    BY <1>2
  <2>2. f[0].chosen = <<>> /\ f[0].working = mine
    BY <2>1
  <2>3. <<>> \in Seq(Below(E)) /\ Len(<<>>) = 0
    OBVIOUS
  <2>4. \A m \in 1 .. 0 : FALSE
    OBVIOUS
  <2>5. mine = [e \in Below(E) |-> IF \E m \in 1 .. 0 : f[0].chosen[m] = e THEN NegInf ELSE mine[e]]
    BY <2>4
  <2>6. QED BY <2>2, <2>3, <2>4, <2>5 DEF Chosen
<1>4. ASSUME NEW n \in Nat, n \in Q PROVE n + 1 \in Q
  <2>1. SUFFICES ASSUME n + 1 <= topK PROVE Chosen(mine, E, n + 1, f[n + 1])
    OBVIOUS
  <2>2. n + 1 \in 0 .. topK /\ n + 1 # 0 /\ n <= topK /\ n < E /\ n + 1 - 1 = n
    BY <2>1
  <2>3. f[n + 1] = RouterRound(f[n])
    BY <1>2, <2>2
  <2>4. Chosen(mine, E, n, f[n])
    BY <1>4, <2>2
  <2>5. Chosen(mine, E, n + 1, RouterRound(f[n]))
    BY <2>2, <2>4, RoundChooses
  <2>6. QED BY <2>3, <2>5
<1>5. Nat \subseteq Q
  <2> HIDE DEF Q
  <2> QED BY <1>3, <1>4, Induction
<1>6. Chosen(mine, E, topK, f[topK])
  BY <1>5
<1>7. QED BY <1>1, <1>6

\* What the router is given: a score of every expert for every token.
RouterTyped(scores, experts, topK, tokens) ==
    /\ tokens \in Nat /\ experts \in Nat /\ topK \in 1 .. experts
    /\ scores \in [Below(tokens * experts) -> Nat]

\* routerTopKKernel: for every number of tokens and of experts, and every
\* geometry of the block, the experts of a token and their order are the
\* reference's.
THEOREM RouterKeepsTheFirst ==
    ASSUME NEW scores, NEW experts, NEW topK, NEW tokens, RouterTyped(scores, experts, topK, tokens)
    PROVE  RouterTopK(scores, experts, topK, tokens) = TopKReference(scores, experts, topK, tokens)
<1>1. /\ tokens \in Nat /\ experts \in Nat /\ experts > 0
      /\ topK \in Nat /\ topK > 0 /\ topK <= experts
      /\ scores \in [Below(tokens * experts) -> Nat]
  BY DEF RouterTyped
<1>2. ASSUME NEW token \in Below(tokens)
      PROVE  TokenScores(scores, experts, token) \in [Below(experts) -> Nat]
  <2>1. token \in Nat /\ token + 1 <= tokens /\ token + 1 \in Nat
    BY <1>1, <1>2 DEF Below
  <2>2. token * experts \in Nat /\ (token + 1) * experts = token * experts + experts
    BY <1>1, <2>1, NaturalProduct
  <2>3. (token + 1) * experts <= tokens * experts /\ tokens * experts \in Nat
    BY <1>1, <2>1, ProductGrows, NaturalProduct
  <2>4. PICK p \in Nat, q \in Nat : p = token * experts /\ q = tokens * experts /\ p + experts <= q
    BY <2>2, <2>3
  <2>5. \A e \in Below(experts) : p + e \in Below(q)
    BY <1>1, <2>4, BelowShifted
  <2>6. QED BY <1>1, <2>4, <2>5 DEF TokenScores
<1> DEFINE selected == [token \in Below(tokens) |->
                          SelectedExperts(TokenScores(scores, experts, token), topK)]
<1>3. ASSUME NEW a \in Below(tokens * topK)
      PROVE  selected[a \div topK][(a % topK) + 1]
               = CHOOSE e \in Below(experts) :
                    Cardinality({b \in Below(experts) :
                      Ahead(TokenScores(scores, experts, a \div topK), b, e)}) = a % topK
  <2>1. a \in Nat /\ tokens * topK \in Nat /\ a < tokens * topK
    BY <1>1, <1>3, NaturalProduct DEF Below
  <2>2. PICK q \in Nat, r \in Nat : q = a \div topK /\ r = a % topK /\ r < topK /\ a = topK * q + r
    BY <1>1, <2>1, Division
  <2>3. q \in Below(tokens)
    <3>1. SUFFICES ASSUME tokens <= q PROVE FALSE
      BY <1>1, <2>2 DEF Below
    <3>2. tokens * topK <= q * topK /\ q * topK = topK * q /\ topK * q \in Nat
      BY <1>1, <2>2, <3>1, ProductGrows, NaturalProduct
    <3>3. QED BY <2>1, <2>2, <3>2
  <2>4. PICK mine \in [Below(experts) -> Nat] : mine = TokenScores(scores, experts, q)
    BY <1>2, <2>3
  <2>5. PICK state : /\ Chosen(mine, experts, topK, state)
                     /\ SelectedExperts(mine, topK) = state.chosen
    BY <1>1, <2>4, SelectedAre
  <2>6. selected[q][r + 1] = state.chosen[r + 1]
    BY <2>3, <2>4, <2>5
  <2>7. PICK m \in 1 .. topK : m = r + 1 /\ m - 1 = r
    BY <1>1, <2>2
  <2>8. PICK e \in Below(experts) :
          e = state.chosen[r + 1] /\ Cardinality({b \in Below(experts) : Ahead(mine, b, e)}) = r
    <3>1. /\ state.chosen[m] \in Below(experts)
          /\ Cardinality({b \in Below(experts) : Ahead(mine, b, state.chosen[m])}) = m - 1
      BY <1>1, <2>4, <2>5, <2>7, ChosenByRank
    <3>2. QED BY <2>7, <3>1
  <2>9. (CHOOSE x \in Below(experts) : Cardinality({b \in Below(experts) : Ahead(mine, b, x)}) = r) = e
    BY <1>1, <2>4, <2>8, RankIsUnique
  <2> HIDE DEF selected
  <2>10. QED BY <2>2, <2>4, <2>6, <2>8, <2>9
<1>4. RouterTopK(scores, experts, topK, tokens)
        = [a \in Below(tokens * topK) |-> selected[a \div topK][(a % topK) + 1]]
  BY DEF RouterTopK
<1> HIDE DEF selected
<1>5. QED BY <1>3, <1>4 DEF TopKReference

-----------------------------------------------------------------------------
(* The weights of attention: attentionKernel.                              *)

\* What is scaled by one power of two is, divided, scaled by a lesser one.
Shrinks(d, old, new, u) == (2 ^ (d - old) * u) \div 2 ^ (new - old) = 2 ^ (d - new) * u

\* The rescaling of a multiple of a power of two loses nothing.
LEMMA PowersDivide ==
    ASSUME NEW d \in Nat, NEW new \in 0 .. d, NEW old \in 0 .. new, NEW u \in Nat
    PROVE  Shrinks(d, old, new, u)
<1>1. PICK m \in Nat, n \in Nat : m = d - new /\ n = new - old /\ n + m = d - old
  OBVIOUS
<1>2. PICK p \in Nat, q \in Nat : p = 2 ^ n /\ q = 2 ^ m /\ p > 0 /\ 2 ^ (n + m) = p * q
  <2>1. 2 ^ n \in Nat /\ 2 ^ n > n /\ 2 ^ m \in Nat /\ 2 ^ (n + m) = 2 ^ n * 2 ^ m
    BY PowersGrow, PowersMultiply
  <2>2. QED BY <2>1
<1>3. q * u \in Nat /\ (p * q) * u = p * (q * u)
  BY NaturalProduct
<1>4. PICK r \in Nat : r = q * u
  BY <1>3
<1>5. (p * q) * u = p * r + 0
  BY <1>3, <1>4, NaturalProduct
<1>6. ((p * q) * u) \div p = r
  BY <1>2, <1>5, DivisionIs
<1>7. QED BY <1>1, <1>2, <1>4, <1>6 DEF Shrinks

\* The weight of a score is the share of the largest one, scaled.
Weighs(d, new, s, c) ==
    c * 2 ^ s \in Nat /\ (c * 2 ^ d) \div 2 ^ (new - s) = 2 ^ (d - new) * (c * 2 ^ s)

\* A weight compared with a maximum is the share of the score, scaled.
LEMMA WeightIs ==
    ASSUME NEW d \in Nat, NEW new \in 0 .. d, NEW s \in 0 .. new, NEW c \in Nat
    PROVE  Weighs(d, new, s, c)
<1>1. PICK m \in Nat : m = d - s /\ m + s = d
  OBVIOUS
<1>2. PICK p \in Nat, q \in Nat : p = 2 ^ m /\ q = 2 ^ s /\ 2 ^ d = p * q
  <2>1. 2 ^ m \in Nat /\ 2 ^ s \in Nat /\ 2 ^ (m + s) = 2 ^ m * 2 ^ s
    BY PowersGrow, PowersMultiply
  <2>2. QED BY <1>1, <2>1
<1>3. c * q \in Nat /\ c * (p * q) = p * (c * q)
  BY NaturalProduct
<1>4. PICK u \in Nat : u = c * 2 ^ s /\ c * 2 ^ d = 2 ^ (d - s) * u
  BY <1>1, <1>2, <1>3
<1>5. (2 ^ (d - s) * u) \div 2 ^ (new - s) = 2 ^ (d - new) * u
  <2>1. Shrinks(d, s, new, u)
    BY PowersDivide
  <2>2. QED BY <2>1 DEF Shrinks
<1>6. QED BY <1>4, <1>5 DEF Weighs

\* One position of the one pass softmax: what it leaves of what was.
SoftmaxStep(was, score, value, unit) ==
    LET new == Max({was.maximum, score})
        weight == unit \div 2 ^ (new - score)
    IN  [maximum |-> new,
         total |-> Rescale(was.total, was.maximum, new) + weight,
         sum |-> Rescale(was.sum, was.maximum, new) + weight * value]

\* The sums so far, of what every score would weigh were it compared with the
\* largest possible: they are scaled by how far the maximum is from that.
Weighed(state, d, m, total, sum) ==
    /\ state.maximum = m
    /\ state.total = 2 ^ (d - m) * total /\ state.sum = 2 ^ (d - m) * sum

\* The first position leaves its own weight, and its value weighed.
LEMMA FirstWeighed ==
    ASSUME NEW d \in Nat, NEW c \in Nat, NEW s \in 0 .. d, NEW v \in Nat,
           NEW was, was.maximum = NegInf
    PROVE  Weighed(SoftmaxStep(was, s, v, c * 2 ^ d), d, s, c * 2 ^ s, (c * 2 ^ s) * v)
<1>1. Max({NegInf, s}) = s
  <2>1. NegInf \in Int /\ ~ (NegInf >= s)
    BY DEF NegInf
  <2>2. QED BY <2>1, MaxOfTwo
<1>2. \A a : Rescale(a, NegInf, s) = 0
  BY DEF Rescale
<1>3. SoftmaxStep(was, s, v, c * 2 ^ d) =
        [maximum |-> s, total |-> 0 + (c * 2 ^ d) \div 2 ^ (s - s),
         sum |-> 0 + ((c * 2 ^ d) \div 2 ^ (s - s)) * v]
  BY <1>1, <1>2 DEF SoftmaxStep
<1>4. c * 2 ^ s \in Nat /\ (c * 2 ^ d) \div 2 ^ (s - s) = 2 ^ (d - s) * (c * 2 ^ s)
  <2>1. s \in 0 .. s
    OBVIOUS
  <2>2. Weighs(d, s, s, c)
    BY <2>1, WeightIs
  <2>3. QED BY <2>2 DEF Weighs
<1>5. PICK p \in Nat, u \in Nat : p = 2 ^ (d - s) /\ u = c * 2 ^ s
  <2>1. d - s \in Nat
    OBVIOUS
  <2>2. QED BY <1>4, <2>1, PowersGrow
<1>6. p * u \in Nat /\ 0 + p * u = p * u /\ 0 + (p * u) * v = p * (u * v)
  BY NaturalProduct
<1>7. SoftmaxStep(was, s, v, c * 2 ^ d) = [maximum |-> s, total |-> p * u, sum |-> p * (u * v)]
  BY <1>3, <1>4, <1>5, <1>6
<1>8. QED BY <1>5, <1>7 DEF Weighed

\* A later position rescales what was and adds its own (attentionKernel's
\* correction factor), whether or not its score is a new maximum.
LEMMA NextWeighed ==
    ASSUME NEW d \in Nat, NEW c \in Nat, NEW s \in 0 .. d, NEW v \in Nat,
           NEW was, NEW m \in 0 .. d, NEW total \in Nat, NEW sum \in Nat,
           Weighed(was, d, m, total, sum)
    PROVE  Weighed(SoftmaxStep(was, s, v, c * 2 ^ d), d, IF m >= s THEN m ELSE s,
                   total + c * 2 ^ s, sum + (c * 2 ^ s) * v)
<1>1. PICK n \in 0 .. d : n = (IF m >= s THEN m ELSE s) /\ m \in 0 .. n /\ s \in 0 .. n
  OBVIOUS
<1>2. Max({m, s}) = n
  BY <1>1, MaxOfTwo
<1>3. /\ was.maximum = m
      /\ was.total = 2 ^ (d - m) * total /\ was.sum = 2 ^ (d - m) * sum
  BY DEF Weighed
<1>4. \A a \in Nat : \A x : x = 2 ^ (d - m) * a => Rescale(x, m, n) = 2 ^ (d - n) * a
  <2>1. \A x : Rescale(x, m, n) = x \div 2 ^ (n - m)
    <3>1. m # NegInf
      BY DEF NegInf
    <3>2. QED BY <3>1 DEF Rescale
  <2>2. \A a \in Nat : Shrinks(d, m, n, a)
    BY <1>1, PowersDivide
  <2>3. QED BY <2>1, <2>2 DEF Shrinks
<1>5. c * 2 ^ s \in Nat /\ (c * 2 ^ d) \div 2 ^ (n - s) = 2 ^ (d - n) * (c * 2 ^ s)
  <2>1. Weighs(d, n, s, c)
    BY <1>1, WeightIs
  <2>2. QED BY <2>1 DEF Weighs
<1>6. PICK x, y, z : /\ x = 2 ^ (d - n) * total /\ y = 2 ^ (d - n) * sum
                     /\ z = 2 ^ (d - n) * (c * 2 ^ s)
  OBVIOUS
<1>7. Rescale(was.total, m, n) = x /\ Rescale(was.sum, m, n) = y
  BY <1>3, <1>4, <1>6
<1>8. (c * 2 ^ d) \div 2 ^ (n - s) = z
  BY <1>5, <1>6
<1>9. SoftmaxStep(was, s, v, c * 2 ^ d) = [maximum |-> n, total |-> x + z, sum |-> y + z * v]
  BY <1>2, <1>3, <1>7, <1>8 DEF SoftmaxStep
<1>10. PICK p \in Nat, u \in Nat : p = 2 ^ (d - n) /\ u = c * 2 ^ s
  <2>1. d - n \in Nat
    OBVIOUS
  <2>2. QED BY <1>5, <2>1, PowersGrow
<1>11. p * total + p * u = p * (total + u) /\ p * sum + (p * u) * v = p * (sum + u * v)
  BY NaturalProduct
<1>12. SoftmaxStep(was, s, v, c * 2 ^ d) =
        [maximum |-> n, total |-> p * (total + u), sum |-> p * (sum + u * v)]
  BY <1>6, <1>10, <1>11, <1>9
<1>13. QED BY <1>1, <1>10, <1>12 DEF Weighed

\* The states of the pass are numbers.
SoftmaxStates(d) == [maximum : 0 .. d \cup {NegInf}, total : Nat, sum : Nat]

\* A position leaves numbers.
LEMMA StepIsTyped ==
    ASSUME NEW d \in Nat, NEW unit \in Nat, NEW s \in 0 .. d, NEW v \in Nat,
           NEW was \in SoftmaxStates(d)
    PROVE  SoftmaxStep(was, s, v, unit) \in SoftmaxStates(d)
<1>1. PICK m \in 0 .. d \cup {NegInf}, t \in Nat, w \in Nat :
         was.maximum = m /\ was.total = t /\ was.sum = w
  BY DEF SoftmaxStates
<1>2. PICK n \in 0 .. d : n = Max({m, s}) /\ n - s \in Nat /\ (m # NegInf => n - m \in Nat)
  <2>1. m \in Int /\ s \in Int
    BY DEF NegInf
  <2>2. Max({m, s}) = IF m >= s THEN m ELSE s
    BY <2>1, MaxOfTwo
  <2>3. m = NegInf => ~ (m >= s)
    BY DEF NegInf
  <2>4. QED BY <2>2, <2>3
<1>3. \A a \in Nat, k \in Nat : a \div 2 ^ k \in Nat
  <2>1. ASSUME NEW a \in Nat, NEW k \in Nat PROVE a \div 2 ^ k \in Nat
    <3>1. PICK p \in Nat : p = 2 ^ k /\ p > 0
      <4>1. 2 ^ k \in Nat /\ 2 ^ k > k
        BY PowersGrow
      <4>2. QED BY <4>1
    <3>2. a \div p \in Nat
      BY <3>1
    <3>3. QED BY <3>1, <3>2
  <2>2. QED BY <2>1
<1>4. \A a \in Nat : Rescale(a, m, n) \in Nat
  BY <1>2, <1>3 DEF Rescale
<1>5. PICK u \in Nat : u = unit \div 2 ^ (n - s)
  BY <1>2, <1>3
<1>6. Rescale(t, m, n) + u \in Nat /\ Rescale(w, m, n) + u * v \in Nat
  <2>1. u * v \in Nat
    BY NaturalProduct
  <2>2. QED BY <1>4, <2>1
<1>7. SoftmaxStep(was, s, v, unit) =
        [maximum |-> n, total |-> Rescale(t, m, n) + u, sum |-> Rescale(w, m, n) + u * v]
  BY <1>1, <1>2, <1>5 DEF SoftmaxStep
<1>8. QED BY <1>2, <1>6, <1>7 DEF SoftmaxStates

\* What the softmax is of: scores up to d, and a unit that every weight divides.
SoftmaxTyped(scores, values, unit, N, d, c) ==
    /\ N \in Nat /\ N > 0 /\ d \in Nat /\ c \in Nat /\ unit = c * 2 ^ d
    /\ scores \in [1 .. N -> 0 .. d] /\ \A i \in 1 .. N : values[i] \in Nat

Streams(f, scores, values, unit, N) ==
    f = [n \in 0 .. N |->
            IF n = 0 THEN [maximum |-> NegInf, total |-> 0, sum |-> 0]
            ELSE SoftmaxStep(f[n - 1], scores[n], values[n], unit)]

\* The function the pass's recursion chooses is there.
LEMMA StreamsExist ==
    ASSUME NEW scores, NEW values, NEW unit, NEW N, NEW d, NEW c,
           SoftmaxTyped(scores, values, unit, N, d, c)
    PROVE  \E f : Streams(f, scores, values, unit, N)
<1> DEFINE States == SoftmaxStates(d)
           start == [maximum |-> NegInf, total |-> 0, sum |-> 0]
           g == [n \in 1 .. N |-> [s \in States |-> SoftmaxStep(s, scores[n], values[n], unit)]]
<1>1. start \in States
  BY DEF SoftmaxStates
<1>2. unit \in Nat
  <2>1. PICK p \in Nat : p = 2 ^ d
    BY PowersGrow DEF SoftmaxTyped
  <2>2. QED BY <2>1, NaturalProduct DEF SoftmaxTyped
<1>3. ASSUME NEW n \in 1 .. N, NEW s \in States
      PROVE  SoftmaxStep(s, scores[n], values[n], unit) \in States
  <2>1. d \in Nat /\ scores[n] \in 0 .. d /\ values[n] \in Nat
    BY DEF SoftmaxTyped
  <2>2. QED BY <1>2, <2>1, StepIsTyped
<1>4. g \in [1 .. N -> [States -> States]]
  BY <1>3
<1>5. \A n \in 1 .. N, s \in States : g[n][s] = SoftmaxStep(s, scores[n], values[n], unit)
  OBVIOUS
<1> HIDE DEF States, start, g
<1>6. N \in Nat
  BY DEF SoftmaxTyped
<1>7. PICK f \in [0 .. N -> States] : Iterated(f, N, start, g)
  BY <1>1, <1>4, <1>6, Iterates
<1>8. f = [n \in 0 .. N |-> IF n = 0 THEN start ELSE g[n][f[n - 1]]]
  BY <1>7 DEF Iterated
<1>9. \A n \in 0 .. N : n # 0 => n \in 1 .. N /\ f[n - 1] \in States
  BY <1>6, <1>7
<1>10. f = [n \in 0 .. N |-> IF n = 0 THEN start
                             ELSE SoftmaxStep(f[n - 1], scores[n], values[n], unit)]
  BY <1>5, <1>8, <1>9
<1>11. QED BY <1>10 DEF Streams, start

\* After n positions: the largest of their scores, and their sums.
Passed(state, scores, d, n, total, sum) ==
    \E m \in 0 .. d : /\ \A i \in 1 .. n : scores[i] <= m
                      /\ \E i \in 1 .. n : scores[i] = m
                      /\ Weighed(state, d, m, total, sum)

\* After all positions the largest score and both sums are those of all.
LEMMA StreamPasses ==
    ASSUME NEW scores, NEW values, NEW unit, NEW N, NEW d, NEW c,
           SoftmaxTyped(scores, values, unit, N, d, c),
           NEW f, Streams(f, scores, values, unit, N),
           NEW jt, SumsBy(jt, N, [i \in 1 .. N |-> c * 2 ^ scores[i]]),
           NEW kt, SumsBy(kt, N, [i \in 1 .. N |-> (c * 2 ^ scores[i]) * values[i]])
    PROVE  Passed(f[N], scores, d, N, jt[1 .. N], kt[1 .. N])
<1>1. /\ N \in Nat /\ N > 0 /\ d \in Nat /\ c \in Nat /\ unit = c * 2 ^ d
      /\ \A i \in 1 .. N : scores[i] \in 0 .. d /\ values[i] \in Nat
  BY DEF SoftmaxTyped
<1>2. f[0].maximum = NegInf
  <2>1. f[0] = [maximum |-> NegInf, total |-> 0, sum |-> 0]
    BY <1>1 DEF Streams
  <2>2. QED BY <2>1
<1>3. \A n \in 1 .. N : f[n] = SoftmaxStep(f[n - 1], scores[n], values[n], unit)
  BY <1>1 DEF Streams
<1> DEFINE u == [i \in 1 .. N |-> c * 2 ^ scores[i]]
           w == [i \in 1 .. N |-> (c * 2 ^ scores[i]) * values[i]]
<1>4. \A i \in 1 .. N : u[i] = c * 2 ^ scores[i] /\ w[i] = (c * 2 ^ scores[i]) * values[i]
  OBVIOUS
<1>5. SumsBy(jt, N, u) /\ SumsBy(kt, N, w)
  OBVIOUS
<1> HIDE DEF u, w
<1>6. /\ jt[1 .. 0] = 0 /\ kt[1 .. 0] = 0
      /\ \A n \in 1 .. N : jt[1 .. n] = jt[1 .. n - 1] + u[n] /\ kt[1 .. n] = kt[1 .. n - 1] + w[n]
      /\ \A n \in 0 .. N : jt[1 .. n] \in Nat /\ kt[1 .. n] \in Nat
  BY <1>5 DEF SumsBy
<1> DEFINE Right(n) == Passed(f[n], scores, d, n, jt[1 .. n], kt[1 .. n])
           Q == {n \in Nat : n + 1 <= N => Right(n + 1)}
<1>7. ASSUME NEW n \in 1 .. N
      PROVE  u[n] \in Nat /\ w[n] \in Nat
  <2>1. PICK a \in Nat, b \in Nat : a = 2 ^ scores[n] /\ b = values[n]
    <3>1. PICK s \in Nat, b \in Nat : s = scores[n] /\ b = values[n]
      <4>1. d \in Nat /\ scores[n] \in 0 .. d /\ values[n] \in Nat
        BY <1>1
      <4>2. scores[n] \in Nat
        BY <4>1
      <4>3. QED BY <4>1, <4>2
    <3>2. 2 ^ s \in Nat
      BY PowersGrow
    <3>3. QED BY <3>1, <3>2
  <2>2. u[n] = c * a /\ w[n] = (c * a) * b
    BY <1>4, <2>1
  <2>3. QED BY <1>1, <2>2, NaturalProduct
<1>8. 0 \in Q
  <2>1. 1 \in 1 .. N /\ 0 + 1 = 1 /\ 1 - 1 = 0
    BY <1>1
  <2>2. f[1] = SoftmaxStep(f[0], scores[1], values[1], c * 2 ^ d)
    BY <1>1, <1>3, <2>1
  <2>3. jt[1 .. 1] = u[1] /\ kt[1 .. 1] = w[1]
    <3>1. jt[1 .. 1] = 0 + u[1] /\ kt[1 .. 1] = 0 + w[1]
      BY <1>6, <2>1
    <3>2. QED BY <1>7, <2>1, <3>1
  <2>4. PICK s \in 0 .. d, v \in Nat : s = scores[1] /\ v = values[1]
    BY <1>1, <2>1
  <2>5. Weighed(SoftmaxStep(f[0], s, v, c * 2 ^ d), d, s, c * 2 ^ s, (c * 2 ^ s) * v)
    BY <1>1, <1>2, FirstWeighed
  <2>6. u[1] = c * 2 ^ s /\ w[1] = (c * 2 ^ s) * v
    BY <1>4, <2>1, <2>4
  <2>7. Weighed(f[1], d, s, jt[1 .. 1], kt[1 .. 1])
    BY <2>2, <2>3, <2>4, <2>5, <2>6
  <2>8. \A i \in 1 .. 1 : i = 1
    OBVIOUS
  <2>9. (\A i \in 1 .. 1 : scores[i] <= s) /\ \E i \in 1 .. 1 : scores[i] = s
    BY <2>4, <2>8
  <2>10. Right(1)
    BY <2>7, <2>9 DEF Passed
  <2> HIDE DEF Right
  <2>11. QED BY <2>1, <2>10
<1>9. ASSUME NEW n \in Nat, n \in Q PROVE n + 1 \in Q
  <2>1. SUFFICES ASSUME n + 1 + 1 <= N PROVE Right(n + 1 + 1)
    OBVIOUS
  <2>2. PICK k \in 1 .. N, h \in 1 .. N : h = n + 1 /\ k = h + 1 /\ k - 1 = h /\ h \in 0 .. N
    BY <1>1, <2>1
  <2>3. Right(h)
    <3> HIDE DEF Right
    <3> QED BY <1>1, <1>9, <2>2
  <2>4. PICK m \in 0 .. d : /\ \A i \in 1 .. h : scores[i] <= m
                            /\ \E i \in 1 .. h : scores[i] = m
                            /\ Weighed(f[h], d, m, jt[1 .. h], kt[1 .. h])
    BY <2>3 DEF Passed
  <2>5. PICK s \in 0 .. d, v \in Nat : s = scores[k] /\ v = values[k]
    BY <1>1, <2>2
  <2>6. f[k] = SoftmaxStep(f[h], s, v, c * 2 ^ d)
    BY <1>1, <1>3, <2>2, <2>5
  <2>7. PICK a \in Nat, b \in Nat : a = jt[1 .. h] /\ b = kt[1 .. h]
    BY <1>6, <2>2
  <2>8. jt[1 .. k] = a + u[k] /\ kt[1 .. k] = b + w[k]
    BY <1>6, <2>2, <2>7
  <2>9. u[k] = c * 2 ^ s /\ w[k] = (c * 2 ^ s) * v
    BY <1>4, <2>5
  <2>10. PICK new \in 0 .. d : new = (IF m >= s THEN m ELSE s) /\ s <= new /\ m <= new
    OBVIOUS
  <2>11. Weighed(f[k], d, new, a + c * 2 ^ s, b + (c * 2 ^ s) * v)
    <3>1. Weighed(SoftmaxStep(f[h], s, v, c * 2 ^ d), d, IF m >= s THEN m ELSE s,
                  a + c * 2 ^ s, b + (c * 2 ^ s) * v)
      BY <1>1, <2>4, <2>7, NextWeighed
    <3>2. QED BY <2>6, <2>10, <3>1
  <2>12. Weighed(f[k], d, new, jt[1 .. k], kt[1 .. k])
    BY <2>8, <2>9, <2>11
  <2>13. \A i \in 1 .. k : i = k \/ i \in 1 .. h
    BY <2>2
  <2>14. \A i \in 1 .. k : scores[i] <= new
    <3>1. ASSUME NEW i \in 1 .. h PROVE scores[i] <= new
      <4>1. i \in 1 .. N /\ scores[i] <= m
        <5>1. i \in 1 .. N
          BY <1>1, <2>2
        <5>2. scores[i] <= m
          BY <2>4
        <5>3. QED BY <5>1, <5>2
      <4>2. scores[i] \in Nat
        BY <1>1, <4>1
      <4>3. QED BY <2>10, <4>1, <4>2
    <3>2. QED BY <2>5, <2>10, <2>13, <3>1
  <2>15. \E i \in 1 .. k : scores[i] = new
    <3>1. k \in 1 .. k /\ \A i \in 1 .. h : i \in 1 .. k
      BY <2>2
    <3>2. QED BY <2>4, <2>5, <2>10, <3>1
  <2>16. Right(k)
    BY <2>12, <2>14, <2>15 DEF Passed
  <2> HIDE DEF Right
  <2>17. QED BY <2>2, <2>16
<1>10. Nat \subseteq Q
  <2> HIDE DEF Q
  <2> QED BY <1>8, <1>9, Induction
<1>11. N - 1 \in Nat /\ N - 1 + 1 = N
  BY <1>1
<1>12. Right(N)
  <2> HIDE DEF Right
  <2>1. N - 1 \in Q
    BY <1>10, <1>11
  <2>2. Right(N - 1 + 1)
    BY <1>1, <1>11, <2>1
  <2>3. QED BY <1>11, <2>2
<1>13. QED BY <1>12

\* The sums of the reference are some of these.
ReferenceAdds(scores, values, unit, N, g, h) ==
    \E c, it, jt :
       /\ Picks(c, 1 .. N) /\ Sums(it, 1 .. N, g, c) /\ Sums(jt, 1 .. N, h, c)
       /\ SoftmaxReference(scores, values, unit).total = it[1 .. N]
       /\ SoftmaxReference(scores, values, unit).sum = jt[1 .. N]

\* Both sums of the reference are sums of the weights at its maximum.
LEMMA ReferenceSums ==
    ASSUME NEW scores, NEW values, NEW unit, NEW N \in Nat, DOMAIN scores = 1 .. N,
           NEW m, Max({scores[i] : i \in DOMAIN scores}) = m,
           NEW g, g = [i \in 1 .. N |-> unit \div 2 ^ (m - scores[i])],
           NEW h, h = [i \in 1 .. N |-> (unit \div 2 ^ (m - scores[i])) * values[i]],
           \A i \in 1 .. N : g[i] \in Nat /\ h[i] \in Nat
    PROVE  ReferenceAdds(scores, values, unit, N, g, h)
<1> DEFINE S == DOMAIN scores
           c == [s \in SUBSET S |-> CHOOSE x \in s : TRUE]
           W(i) == unit \div 2 ^ (Max({scores[k] : k \in DOMAIN scores}) - scores[i])
           Adds(it) == it = [s \in SUBSET S |-> IF s = {} THEN 0
                   ELSE W(CHOOSE x \in s : TRUE) + it[s \ {CHOOSE x \in s : TRUE}]]
           AddsValued(it) == it = [s \in SUBSET S |-> IF s = {} THEN 0
                   ELSE W(CHOOSE x \in s : TRUE) * values[CHOOSE x \in s : TRUE]
                          + it[s \ {CHOOSE x \in s : TRUE}]]
<1>1. /\ SoftmaxReference(scores, values, unit).total = (CHOOSE it : Adds(it))[S]
      /\ SoftmaxReference(scores, values, unit).sum = (CHOOSE it : AddsValued(it))[S]
  BY DEF SoftmaxReference, MapThenSumSet, MapThenFoldSet
<1>2. IsFiniteSet(S)
  <2>1. IsFiniteSet(1 .. N)
    BY FS_Interval
  <2>2. QED BY <2>1
<1>3. \A s \in SUBSET S : s # {} => (CHOOSE x \in s : TRUE) \in s
  OBVIOUS
<1>4. Picks(c, S)
  BY <1>3 DEF Picks
<1>5. \A i \in S : g[i] = W(i) /\ h[i] = W(i) * values[i] /\ g[i] \in Nat /\ h[i] \in Nat
  OBVIOUS
<1>6. \A s \in SUBSET S : s # {} => c[s] = (CHOOSE x \in s : TRUE) /\ c[s] \in S
  BY <1>3
<1>7. ASSUME NEW it PROVE Adds(it) <=> Fronts(it, S, g, c)
  <2>1. ASSUME NEW s \in SUBSET S
        PROVE  (IF s = {} THEN 0 ELSE W(CHOOSE x \in s : TRUE) + it[s \ {CHOOSE x \in s : TRUE}])
                 = IF s = {} THEN 0 ELSE g[c[s]] + it[s \ {c[s]}]
    <3> HIDE DEF W, c
    <3>1. PICK x : x = CHOOSE y \in s : TRUE
      OBVIOUS
    <3>2. CASE s = {}
      BY <3>2
    <3>3. CASE s # {}
      <4>1. c[s] = x /\ x \in S
        BY <1>6, <3>1, <3>3
      <4>2. g[x] = W(x) /\ h[x] = W(x) * values[x]
        BY <1>5, <4>1
      <4>3. QED BY <3>1, <3>3, <4>1, <4>2
    <3>4. QED BY <3>2, <3>3
  <2> HIDE DEF W, c
  <2>2. QED BY <2>1 DEF Fronts
<1>8. ASSUME NEW it PROVE AddsValued(it) <=> Fronts(it, S, h, c)
  <2>1. ASSUME NEW s \in SUBSET S
        PROVE  (IF s = {} THEN 0 ELSE W(CHOOSE x \in s : TRUE) * values[CHOOSE x \in s : TRUE]
                                        + it[s \ {CHOOSE x \in s : TRUE}])
                 = IF s = {} THEN 0 ELSE h[c[s]] + it[s \ {c[s]}]
    <3> HIDE DEF W, c
    <3>1. PICK x : x = CHOOSE y \in s : TRUE
      OBVIOUS
    <3>2. CASE s = {}
      BY <3>2
    <3>3. CASE s # {}
      <4>1. c[s] = x /\ x \in S
        BY <1>6, <3>1, <3>3
      <4>2. g[x] = W(x) /\ h[x] = W(x) * values[x]
        BY <1>5, <4>1
      <4>3. QED BY <3>1, <3>3, <4>1, <4>2
    <3>4. QED BY <3>2, <3>3
  <2> HIDE DEF W, c
  <2>2. QED BY <2>1 DEF Fronts
<1> HIDE DEF W, c
<1> HIDE DEF Adds, AddsValued
<1>9. PICK T : T = S /\ T = 1 .. N
  OBVIOUS
<1>10. PICK it : it = CHOOSE f : Adds(f)
  OBVIOUS
<1>11. PICK jt : jt = CHOOSE f : AddsValued(f)
  OBVIOUS
<1> HIDE DEF S
<1>12. Sums(it, S, g, c)
  <2>1. \E f : Sums(f, S, g, c)
    BY <1>2, <1>4, SumsExist
  <2>2. \A f : Fronts(f, S, g, c) <=> Sums(f, S, g, c)
    BY <1>2, <1>4, <1>5, SumsInFront
  <2>3. Adds(it)
    BY <1>7, <1>10, <2>1, <2>2
  <2>4. QED BY <1>7, <2>2, <2>3
<1>13. Sums(jt, S, h, c)
  <2>1. \E f : Sums(f, S, h, c)
    BY <1>2, <1>4, SumsExist
  <2>2. \A f : Fronts(f, S, h, c) <=> Sums(f, S, h, c)
    BY <1>2, <1>4, <1>5, SumsInFront
  <2>3. AddsValued(jt)
    BY <1>8, <1>11, <2>1, <2>2
  <2>4. QED BY <1>8, <2>2, <2>3
<1>14. S = 1 .. N
  BY DEF S
<1>15. QED BY <1>1, <1>4, <1>10, <1>11, <1>12, <1>13, <1>14 DEF ReferenceAdds

\* attentionKernel: one pass over the positions weighs every value as the two
\* passes of the reference do, for every number of positions.
THEOREM SoftmaxWeighsAsTheReference ==
    ASSUME NEW scores, NEW values, NEW unit, NEW N, NEW d, NEW c,
           SoftmaxTyped(scores, values, unit, N, d, c)
    PROVE  /\ StreamingSoftmax(scores, values, unit).total
                = SoftmaxReference(scores, values, unit).total
           /\ StreamingSoftmax(scores, values, unit).sum
                = SoftmaxReference(scores, values, unit).sum
<1>1. /\ N \in Nat /\ N > 0 /\ d \in Nat /\ c \in Nat /\ unit = c * 2 ^ d
      /\ DOMAIN scores = 1 .. N
      /\ \A i \in 1 .. N : scores[i] \in 0 .. d /\ scores[i] \in Nat /\ values[i] \in Nat
  BY DEF SoftmaxTyped
<1>2. Cardinality(DOMAIN scores) = N
  <2>1. Cardinality(1 .. N) = N
    BY <1>1, FS_Interval
  <2>2. QED BY <1>1, <2>1
<1>3. PICK f : Streams(f, scores, values, unit, N) /\ StreamingSoftmax(scores, values, unit) = f[N]
  <2>1. StreamingSoftmax(scores, values, unit)
          = (CHOOSE f : Streams(f, scores, values, unit, N))[N]
    BY <1>2 DEF StreamingSoftmax, Streams, SoftmaxStep
  <2>2. PICK f : f = CHOOSE r : Streams(r, scores, values, unit, N)
    OBVIOUS
  <2>3. Streams(f, scores, values, unit, N)
    BY <2>2, StreamsExist
  <2>4. QED BY <2>1, <2>2, <2>3
<1>4. PICK m \in 0 .. d : /\ \A i \in 1 .. N : scores[i] <= m
                          /\ \E i \in 1 .. N : scores[i] = m
  <2> DEFINE V == {scores[i] : i \in 1 .. N}
  <2>1. V \in SUBSET Nat /\ V # {} /\ \A x \in V : x <= d
    BY <1>1
  <2>2. \E x \in V : \A y \in V : x >= y
    <3> HIDE DEF V
    <3> QED BY <1>1, <2>1, GreatestNatural
  <2>3. PICK x \in V : \A y \in V : x >= y
    BY <2>2
  <2>4. x \in 0 .. d /\ \A i \in 1 .. N : scores[i] <= x
    BY <1>1, <2>1, <2>3
  <2>5. QED BY <2>3, <2>4
<1>5. Max({scores[i] : i \in DOMAIN scores}) = m
  <2> DEFINE V == {scores[i] : i \in DOMAIN scores}
  <2>1. V \in SUBSET Nat /\ m \in V /\ \A x \in V : x <= m
    BY <1>1, <1>4
  <2> HIDE DEF V
  <2>2. Max(V) = m
    BY <2>1, MaxIs
  <2>3. QED BY <2>2 DEF V
<1> DEFINE u == [i \in 1 .. N |-> c * 2 ^ scores[i]]
           w == [i \in 1 .. N |-> (c * 2 ^ scores[i]) * values[i]]
           g == [i \in 1 .. N |-> unit \div 2 ^ (m - scores[i])]
           h == [i \in 1 .. N |-> (unit \div 2 ^ (m - scores[i])) * values[i]]
<1>6. PICK k \in Nat : k = 2 ^ (d - m)
  <2>1. d - m \in Nat
    BY <1>1, <1>4
  <2>2. QED BY <2>1, PowersGrow
<1>7. ASSUME NEW i \in 1 .. N
      PROVE  u[i] \in Nat /\ g[i] = k * u[i] /\ w[i] \in Nat /\ h[i] = k * w[i]
             /\ g[i] \in Nat /\ h[i] \in Nat
  <2>1. PICK s \in 0 .. m, v \in Nat : s = scores[i] /\ v = values[i]
    BY <1>1, <1>4
  <2>2. Weighs(d, m, s, c)
    BY <1>1, <1>4, WeightIs
  <2>3. PICK a \in Nat : a = c * 2 ^ s /\ unit \div 2 ^ (m - s) = k * a
    BY <1>1, <1>6, <2>2 DEF Weighs
  <2>4. PICK b : b = unit \div 2 ^ (m - s) /\ b = k * a
    BY <2>3
  <2>5. u[i] = a /\ g[i] = b /\ w[i] = a * v /\ h[i] = b * v
    BY <2>1, <2>3, <2>4
  <2>6. a * v \in Nat /\ k * a \in Nat /\ (k * a) * v = k * (a * v) /\ (k * a) * v \in Nat
    BY NaturalProduct
  <2> HIDE DEF u, g, w, h
  <2>7. QED BY <2>4, <2>5, <2>6
<1>8. PICK e, it, jt :
         /\ Picks(e, 1 .. N) /\ Sums(it, 1 .. N, g, e) /\ Sums(jt, 1 .. N, h, e)
         /\ SoftmaxReference(scores, values, unit).total = it[1 .. N]
         /\ SoftmaxReference(scores, values, unit).sum = jt[1 .. N]
  <2>1. g = [i \in 1 .. N |-> unit \div 2 ^ (m - scores[i])]
        /\ h = [i \in 1 .. N |-> (unit \div 2 ^ (m - scores[i])) * values[i]]
    OBVIOUS
  <2> HIDE DEF g, h
  <2>2. \A i \in 1 .. N : g[i] \in Nat /\ h[i] \in Nat
    BY <1>7
  <2>3. ReferenceAdds(scores, values, unit, N, g, h)
    BY <1>1, <1>5, <2>1, <2>2, ReferenceSums
  <2>4. QED BY <2>3 DEF ReferenceAdds
<1>9. IsFiniteSet(1 .. N)
  BY <1>1, FS_Interval
<1> HIDE DEF g, h
<1>11. PICK ut, wt : Sums(ut, 1 .. N, u, e) /\ Sums(wt, 1 .. N, w, e)
  <2>1. \E t : Sums(t, 1 .. N, u, e)
    BY <1>8, <1>9, SumsExist
  <2>2. \E t : Sums(t, 1 .. N, w, e)
    BY <1>8, <1>9, SumsExist
  <2>3. QED BY <2>1, <2>2
<1>12. SumsBy(ut, N, u) /\ SumsBy(wt, N, w)
  <2>1. (\A i \in 1 .. N : u[i] \in Nat) /\ \A i \in 1 .. N : w[i] \in Nat
    BY <1>7
  <2> HIDE DEF u, w
  <2>2. QED BY <1>1, <1>8, <1>11, <2>1, SumsByPrefix
<1>13. Passed(f[N], scores, d, N, ut[1 .. N], wt[1 .. N])
  BY <1>3, <1>12, StreamPasses
<1>14. Weighed(f[N], d, m, ut[1 .. N], wt[1 .. N])
  <2>1. PICK n \in 0 .. d : /\ \A i \in 1 .. N : scores[i] <= n
                            /\ \E i \in 1 .. N : scores[i] = n
                            /\ Weighed(f[N], d, n, ut[1 .. N], wt[1 .. N])
    BY <1>13 DEF Passed
  <2>2. n <= m /\ m <= n /\ n \in Nat /\ m \in Nat
    BY <1>1, <1>4, <2>1
  <2>3. n = m
    BY <2>2
  <2>4. QED BY <2>1, <2>3
<1> HIDE DEF u, w
<1>15. it[1 .. N] = k * ut[1 .. N] /\ jt[1 .. N] = k * wt[1 .. N]
  <2>1. \A i \in 1 .. N : u[i] \in Nat /\ Multiple(g[i], k, u[i])
    BY <1>7 DEF Multiple
  <2>2. Multiple(it[1 .. N], k, ut[1 .. N])
    BY <1>1, <1>8, <1>11, <2>1, SumsScale
  <2>3. \A i \in 1 .. N : w[i] \in Nat /\ Multiple(h[i], k, w[i])
    BY <1>7 DEF Multiple
  <2>4. Multiple(jt[1 .. N], k, wt[1 .. N])
    BY <1>1, <1>8, <1>11, <2>3, SumsScale
  <2>5. QED BY <2>2, <2>4 DEF Multiple
<1>16. f[N].total = k * ut[1 .. N] /\ f[N].sum = k * wt[1 .. N]
  BY <1>6, <1>14 DEF Weighed
<1>17. QED BY <1>3, <1>8, <1>15, <1>16

-----------------------------------------------------------------------------
(* Launches and what they are to compute.                                  *)

\* What is stored at an address of the reference's result.
Entry(reference, a) == [at |-> a, value |-> reference[a]]

\* Each element is stored by the thread that owns it, and no thread stores
\* anything else.
Owned(stores, reference, owner) ==
    /\ DOMAIN owner = DOMAIN reference
    /\ \A a \in DOMAIN reference :
          owner[a] \in DOMAIN stores /\ Entry(reference, a) \in stores[owner[a]]
    /\ \A thread \in DOMAIN stores : \A w \in stores[thread] :
          \E a \in DOMAIN reference : w = Entry(reference, a) /\ owner[a] = thread

\* A launch whose elements have an owner each computes them.
LEMMA OwnedComputes ==
    ASSUME NEW stores, NEW reference, NEW owner, IsFiniteSet(DOMAIN reference),
           Owned(stores, reference, owner)
    PROVE  Computes(stores, reference)
<1> DEFINE all == UNION {{<<thread, w>> : w \in stores[thread]} : thread \in DOMAIN stores}
           f == [a \in DOMAIN reference |-> <<owner[a], Entry(reference, a)>>]
<1>1. \A a \in DOMAIN reference : f[a] \in all
  BY DEF Owned
<1>2. \A e \in all : \E a \in DOMAIN reference : e = f[a]
  BY DEF Owned
<1>3. \A a \in DOMAIN reference : f[a][2].at = a /\ f[a][2].value = reference[a]
  BY DEF Entry
<1> HIDE DEF f, all
<1>4. Cardinality(all) = Cardinality(DOMAIN reference)
  <2>1. f \in [DOMAIN reference -> all]
    <3>1. f = [a \in DOMAIN reference |-> f[a]]
      BY DEF f
    <3>2. QED BY <1>1, <3>1
  <2>2. \A a, b \in DOMAIN reference : f[a] = f[b] => a = b
    BY <1>3
  <2>3. f \in Bijection(DOMAIN reference, all)
    BY <1>2, <2>1, <2>2 DEF Bijection, Injection, Surjection, IsInjective
  <2>4. ExistsBijection(DOMAIN reference, all)
    BY <2>3 DEF ExistsBijection
  <2>5. QED BY <2>4, FS_Bijection
<1>5. {e[2].at : e \in all} = DOMAIN reference
  <2>1. ASSUME NEW e \in all PROVE e[2].at \in DOMAIN reference
    BY <1>2, <1>3
  <2>2. ASSUME NEW a \in DOMAIN reference PROVE \E e \in all : e[2].at = a
    BY <1>1, <1>3
  <2>3. QED BY <2>1, <2>2
<1>6. \A e \in all : e[2].value = reference[e[2].at]
  BY <1>2, <1>3
<1>7. QED BY <1>4, <1>5, <1>6 DEF Computes, all

\* The numbers below another are finitely many.
LEMMA BelowIsFinite ==
    ASSUME NEW n \in Nat
    PROVE  IsFiniteSet(Below(n))
<1>1. 0 \in Int /\ n - 1 \in Int
  OBVIOUS
<1>2. QED BY <1>1, FS_Interval DEF Below

-----------------------------------------------------------------------------
(* Addresses.                                                              *)

\* An address that is a row's and a column's.
IsRow(n, c, r, i) ==
    r * c + i \in Below(n * c) /\ (r * c + i) \div c = r /\ (r * c + i) % c = i

\* Row by row: an address has one row and one column.
LEMMA RowIs ==
    ASSUME NEW n \in Nat, NEW c \in Nat, NEW r \in Nat, NEW i \in Nat, r < n, i < c
    PROVE  IsRow(n, c, r, i)
<1>1. PICK a \in Nat : a = r * c
  BY NaturalProduct
<1>2. (r + 1) * c <= n * c /\ n * c \in Nat /\ (r + 1) * c = a + c
  <2>1. r + 1 \in Nat /\ r + 1 <= n
    OBVIOUS
  <2>2. (r + 1) * c <= n * c
    BY <2>1, ProductGrows
  <2>3. (r + 1) * c = r * c + c
    OBVIOUS
  <2>4. QED BY <1>1, <2>2, <2>3, NaturalProduct
<1>3. r * c + i \in Below(n * c)
  <2>1. PICK m \in Nat : m = n * c
    BY <1>2
  <2>2. a + i \in 0 .. m - 1
    BY <1>2, <2>1
  <2>3. QED BY <1>1, <2>1, <2>2 DEF Below
<1>4. a + i = c * r + i
  BY <1>1
<1>5. (a + i) \div c = r /\ (a + i) % c = i
  BY <1>4, DivisionIs
<1>6. QED BY <1>1, <1>3, <1>5 DEF IsRow

\* The same, one fact at a time.
LEMMA RowAndColumn ==
    ASSUME NEW n \in Nat, NEW c \in Nat, NEW r \in Nat, NEW i \in Nat, r < n, i < c
    PROVE  /\ r * c + i \in Below(n * c)
           /\ (r * c + i) \div c = r /\ (r * c + i) % c = i
<1>1. IsRow(n, c, r, i)
  BY RowIs
<1>2. QED BY <1>1 DEF IsRow

\* Every address of rows has them.
LEMMA AddressSplits ==
    ASSUME NEW n \in Nat, NEW c \in Nat, NEW a \in Below(n * c)
    PROVE  \E r \in Nat, i \in Nat :
              /\ r < n /\ i < c /\ a = r * c + i /\ a \in Nat /\ c > 0
              /\ a \div c = r /\ a % c = i
<1>1. PICK m \in Nat : m = n * c
  BY NaturalProduct
<1>2. a \in Nat /\ a < m
  BY <1>1 DEF Below
<1>3. c > 0 /\ n > 0
  <2>1. CASE c = 0
    BY <1>1, <1>2, <2>1
  <2>2. CASE n = 0
    BY <1>1, <1>2, <2>2
  <2>3. QED BY <2>1, <2>2
<1>4. PICK q \in Nat, i \in Nat : q = a \div c /\ i = a % c /\ i < c /\ a = c * q + i
  BY <1>2, <1>3, Division
<1>5. q < n
  <2>1. SUFFICES ASSUME n <= q PROVE FALSE
    BY <1>4
  <2>2. n * c <= q * c /\ q * c \in Nat
    BY <2>1, ProductGrows, NaturalProduct
  <2>3. q * c = c * q
    OBVIOUS
  <2>4. QED BY <1>1, <1>2, <1>4, <2>2, <2>3
<1>6. c * q = q * c
  OBVIOUS
<1>7. QED BY <1>2, <1>3, <1>4, <1>5, <1>6

-----------------------------------------------------------------------------
(* Strides over places.                                                    *)

\* What strides from a lane has the lane as its remainder, and is all that has.
LEMMA StridedIs ==
    ASSUME NEW stride \in Nat, stride > 0, NEW limit \in Nat
    PROVE  /\ \A i \in Below(limit) : i % stride \in Below(stride) /\ i \in Strided(i % stride, stride, limit)
           /\ \A l \in Below(stride) : \A i \in Strided(l, stride, limit) : i \in Below(limit) /\ i % stride = l
<1>1. ASSUME NEW i \in Below(limit)
      PROVE  i % stride \in Below(stride) /\ i \in Strided(i % stride, stride, limit)
  <2>1. i \in Nat /\ i < limit
    BY DEF Below
  <2>2. PICK q \in Nat, r \in Nat : q = i \div stride /\ r = i % stride /\ r < stride /\ i = stride * q + r
    BY <2>1, Division
  <2>3. PICK m \in Nat : m = stride * q
    BY NaturalProduct
  <2>4. m = stride * q + 0 /\ 0 < stride
    BY <2>3
  <2>5. m % stride = 0
    BY <2>3, <2>4, DivisionIs
  <2>6. i - r = m
    BY <2>2, <2>3
  <2>7. QED BY <2>1, <2>2, <2>5, <2>6 DEF Below, Strided
<1>2. ASSUME NEW l \in Below(stride), NEW i \in Strided(l, stride, limit)
      PROVE  i \in Below(limit) /\ i % stride = l
  <2>1. l \in Nat /\ l < stride
    BY DEF Below
  <2>2. i \in l .. limit - 1 /\ (i - l) % stride = 0
    BY DEF Strided
  <2>3. i \in Nat /\ i < limit /\ i - l \in Nat
    BY <2>1, <2>2
  <2>4. PICK d \in Nat : d = i - l
    BY <2>3
  <2>5. PICK q \in Nat, r \in Nat : q = d \div stride /\ r = d % stride /\ r < stride /\ d = stride * q + r
    BY <2>4, Division
  <2>6. PICK m \in Nat : m = stride * q
    BY NaturalProduct
  <2>7. i = stride * q + l
    <3>1. r = 0
      BY <2>2, <2>4, <2>5
    <3>2. d = m
      BY <2>5, <2>6, <3>1
    <3>3. i = m + l
      BY <2>1, <2>3, <2>4, <3>2
    <3>4. QED BY <2>6, <3>3
  <2>8. i % stride = l
    BY <2>1, <2>7, DivisionIs
  <2>9. QED BY <2>3, <2>8 DEF Below
<1>3. QED BY <1>1, <1>2

\* A stride past the end is made once.
LEMMA StridedOnce ==
    ASSUME NEW stride \in Nat, NEW limit \in Nat, limit <= stride, NEW l \in Nat
    PROVE  Strided(l, stride, limit) = {l} \cap Below(limit)
<1>1. ASSUME NEW i \in Strided(l, stride, limit) PROVE i = l /\ i \in Below(limit)
  <2>1. i \in l .. limit - 1 /\ (i - l) % stride = 0
    BY DEF Strided
  <2>2. PICK d \in Nat : d = i - l /\ d < stride
    BY <2>1
  <2>3. d = stride * 0 + d
    OBVIOUS
  <2>4. d % stride = d
    BY <2>2, <2>3, DivisionIs
  <2>5. d = 0
    BY <2>1, <2>2, <2>4
  <2>6. QED BY <2>1, <2>2, <2>5 DEF Below
<1>2. ASSUME l \in Below(limit) PROVE l \in Strided(l, stride, limit)
  <2>1. l \in l .. limit - 1 /\ stride > 0 /\ l - l = 0
    BY <1>2 DEF Below
  <2>2. 0 = stride * 0 + 0
    OBVIOUS
  <2>3. 0 % stride = 0
    BY <2>1, <2>2, DivisionIs
  <2>4. QED BY <2>1, <2>3 DEF Strided
<1>3. QED BY <1>1, <1>2

\* Enough blocks are launched for every element.
LEMMA BlocksCover ==
    ASSUME NEW count \in Nat, NEW size \in Nat, size > 0
    PROVE  /\ CeilDiv(count, size) \in Nat
           /\ count <= CeilDiv(count, size) * size
           /\ count > 0 => CeilDiv(count, size) > 0
           /\ \A m \in Nat : count <= m * size => CeilDiv(count, size) <= m
           /\ \A i \in Below(count) : i \div size \in Below(CeilDiv(count, size))
<1>1. PICK n \in Nat : n = count + size - 1
  OBVIOUS
<1>2. PICK q \in Nat, r \in Nat : q = n \div size /\ r < size /\ n = size * q + r
  BY <1>1, Division
<1>3. PICK m \in Nat : m = q * size
  BY NaturalProduct
<1>4. size * q = m
  BY <1>3
<1>5. count <= m
  BY <1>1, <1>2, <1>4
<1>6. CeilDiv(count, size) = q
  BY <1>1, <1>2 DEF CeilDiv
<1>7. count > 0 => q > 0
  <2>1. q = 0 => m = 0
    BY <1>3
  <2>2. QED BY <1>5, <2>1
<1>8. ASSUME NEW k \in Nat, count <= k * size PROVE q <= k
  <2>1. SUFFICES ASSUME k + 1 <= q PROVE FALSE
    OBVIOUS
  <2>2. (k + 1) * size <= q * size
    BY <2>1, ProductGrows
  <2>3. PICK p \in Nat : p = k * size
    BY NaturalProduct
  <2>4. (k + 1) * size = p + size
    BY <2>3
  <2>5. QED BY <1>1, <1>2, <1>3, <1>4, <1>8, <2>2, <2>3, <2>4
<1>9. ASSUME NEW i \in Below(count) PROVE i \div size \in Below(q)
  <2>1. i \in Nat /\ i < count
    BY DEF Below
  <2>2. i \in Below(q * size)
    BY <1>3, <1>5, <2>1 DEF Below
  <2>3. PICK d \in Nat : d < q /\ i \div size = d
    BY <2>2, AddressSplits
  <2>4. QED BY <2>3 DEF Below
<1>10. QED BY <1>3, <1>5, <1>6, <1>7, <1>8, <1>9

\* The pairs of a row and a column, each with an address of its own.
Places(place, rows, limit, reference) ==
    /\ \A r \in rows, i \in Below(limit) : place[<<r, i>>] \in DOMAIN reference
    /\ \A a \in DOMAIN reference : \E r \in rows, i \in Below(limit) : a = place[<<r, i>>]
    /\ \A r, s \in rows : \A i, j \in Below(limit) :
          place[<<r, i>>] = place[<<s, j>>] => r = s /\ i = j

\* The threads of a row stride over its columns, a lane each.
StridesOver(stores, reference, threadOf, place, rows, stride, limit) ==
    /\ \A r \in rows, l \in Below(stride) :
          /\ threadOf[<<r, l>>] \in DOMAIN stores
          /\ stores[threadOf[<<r, l>>]]
               = {Entry(reference, place[<<r, i>>]) : i \in Strided(l, stride, limit)}
    /\ \A thread \in DOMAIN stores : \E r \in rows, l \in Below(stride) : thread = threadOf[<<r, l>>]

\* Such a launch computes the reference.
LEMMA StridesCompute ==
    ASSUME NEW stores, NEW reference, IsFiniteSet(DOMAIN reference), NEW threadOf, NEW place,
           NEW rows, NEW stride \in Nat, stride > 0, NEW limit \in Nat,
           Places(place, rows, limit, reference),
           StridesOver(stores, reference, threadOf, place, rows, stride, limit)
    PROVE  Computes(stores, reference)
<1> DEFINE Owns(thread, a) ==
               \E r \in rows, i \in Below(limit) : a = place[<<r, i>>] /\ thread = threadOf[<<r, i % stride>>]
           owner == [a \in DOMAIN reference |-> CHOOSE thread : Owns(thread, a)]
<1>1. ASSUME NEW r \in rows, NEW i \in Below(limit)
      PROVE  owner[place[<<r, i>>]] = threadOf[<<r, i % stride>>]
  <2>1. PICK a \in DOMAIN reference : a = place[<<r, i>>]
    BY DEF Places
  <2>2. Owns(threadOf[<<r, i % stride>>], a)
    BY <2>1
  <2>3. ASSUME NEW thread, Owns(thread, a) PROVE thread = threadOf[<<r, i % stride>>]
    <3>1. PICK s \in rows, j \in Below(limit) : a = place[<<s, j>>] /\ thread = threadOf[<<s, j % stride>>]
      BY <2>3
    <3>2. place[<<r, i>>] = place[<<s, j>>]
      BY <2>1, <3>1
    <3>3. s = r /\ j = i
      BY <3>2 DEF Places
    <3>4. QED BY <3>1, <3>3
  <2> HIDE DEF Owns
  <2>4. (CHOOSE thread : Owns(thread, a)) = threadOf[<<r, i % stride>>]
    BY <2>2, <2>3
  <2>5. QED BY <2>1, <2>4
<1>2. DOMAIN owner = DOMAIN reference
  OBVIOUS
<1> HIDE DEF owner
<1>3. ASSUME NEW a \in DOMAIN reference
      PROVE  owner[a] \in DOMAIN stores /\ Entry(reference, a) \in stores[owner[a]]
  <2>1. PICK r \in rows, i \in Below(limit) : a = place[<<r, i>>]
    BY DEF Places
  <2>2. PICK l \in Below(stride) : l = i % stride /\ i \in Strided(l, stride, limit)
    BY StridedIs
  <2>3. owner[a] = threadOf[<<r, l>>]
    BY <1>1, <2>1, <2>2
  <2>4. /\ threadOf[<<r, l>>] \in DOMAIN stores
        /\ stores[threadOf[<<r, l>>]]
             = {Entry(reference, place[<<r, j>>]) : j \in Strided(l, stride, limit)}
    BY DEF StridesOver
  <2>5. Entry(reference, place[<<r, i>>]) \in stores[threadOf[<<r, l>>]]
    BY <2>2, <2>4
  <2>6. QED BY <2>1, <2>3, <2>4, <2>5
<1>4. ASSUME NEW thread \in DOMAIN stores, NEW w \in stores[thread]
      PROVE  \E a \in DOMAIN reference : w = Entry(reference, a) /\ owner[a] = thread
  <2>1. PICK r \in rows, l \in Below(stride) : thread = threadOf[<<r, l>>]
    BY DEF StridesOver
  <2>2. PICK i \in Strided(l, stride, limit) : w = Entry(reference, place[<<r, i>>])
    BY <2>1 DEF StridesOver
  <2>3. i \in Below(limit) /\ i % stride = l
    BY <2>2, StridedIs
  <2>4. PICK a \in DOMAIN reference : a = place[<<r, i>>]
    BY <2>3 DEF Places
  <2>5. owner[a] = thread
    BY <1>1, <2>1, <2>3, <2>4
  <2>6. QED BY <2>2, <2>4, <2>5
<1>5. Owned(stores, reference, owner)
  BY <1>2, <1>3, <1>4 DEF Owned
<1>6. QED BY <1>5, OwnedComputes

\* What is less than the modulus is its own remainder.
LEMMA SmallRemainder ==
    ASSUME NEW s \in Nat, NEW n \in Nat, n < s
    PROVE  n \div s = 0 /\ n % s = n
<1>1. n = s * 0 + n
  OBVIOUS
<1>2. QED BY <1>1, DivisionIs

-----------------------------------------------------------------------------
(* Sums of terms over the lanes of a warp and the warps of a block.        *)

\* The lanes have no term in common.
SharesApart(A, S) == \A i, j \in S : i # j => A[i] \cap A[j] = {}

\* What lane-sets have between them.
Across(A, S) == UNION {A[j] : j \in S}

\* A sum of two bags of different terms is the bag of both.
LEMMA BagsJoin ==
    ASSUME NEW A, NEW B, A \cap B = {}
    PROVE  SetToBag(A) (+) SetToBag(B) = SetToBag(A \cup B)
  BY DEF SetToBag, (+)

\* The lanes whose number has the remainder of this one's.
Alike(lane, s) == {j \in Lanes : j % s = lane % s}

\* What the lanes have when the offsets have come down to s.
Gathered(A, s) == [lane \in Lanes |-> SetToBag(Across(A, Alike(lane, s)))]

Exchanged(wide, s) == [lane \in Lanes |-> wide[lane] (+) wide[Partner(lane, s)]]

\* The lane exchanged with is a lane, alike but for the offset.
LEMMA PartnerIs ==
    ASSUME NEW s \in Nat, s > 0, NEW p \in Nat, WarpSize = 2 * s * p, NEW lane \in Lanes
    PROVE  /\ Partner(lane, s) \in Lanes
           /\ Alike(lane, s) = Alike(lane, 2 * s) \cup Alike(Partner(lane, s), 2 * s)
           /\ Alike(lane, 2 * s) \cap Alike(Partner(lane, s), 2 * s) = {}
<1>1. WarpSize \in Nat /\ lane \in Nat /\ lane < WarpSize
  BY GeometryAssumption DEF Lanes, Below
<1>2. PICK q \in Nat, r \in Nat : q = lane \div (2 * s) /\ r = lane % (2 * s) /\ r < 2 * s
                                  /\ lane = (2 * s) * q + r
  BY <1>1, Division
<1>3. PICK m \in Nat : m = (2 * s) * q
  BY NaturalProduct
<1>12. lane = m + r
  BY <1>2, <1>3
<1>4. m + 2 * s <= WarpSize
  <2>1. q < p
    <3>1. SUFFICES ASSUME p <= q PROVE FALSE
      OBVIOUS
    <3>2. p * (2 * s) <= q * (2 * s) /\ q * (2 * s) \in Nat
      BY <3>1, ProductGrows, NaturalProduct
    <3>3. p * (2 * s) = WarpSize /\ q * (2 * s) = m
      BY <1>3
    <3>4. QED BY <1>1, <1>2, <1>3, <3>2, <3>3
  <2>2. (q + 1) * (2 * s) <= p * (2 * s)
    BY <2>1, ProductGrows
  <2>3. (q + 1) * (2 * s) = m + 2 * s /\ p * (2 * s) = WarpSize
    BY <1>3
  <2>4. QED BY <2>2, <2>3
<1>5. PICK t \in Nat : /\ t < s /\ lane % s = t
                       /\ \/ r = t /\ Partner(lane, s) = m + (t + s)
                          \/ r = t + s /\ Partner(lane, s) = m + t
  <2>1. CASE r < s
    <3>1. PICK e \in Nat : e = 2 * q
      OBVIOUS
    <3>2. s * e = m
      BY <1>3, <3>1
    <3>3. lane = s * e + r
      BY <1>2, <1>3, <3>2
    <3>4. lane \div s = e /\ lane % s = r
      BY <2>1, <3>3, DivisionIs
    <3>5. e % 2 = 0
      BY <3>1
    <3>6. Partner(lane, s) = lane + s
      BY <3>4, <3>5 DEF Partner
    <3>7. lane + s = m + (r + s)
      BY <1>1, <1>12
    <3>8. QED BY <1>2, <2>1, <3>4, <3>6, <3>7
  <2>2. CASE ~ (r < s)
    <3>1. r - s \in Nat /\ r - s < s
      BY <1>2, <2>2
    <3>2. PICK t \in Nat : t = r - s /\ t < s
      BY <3>1
    <3>3. PICK e \in Nat : e = 2 * q + 1
      OBVIOUS
    <3>4. s * e = m + s
      BY <1>3, <3>3
    <3>5. lane = s * e + t
      BY <1>2, <1>3, <3>2, <3>4
    <3>6. lane \div s = e /\ lane % s = t
      BY <3>2, <3>5, DivisionIs
    <3>7. e % 2 # 0
      BY <3>3
    <3>8. Partner(lane, s) = lane - s
      BY <3>6, <3>7 DEF Partner
    <3>9. r = t + s /\ lane - s = m + t
      BY <1>1, <1>12, <3>2
    <3>10. QED BY <3>2, <3>6, <3>8, <3>9
  <2>3. QED BY <2>1, <2>2
<1>6. Partner(lane, s) \in Lanes
  <2>1. Partner(lane, s) \in Nat /\ Partner(lane, s) < WarpSize
    BY <1>1, <1>4, <1>5
  <2>2. QED BY <1>1, <2>1 DEF Lanes, Below
<1>7. \/ lane % (2 * s) = t /\ Partner(lane, s) % (2 * s) = t + s
      \/ lane % (2 * s) = t + s /\ Partner(lane, s) % (2 * s) = t
  <2>1. (m + t) % (2 * s) = t /\ (m + (t + s)) % (2 * s) = t + s
    <3>1. m + t = (2 * s) * q + t /\ t < 2 * s /\ 2 * s \in Nat
      BY <1>3, <1>5
    <3>2. PICK v \in Nat : v = t + s /\ v < 2 * s
      BY <1>5
    <3>3. (m + t) % (2 * s) = t
      BY <3>1, DivisionIs
    <3>4. (m + v) % (2 * s) = v
      <4>1. PICK w \in Nat : w = 2 * s
        OBVIOUS
      <4>2. PICK n : n = m + v
        OBVIOUS
      <4>3. n = w * q + v /\ v < w
        BY <1>3, <3>2, <4>1, <4>2
      <4>4. n % w = v
        BY <4>3, DivisionIs
      <4>5. QED BY <4>1, <4>2, <4>4
    <3>5. QED BY <3>2, <3>3, <3>4
  <2>2. QED BY <1>2, <1>5, <2>1
<1>8. \A j \in Lanes : j % s = t <=> j % (2 * s) = t \/ j % (2 * s) = t + s
  <2>1. \A j \in Lanes : j \in Nat
    BY DEF Lanes, Below
  <2>2. QED BY <1>5, <2>1, HalfTheModulus
<1>9. Alike(lane, s) = {j \in Lanes : j % s = t}
  BY <1>5 DEF Alike
<1>10. t # t + s
  OBVIOUS
<1>11. QED BY <1>6, <1>7, <1>8, <1>9, <1>10 DEF Alike

\* An exchange gathers what is alike for half the offset.
LEMMA ExchangeGathers ==
    ASSUME NEW s \in Nat, s > 0, NEW p \in Nat, WarpSize = 2 * s * p, NEW A, SharesApart(A, Lanes)
    PROVE  Exchanged(Gathered(A, 2 * s), s) = Gathered(A, s)
<1>1. ASSUME NEW lane \in Lanes
      PROVE  Gathered(A, 2 * s)[lane] (+) Gathered(A, 2 * s)[Partner(lane, s)]
               = SetToBag(Across(A, Alike(lane, s)))
  <2> DEFINE other == Partner(lane, s)
             mine == Alike(lane, 2 * s)
             its == Alike(other, 2 * s)
  <2>1. other \in Lanes /\ Alike(lane, s) = mine \cup its /\ mine \cap its = {}
    BY PartnerIs
  <2>2. /\ Gathered(A, 2 * s)[lane] = SetToBag(Across(A, mine))
        /\ Gathered(A, 2 * s)[other] = SetToBag(Across(A, its))
    BY <2>1 DEF Gathered
  <2>3. mine \subseteq Lanes /\ its \subseteq Lanes
    BY DEF Alike
  <2> HIDE DEF mine, its, other
  <2>4. Across(A, mine) \cap Across(A, its) = {}
    BY <2>1, <2>3 DEF SharesApart, Across
  <2>5. Across(A, mine) \cup Across(A, its) = Across(A, mine \cup its)
    BY DEF Across
  <2>6. QED BY <2>1, <2>2, <2>4, <2>5, BagsJoin DEF other
<1>2. QED BY <1>1 DEF Exchanged, Gathered

ExchangeRow(sum, value, s) == IF s >= WarpSize THEN value ELSE Exchanged(sum[2 * s], s)
Offsets == {2 ^ k : k \in 0 .. WarpSize}

\* The first lane of a warp, like the others, has the terms of all.
LEMMA WarpReduceIs ==
    ASSUME NEW A, SharesApart(A, Lanes)
    PROVE  WarpReduceSum([lane \in Lanes |-> SetToBag(A[lane])])[0] = SetToBag(Across(A, Lanes))
<1> DEFINE value == [lane \in Lanes |-> SetToBag(A[lane])]
           IsReduced(sum) == sum = [s \in Offsets |-> ExchangeRow(sum, value, s)]
<1>1. PICK m \in Nat : WarpSize = 2 ^ m /\ m <= WarpSize /\ WarpSize \in Nat /\ WarpSize > 0
  <2>1. PICK m \in 0 .. WarpSize : WarpSize = 2 ^ m
    BY GeometryAssumption DEF PowerOfTwo
  <2>2. QED BY <2>1, GeometryAssumption
<1>2. \A k \in Nat : 2 ^ k \in Nat /\ 2 ^ k > k /\ 2 * 2 ^ k = 2 ^ (k + 1) /\ k + 1 \in Nat
  BY PowersDouble, PowersGrow
<1>3. ASSUME NEW k \in Nat, k < m PROVE \E p \in Nat : WarpSize = 2 * 2 ^ k * p /\ 2 ^ k < WarpSize
  <2>1. PICK d \in Nat : d = m - (k + 1)
    BY <1>3
  <2>2. k + 1 + d = m /\ k + 1 \in Nat
    BY <2>1
  <2>3. 2 ^ m = 2 ^ (k + 1) * 2 ^ d
    BY <2>2, PowersMultiply
  <2>4. PICK p \in Nat : p = 2 ^ d /\ p > 0
    BY <1>2
  <2>5. PICK a \in Nat : a = 2 ^ k /\ a > 0
    BY <1>2
  <2>6. WarpSize = (2 * a) * p
    BY <1>1, <1>2, <2>3, <2>4, <2>5
  <2>7. 1 * (2 * a) <= p * (2 * a)
    BY <2>4, <2>5, ProductGrows
  <2>8. p * (2 * a) = WarpSize
    BY <2>6
  <2>9. a < WarpSize
    BY <1>1, <2>5, <2>7, <2>8
  <2>10. QED BY <2>4, <2>5, <2>6, <2>9
<1>4. value = Gathered(A, WarpSize)
  <2>1. ASSUME NEW lane \in Lanes PROVE Across(A, Alike(lane, WarpSize)) = A[lane]
    <3>1. ASSUME NEW j \in Lanes PROVE j % WarpSize = j
      <4>1. j \in Nat /\ j < WarpSize
        BY <1>1 DEF Lanes, Below
      <4>2. QED BY <1>1, <4>1, SmallRemainder
    <3>2. Alike(lane, WarpSize) = {lane}
      BY <3>1 DEF Alike
    <3>3. QED BY <3>2 DEF Across
  <2>2. QED BY <2>1 DEF Gathered
<1> HIDE DEF value
<1>5. ASSUME NEW k \in Nat, k < m
      PROVE  Exchanged(Gathered(A, 2 ^ (k + 1)), 2 ^ k) = Gathered(A, 2 ^ k)
  <2>1. PICK p \in Nat : WarpSize = 2 * 2 ^ k * p
    BY <1>3, <1>5
  <2>2. 2 ^ k \in Nat /\ 2 ^ k > 0 /\ 2 * 2 ^ k = 2 ^ (k + 1)
    BY <1>2
  <2>3. Exchanged(Gathered(A, 2 * 2 ^ k), 2 ^ k) = Gathered(A, 2 ^ k)
    BY <2>1, <2>2, ExchangeGathers
  <2>4. QED BY <2>2, <2>3
<1>6. \A k \in 0 .. WarpSize : k \in Nat /\ 2 ^ k \in Offsets /\ (2 ^ k >= WarpSize <=> k >= m)
  <2>1. ASSUME NEW k \in Nat, k >= m PROVE 2 ^ k >= WarpSize
    <3>1. PICK d \in Nat : k = m + d
      <4>1. k - m \in Nat /\ k = m + (k - m)
        BY <2>1
      <4>2. QED BY <4>1
    <3>2. 2 ^ k = 2 ^ m * 2 ^ d
      BY <3>1, PowersMultiply
    <3>3. PICK a \in Nat, b \in Nat : a = 2 ^ m /\ b = 2 ^ d /\ b >= 1
      BY <1>2
    <3>4. 1 * a <= b * a
      BY <3>3, ProductGrows
    <3>5. a * b = b * a
      BY <3>3
    <3>6. QED BY <1>1, <3>2, <3>3, <3>4, <3>5
  <2>2. \A k \in 0 .. WarpSize : k < m => 2 ^ k < WarpSize /\ 2 ^ k \in Nat
    BY <1>2, <1>3
  <2>3. \A k \in 0 .. WarpSize : k \in Nat
    BY <1>1
  <2>4. QED BY <1>1, <1>2, <2>1, <2>2, <2>3 DEF Offsets
<1>7. \E sum : IsReduced(sum)
  <2> DEFINE sum == [s \in Offsets |-> IF s >= WarpSize THEN value ELSE Gathered(A, s)]
  <2>1. ASSUME NEW s \in Offsets PROVE sum[s] = ExchangeRow(sum, value, s)
    <3>1. PICK k \in 0 .. WarpSize : s = 2 ^ k
      BY DEF Offsets
    <3>2. CASE s >= WarpSize
      BY <3>2 DEF ExchangeRow
    <3>3. CASE ~ (s >= WarpSize)
      <4>1. k \in Nat /\ k < m /\ k + 1 \in 0 .. WarpSize /\ 2 * s = 2 ^ (k + 1)
        BY <1>1, <1>2, <1>6, <3>1, <3>3
      <4>2. 2 * s \in Offsets
        BY <1>6, <4>1
      <4>3. sum[2 * s] = Gathered(A, 2 * s)
        <5>1. CASE 2 * s >= WarpSize
          <6>1. k + 1 >= m
            BY <1>6, <4>1, <5>1
          <6>2. k + 1 = m
            BY <4>1, <6>1
          <6>3. 2 * s = WarpSize
            BY <1>1, <4>1, <6>2
          <6>4. QED BY <1>4, <4>2, <5>1, <6>3
        <5>2. CASE ~ (2 * s >= WarpSize)
          BY <4>2, <5>2
        <5>3. QED BY <5>1, <5>2
      <4>4. sum[s] = Gathered(A, s)
        BY <3>3
      <4> HIDE DEF sum
      <4>5. Exchanged(sum[2 * s], s) = Gathered(A, s)
        BY <1>5, <3>1, <4>1, <4>3
      <4>6. QED BY <3>3, <4>4, <4>5 DEF ExchangeRow
    <3>4. QED BY <3>2, <3>3
  <2>2. sum = [s \in Offsets |-> sum[s]]
    OBVIOUS
  <2> HIDE DEF sum
  <2>3. IsReduced(sum)
    BY <2>1, <2>2
  <2>4. QED BY <2>3
<1>8. ASSUME NEW sum, IsReduced(sum) PROVE sum[1] = Gathered(A, 1)
  <2> DEFINE Q == {n \in Nat : n <= m => sum[2 ^ (m - n)] = Gathered(A, 2 ^ (m - n))}
  <2>1. 0 \in Q
    <3>1. m - 0 = m /\ m \in 0 .. WarpSize
      BY <1>1
    <3>2. 2 ^ m \in Offsets /\ 2 ^ m >= WarpSize
      BY <1>6, <3>1
    <3>3. sum[2 ^ m] = ExchangeRow(sum, value, 2 ^ m)
      BY <1>8, <3>2
    <3>4. sum[2 ^ m] = Gathered(A, 2 ^ m)
      BY <1>1, <1>4, <3>2, <3>3 DEF ExchangeRow
    <3>5. QED BY <3>1, <3>4
  <2>2. ASSUME NEW n \in Nat, n \in Q PROVE n + 1 \in Q
    <3>1. SUFFICES ASSUME n + 1 <= m PROVE sum[2 ^ (m - (n + 1))] = Gathered(A, 2 ^ (m - (n + 1)))
      OBVIOUS
    <3>2. PICK k \in Nat : k = m - (n + 1)
      BY <3>1
    <3>3. m - n = k + 1 /\ k < m /\ k \in 0 .. WarpSize
      BY <1>1, <3>1, <3>2
    <3>4. sum[2 ^ (k + 1)] = Gathered(A, 2 ^ (k + 1))
      BY <2>2, <3>1, <3>3
    <3>5. 2 ^ k \in Offsets /\ ~ (2 ^ k >= WarpSize) /\ 2 * 2 ^ k = 2 ^ (k + 1)
      BY <1>1, <1>2, <1>6, <3>3
    <3>6. sum[2 ^ k] = ExchangeRow(sum, value, 2 ^ k)
      BY <1>8, <3>5
    <3>7. sum[2 ^ k] = Exchanged(sum[2 ^ (k + 1)], 2 ^ k)
      BY <3>5, <3>6 DEF ExchangeRow
    <3>8. sum[2 ^ k] = Gathered(A, 2 ^ k)
      BY <1>5, <3>3, <3>4, <3>7
    <3>9. QED BY <3>2, <3>8
  <2>3. Nat \subseteq Q
    <3> HIDE DEF Q
    <3> QED BY <2>1, <2>2, Induction
  <2>4. m \in Q
    BY <2>3
  <2>5. sum[2 ^ (m - m)] = Gathered(A, 2 ^ (m - m)) /\ m - m = 0
    BY <2>4
  <2>6. 2 ^ 0 = 1
    BY PowersDouble
  <2>7. QED BY <2>5, <2>6
<1>9. WarpReduceSum(value) = (CHOOSE sum : IsReduced(sum))[1]
  BY DEF WarpReduceSum, ExchangeRow, Exchanged, Offsets
<1>10. WarpReduceSum(value) = Gathered(A, 1)
  <2> HIDE DEF IsReduced
  <2> QED BY <1>7, <1>8, <1>9
<1>11. 0 \in Lanes /\ Alike(0, 1) = Lanes
  <2>1. ASSUME NEW j \in Lanes PROVE j % 1 = 0
    <3>1. j \in Nat /\ j = 1 * j + 0
      BY DEF Lanes, Below
    <3>2. QED BY <3>1, DivisionIs
  <2>2. 0 \in Lanes
    BY <1>1 DEF Lanes, Below
  <2>3. QED BY <2>1, <2>2 DEF Alike
<1>12. Gathered(A, 1)[0] = SetToBag(Across(A, Lanes))
  BY <1>11 DEF Gathered
<1>13. QED BY <1>10, <1>12 DEF value

\* The threads of a block are the lanes of its warps.
LEMMA ThreadsAreLanes ==
    /\ Block \in Nat /\ Block > 0 /\ WarpSize \in Nat /\ WarpSize > 0 /\ Warps \in Nat
    /\ Below(Warps) \subseteq Lanes
    /\ \A w \in Below(Warps), l \in Lanes :
          w * WarpSize + l \in Threads /\ (w * WarpSize + l) \div WarpSize = w /\ (w * WarpSize + l) % WarpSize = l
    /\ \A t \in Threads : \E w \in Below(Warps), l \in Lanes :
          t = w * WarpSize + l /\ t \div WarpSize = w /\ t % WarpSize = l
<1>1. Block \in Nat /\ Block > 0
  BY StridesAre
<1>2. WarpSize \in Nat /\ WarpSize > 0 /\ Warps \in Nat /\ Warps <= WarpSize
  BY GeometryAssumption
<1>3. Below(Warps) \subseteq Lanes
  BY <1>2 DEF Lanes, Below
<1>4. ASSUME NEW w \in Below(Warps), NEW l \in Lanes
      PROVE  w * WarpSize + l \in Threads /\ (w * WarpSize + l) \div WarpSize = w /\ (w * WarpSize + l) % WarpSize = l
  <2>1. w \in Nat /\ w < Warps /\ l \in Nat /\ l < WarpSize
    BY <1>2 DEF Lanes, Below
  <2>2. w * WarpSize + l \in Below(Warps * WarpSize)
    BY <1>2, <2>1, RowAndColumn
  <2>3. (w * WarpSize + l) \div WarpSize = w /\ (w * WarpSize + l) % WarpSize = l
    BY <1>2, <2>1, RowAndColumn
  <2>4. QED BY <2>2, <2>3 DEF Threads, Block
<1>5. ASSUME NEW t \in Threads
      PROVE  \E w \in Below(Warps), l \in Lanes :
                t = w * WarpSize + l /\ t \div WarpSize = w /\ t % WarpSize = l
  <2>1. t \in Below(Warps * WarpSize)
    BY DEF Threads, Block
  <2>2. PICK w \in Nat, l \in Nat :
           w < Warps /\ l < WarpSize /\ t = w * WarpSize + l /\ t \div WarpSize = w /\ t % WarpSize = l
    BY <1>2, <2>1, AddressSplits
  <2>3. w \in Below(Warps) /\ l \in Lanes
    BY <1>2, <2>2 DEF Lanes, Below
  <2>4. QED BY <2>2, <2>3
<1>6. QED BY <1>1, <1>2, <1>3, <1>4, <1>5

\* blockReduceSum: where no two threads have a term in common, the first thread
\* of the block ends with every term once, for any warps in a block.
THEOREM BlockReduceIs ==
    ASSUME NEW B, SharesApart(B, Threads)
    PROVE  BlockReduceSum([t \in Threads |-> SetToBag(B[t])]) = SetToBag(Across(B, Threads))
<1> DEFINE value == [t \in Threads |-> SetToBag(B[t])]
           Part(w) == [lane \in Lanes |-> B[w * WarpSize + lane]]
           A == [lane \in Lanes |-> IF lane < Warps THEN Across(Part(lane), Lanes) ELSE {}]
           partials == [lane \in Lanes |->
                           IF lane < Warps THEN WarpReduceSum(OfWarp(value, lane))[0] ELSE EmptyBag]
<1>1. \A lane \in Lanes : lane < Warps => lane \in Below(Warps)
  BY GeometryAssumption DEF Lanes, Below
<1>2. ASSUME NEW w \in Below(Warps)
      PROVE  WarpReduceSum(OfWarp(value, w))[0] = SetToBag(Across(Part(w), Lanes))
  <2> DEFINE part == Part(w)
  <2>1. SharesApart(part, Lanes)
    <3>1. ASSUME NEW i \in Lanes, NEW j \in Lanes, i # j PROVE part[i] \cap part[j] = {}
      <4>1. PICK a \in Threads : a = w * WarpSize + i /\ a % WarpSize = i
        BY ThreadsAreLanes
      <4>2. PICK b \in Threads : b = w * WarpSize + j /\ b % WarpSize = j
        BY ThreadsAreLanes
      <4>3. a # b
        BY <3>1, <4>1, <4>2
      <4>4. B[a] \cap B[b] = {}
        BY <4>3 DEF SharesApart
      <4>5. part[i] = B[a] /\ part[j] = B[b]
        BY <4>1, <4>2
      <4>6. QED BY <4>4, <4>5
    <3> HIDE DEF part
    <3>2. QED BY <3>1 DEF SharesApart
  <2>2. OfWarp(value, w) = [lane \in Lanes |-> SetToBag(part[lane])]
    <3>1. ASSUME NEW lane \in Lanes PROVE value[w * WarpSize + lane] = SetToBag(part[lane])
      <4>1. PICK a \in Threads : a = w * WarpSize + lane
        BY ThreadsAreLanes
      <4>2. value[a] = SetToBag(B[a])
        OBVIOUS
      <4>3. part[lane] = B[a]
        BY <4>1
      <4>4. QED BY <4>1, <4>2, <4>3
    <3> HIDE DEF part, value
    <3>2. QED BY <3>1 DEF OfWarp
  <2> HIDE DEF part
  <2>3. WarpReduceSum([lane \in Lanes |-> SetToBag(part[lane])])[0] = SetToBag(Across(part, Lanes))
    BY <2>1, WarpReduceIs
  <2>4. QED BY <2>2, <2>3 DEF part
<1>3. partials = [lane \in Lanes |-> SetToBag(A[lane])]
  <2>1. ASSUME NEW lane \in Lanes
        PROVE  (IF lane < Warps THEN WarpReduceSum(OfWarp(value, lane))[0] ELSE EmptyBag) = SetToBag(A[lane])
    <3>1. CASE lane < Warps
      <4>1. A[lane] = Across(Part(lane), Lanes)
        BY <3>1
      <4>2. WarpReduceSum(OfWarp(value, lane))[0] = SetToBag(Across(Part(lane), Lanes))
        BY <1>1, <1>2, <3>1
      <4> HIDE DEF A, value, Part
      <4>3. QED BY <3>1, <4>1, <4>2
    <3>2. CASE ~ (lane < Warps)
      <4>1. A[lane] = {}
        BY <3>2
      <4> HIDE DEF A
      <4>2. QED BY <3>2, <4>1 DEF EmptyBag
    <3>3. QED BY <3>1, <3>2
  <2> HIDE DEF A, value
  <2>2. QED BY <2>1
<1>4. \A lane \in Lanes : \A e : e \in A[lane] <=> lane < Warps /\ \E l \in Lanes : e \in B[lane * WarpSize + l]
  <2>1. ASSUME NEW lane \in Lanes, NEW e
        PROVE  e \in A[lane] <=> lane < Warps /\ \E l \in Lanes : e \in B[lane * WarpSize + l]
    BY DEF Across
  <2>2. QED BY <2>1
<1> HIDE DEF A, value
<1>5. SharesApart(A, Lanes)
  <2>1. ASSUME NEW i \in Lanes, NEW j \in Lanes, i # j, NEW e \in A[i], e \in A[j] PROVE FALSE
    <3>1. i \in Below(Warps) /\ j \in Below(Warps)
      BY <1>1, <1>4, <2>1
    <3>2. PICK k \in Lanes : e \in B[i * WarpSize + k]
      BY <1>4
    <3>3. PICK l \in Lanes : e \in B[j * WarpSize + l]
      BY <1>4, <2>1
    <3>4. PICK a \in Threads : a = i * WarpSize + k /\ a \div WarpSize = i
      BY <3>1, ThreadsAreLanes
    <3>5. PICK b \in Threads : b = j * WarpSize + l /\ b \div WarpSize = j
      BY <3>1, ThreadsAreLanes
    <3>6. a # b /\ e \in B[a] /\ e \in B[b]
      BY <2>1, <3>2, <3>3, <3>4, <3>5
    <3>7. QED BY <3>6 DEF SharesApart
  <2>2. QED BY <2>1 DEF SharesApart
<1>6. Across(A, Lanes) = Across(B, Threads)
  <2>1. ASSUME NEW lane \in Lanes, NEW e \in A[lane] PROVE \E t \in Threads : e \in B[t]
    <3>1. lane \in Below(Warps)
      BY <1>1, <1>4
    <3>2. PICK l \in Lanes : e \in B[lane * WarpSize + l]
      BY <1>4
    <3>3. PICK a \in Threads : a = lane * WarpSize + l
      BY <3>1, ThreadsAreLanes
    <3>4. QED BY <3>2, <3>3
  <2>2. ASSUME NEW t \in Threads, NEW e \in B[t] PROVE \E lane \in Lanes : e \in A[lane]
    <3>1. PICK w \in Below(Warps), l \in Lanes : t = w * WarpSize + l
      BY ThreadsAreLanes
    <3>2. w \in Lanes /\ w < Warps
      BY ThreadsAreLanes DEF Below
    <3>3. e \in B[w * WarpSize + l]
      BY <3>1
    <3>4. e \in A[w]
      BY <1>4, <3>2, <3>3
    <3>5. QED BY <3>2, <3>4
  <2>3. QED BY <2>1, <2>2 DEF Across
<1>7. WarpReduceSum([lane \in Lanes |-> SetToBag(A[lane])])[0] = SetToBag(Across(A, Lanes))
  BY <1>5, WarpReduceIs
<1>8. BlockReduceSum(value) = WarpReduceSum(partials)[0]
  BY DEF BlockReduceSum
<1>9. QED BY <1>3, <1>6, <1>7, <1>8 DEF value

\* What the threads of a block have that stride over terms.
StrideSets(F, count) == [t \in Threads |-> {F[i] : i \in Strided(t, Block, count)}]
StrideShares(F, count) == [t \in Threads |-> SetToBag({F[i] : i \in Strided(t, Block, count)})]

\* No two have a term in common, and all have them all.
LEMMA StridesShare ==
    ASSUME NEW count \in Nat, NEW F, \A i, j \in Below(count) : F[i] = F[j] => i = j
    PROVE  /\ SharesApart(StrideSets(F, count), Threads)
           /\ Across(StrideSets(F, count), Threads) = {F[i] : i \in Below(count)}
           /\ StrideShares(F, count) = [t \in Threads |-> SetToBag(StrideSets(F, count)[t])]
<1> DEFINE B == [t \in Threads |-> {F[i] : i \in Strided(t, Block, count)}]
<1>1. Block \in Nat /\ Block > 0
  BY ThreadsAreLanes
<1>2. /\ \A i \in Below(count) : i % Block \in Threads /\ i \in Strided(i % Block, Block, count)
      /\ \A t \in Threads : \A i \in Strided(t, Block, count) : i \in Below(count) /\ i % Block = t
  BY <1>1, StridedIs DEF Threads
<1>3. SharesApart(B, Threads)
  <2>1. ASSUME NEW s \in Threads, NEW t \in Threads, s # t PROVE B[s] \cap B[t] = {}
    BY <1>2, <2>1
  <2> HIDE DEF B
  <2>2. QED BY <2>1 DEF SharesApart
<1>4. Across(B, Threads) = {F[i] : i \in Below(count)}
  <2>1. ASSUME NEW t \in Threads, NEW e \in B[t] PROVE \E i \in Below(count) : e = F[i]
    BY <1>2
  <2>2. ASSUME NEW i \in Below(count) PROVE \E t \in Threads : F[i] \in B[t]
    BY <1>2
  <2> HIDE DEF B
  <2>3. QED BY <2>1, <2>2 DEF Across
<1>5. StrideShares(F, count) = [t \in Threads |-> SetToBag(B[t])]
  BY DEF StrideShares
<1>6. B = StrideSets(F, count)
  BY DEF StrideSets
<1> HIDE DEF B
<1>7. QED BY <1>3, <1>4, <1>5, <1>6

\* A block sums them all, each once.
LEMMA StridedSum ==
    ASSUME NEW count \in Nat, NEW F, \A i, j \in Below(count) : F[i] = F[j] => i = j
    PROVE  BlockReduceSum(StrideShares(F, count)) = SetToBag({F[i] : i \in Below(count)})
<1>1. PICK B : B = StrideSets(F, count)
  OBVIOUS
<1>2. /\ SharesApart(B, Threads) /\ Across(B, Threads) = {F[i] : i \in Below(count)}
      /\ StrideShares(F, count) = [t \in Threads |-> SetToBag(B[t])]
  BY <1>1, StridesShare
<1>3. QED BY <1>2, BlockReduceIs

\* Sums one after the other, as the lanes of a wave and the waves of a group
\* are added up by the shaders.
TallyRow(sum, value, k) == IF k = 0 THEN EmptyBag ELSE sum[k - 1] (+) value[k - 1]

\* A sum one after the other has every term once, if no two values share one.
LEMMA SummedIs ==
    ASSUME NEW n \in Nat, NEW A, SharesApart(A, Below(n))
    PROVE  D3D12!Summed([k \in Below(n) |-> SetToBag(A[k])], n) = SetToBag(Across(A, Below(n)))
<1> DEFINE value == [k \in Below(n) |-> SetToBag(A[k])]
           IsTally(sum) == sum = [k \in 0 .. n |-> TallyRow(sum, value, k)]
           tally == [k \in 0 .. n |-> SetToBag(Across(A, Below(k)))]
<1>1. tally[0] = EmptyBag
  <2>1. Below(0) = {}
    BY DEF Below
  <2>2. Across(A, Below(0)) = {}
    BY <2>1 DEF Across
  <2>3. QED BY <2>2 DEF EmptyBag
<1>2. ASSUME NEW k \in 1 .. n
      PROVE  SetToBag(Across(A, Below(k - 1))) (+) value[k - 1] = SetToBag(Across(A, Below(k)))
  <2>1. k - 1 \in Below(n) /\ Below(k - 1) \subseteq Below(n) /\ k - 1 \notin Below(k - 1)
    BY DEF Below
  <2>2. Below(k) = Below(k - 1) \cup {k - 1}
    BY DEF Below
  <2>3. value[k - 1] = SetToBag(A[k - 1])
    BY <2>1
  <2>4. Across(A, Below(k - 1)) \cap A[k - 1] = {}
    BY <2>1 DEF SharesApart, Across
  <2>5. Across(A, Below(k - 1)) \cup A[k - 1] = Across(A, Below(k))
    BY <2>2 DEF Across
  <2> HIDE DEF value
  <2>6. QED BY <2>3, <2>4, <2>5, BagsJoin
<1> HIDE DEF value
<1>3. IsTally(tally)
  <2>1. ASSUME NEW k \in 0 .. n PROVE tally[k] = TallyRow(tally, value, k)
    <3>1. CASE k = 0
      BY <1>1, <3>1 DEF TallyRow
    <3>2. CASE k # 0
      <4>1. k \in 1 .. n /\ k - 1 \in 0 .. n
        BY <3>2
      <4>2. tally[k - 1] = SetToBag(Across(A, Below(k - 1))) /\ tally[k] = SetToBag(Across(A, Below(k)))
        BY <4>1
      <4> HIDE DEF tally
      <4>3. QED BY <1>2, <3>2, <4>1, <4>2 DEF TallyRow
    <3>3. QED BY <3>1, <3>2
  <2>2. tally = [k \in 0 .. n |-> tally[k]]
    OBVIOUS
  <2> HIDE DEF tally
  <2>3. QED BY <2>1, <2>2
<1>4. ASSUME NEW sum, IsTally(sum) PROVE sum[n] = SetToBag(Across(A, Below(n)))
  <2> DEFINE Q == {k \in Nat : k <= n => sum[k] = SetToBag(Across(A, Below(k)))}
  <2>1. \A k \in 0 .. n : sum[k] = TallyRow(sum, value, k)
    BY <1>4
  <2>2. 0 \in Q
    <3>1. sum[0] = EmptyBag
      BY <2>1 DEF TallyRow
    <3>2. SetToBag(Across(A, Below(0))) = EmptyBag
      BY <1>1
    <3>3. QED BY <3>1, <3>2
  <2>3. ASSUME NEW k \in Nat, k \in Q PROVE k + 1 \in Q
    <3>1. SUFFICES ASSUME k + 1 <= n PROVE sum[k + 1] = SetToBag(Across(A, Below(k + 1)))
      OBVIOUS
    <3>2. sum[k + 1] = sum[k] (+) value[k]
      <4>1. k + 1 \in 0 .. n /\ k + 1 # 0 /\ (k + 1) - 1 = k
        BY <3>1
      <4>2. QED BY <2>1, <4>1 DEF TallyRow
    <3>3. sum[k] = SetToBag(Across(A, Below(k)))
      BY <2>3, <3>1
    <3>4. SetToBag(Across(A, Below(k))) (+) value[k] = SetToBag(Across(A, Below(k + 1)))
      <4>1. k + 1 \in 1 .. n /\ (k + 1) - 1 = k
        BY <3>1
      <4>2. QED BY <1>2, <4>1
    <3>5. QED BY <3>2, <3>3, <3>4
  <2>4. Nat \subseteq Q
    <3> HIDE DEF Q
    <3> QED BY <2>2, <2>3, Induction
  <2>5. n \in Q
    BY <2>4
  <2>6. QED BY <2>5
<1>5. D3D12!Summed(value, n) = (CHOOSE sum : IsTally(sum))[n]
  BY DEF D3D12!Summed, TallyRow, D3D12!EmptyBag, EmptyBag, D3D12!SetToBag, SetToBag, D3D12!(+), (+)
<1>6. D3D12!Summed(value, n) = SetToBag(Across(A, Below(n)))
  <2> HIDE DEF IsTally, tally
  <2> QED BY <1>3, <1>4, <1>5
<1>7. QED BY <1>6 DEF value

\* groupSum: where no two threads have a term in common, every thread ends with
\* every term once, for waves of any width that divides a group.
THEOREM GroupSumIs ==
    ASSUME NEW B, SharesApart(B, Threads), NEW lanes \in Nat, lanes > 0, Block % lanes = 0
    PROVE  D3D12!groupSum([t \in Threads |-> SetToBag(B[t])], lanes) = SetToBag(Across(B, Threads))
<1> DEFINE value == [t \in Threads |-> SetToBag(B[t])]
           Part(w) == [lane \in Below(lanes) |-> B[w * lanes + lane]]
<1>1. PICK waves \in Nat : Threads = Below(waves * lanes) /\ D3D12!CeilDiv(D3D12!Block, lanes) = waves
  <2>1. PICK n \in Nat : n = Block
    BY ThreadsAreLanes
  <2>2. PICK q \in Nat, r \in Nat : q = n \div lanes /\ r = n % lanes /\ r < lanes /\ n = lanes * q + r
    BY Division
  <2>3. PICK m \in Nat : m = lanes * q
    BY NaturalProduct
  <2>4. n = m
    BY <2>1, <2>2, <2>3
  <2>5. PICK b \in Nat : b = n + lanes - 1 /\ b = m + (lanes - 1) /\ lanes - 1 \in Nat /\ lanes - 1 < lanes
    BY <2>4
  <2>6. b \div lanes = q
    BY <2>3, <2>5, DivisionIs
  <2>7. lanes * q = q * lanes
    OBVIOUS
  <2>8. D3D12!CeilDiv(D3D12!Block, lanes) = b \div lanes
    BY <2>1, <2>5 DEF D3D12!CeilDiv, D3D12!Block, Block
  <2>9. Threads = Below(q * lanes)
    BY <2>1, <2>3, <2>4, <2>7 DEF Threads
  <2>10. QED BY <2>6, <2>8, <2>9
<1>2. ASSUME NEW w \in Below(waves), NEW l \in Below(lanes)
      PROVE  w * lanes + l \in Threads /\ (w * lanes + l) \div lanes = w /\ (w * lanes + l) % lanes = l
  <2>1. w \in Nat /\ w < waves /\ l \in Nat /\ l < lanes
    BY DEF Below
  <2>2. QED BY <1>1, <2>1, RowAndColumn
<1>3. ASSUME NEW t \in Threads
      PROVE  \E w \in Below(waves), l \in Below(lanes) : t = w * lanes + l
  <2>1. t \in Below(waves * lanes)
    BY <1>1
  <2>2. PICK w \in Nat, l \in Nat : w < waves /\ l < lanes /\ t = w * lanes + l
    BY <2>1, AddressSplits
  <2>3. w \in Below(waves) /\ l \in Below(lanes)
    BY <2>2 DEF Below
  <2>4. QED BY <2>2, <2>3
<1> DEFINE A == [w \in Below(waves) |-> Across(Part(w), Below(lanes))]
           partials == [w \in Below(waves) |->
                D3D12!Summed([lane \in Below(lanes) |-> value[w * lanes + lane]], lanes)]
<1>4. ASSUME NEW w \in Below(waves)
      PROVE  D3D12!Summed([lane \in Below(lanes) |-> value[w * lanes + lane]], lanes)
               = SetToBag(Across(Part(w), Below(lanes)))
  <2> DEFINE part == Part(w)
  <2>1. SharesApart(part, Below(lanes))
    <3>1. ASSUME NEW i \in Below(lanes), NEW j \in Below(lanes), i # j PROVE part[i] \cap part[j] = {}
      <4>1. PICK a \in Threads : a = w * lanes + i /\ a % lanes = i
        BY <1>2
      <4>2. PICK b \in Threads : b = w * lanes + j /\ b % lanes = j
        BY <1>2
      <4>3. a # b
        BY <3>1, <4>1, <4>2
      <4>4. B[a] \cap B[b] = {}
        BY <4>3 DEF SharesApart
      <4>5. part[i] = B[a] /\ part[j] = B[b]
        BY <4>1, <4>2
      <4>6. QED BY <4>4, <4>5
    <3> HIDE DEF part
    <3>2. QED BY <3>1 DEF SharesApart
  <2>2. [lane \in Below(lanes) |-> value[w * lanes + lane]] = [lane \in Below(lanes) |-> SetToBag(part[lane])]
    <3>1. ASSUME NEW lane \in Below(lanes) PROVE value[w * lanes + lane] = SetToBag(part[lane])
      <4>1. PICK a \in Threads : a = w * lanes + lane
        BY <1>2
      <4>2. value[a] = SetToBag(B[a])
        OBVIOUS
      <4>3. part[lane] = B[a]
        BY <4>1
      <4>4. QED BY <4>1, <4>2, <4>3
    <3> HIDE DEF part, value
    <3>2. QED BY <3>1
  <2> HIDE DEF part, value
  <2>3. D3D12!Summed([lane \in Below(lanes) |-> SetToBag(part[lane])], lanes) = SetToBag(Across(part, Below(lanes)))
    BY <2>1, SummedIs
  <2>4. QED BY <2>2, <2>3 DEF part
<1>5. partials = [w \in Below(waves) |-> SetToBag(A[w])]
  <2> HIDE DEF value, Part
  <2> QED BY <1>4
<1>6. \A w \in Below(waves) : \A e : e \in A[w] <=> \E l \in Below(lanes) : e \in B[w * lanes + l]
  <2>1. ASSUME NEW w \in Below(waves), NEW e
        PROVE  e \in A[w] <=> \E l \in Below(lanes) : e \in B[w * lanes + l]
    BY DEF Across
  <2>2. QED BY <2>1
<1>7. D3D12!groupSum(value, lanes) = D3D12!Summed(partials, waves)
  <2>1. \A n : D3D12!Below(n) = Below(n)
    BY DEF D3D12!Below, Below
  <2> HIDE DEF value
  <2>2. QED BY <1>1, <2>1 DEF D3D12!groupSum, D3D12!WaveActiveSum
<1> HIDE DEF A, value, partials
<1>8. SharesApart(A, Below(waves))
  <2>1. ASSUME NEW i \in Below(waves), NEW j \in Below(waves), i # j, NEW e \in A[i], e \in A[j] PROVE FALSE
    <3>1. PICK k \in Below(lanes) : e \in B[i * lanes + k]
      BY <1>6
    <3>2. PICK l \in Below(lanes) : e \in B[j * lanes + l]
      BY <1>6, <2>1
    <3>3. PICK a \in Threads : a = i * lanes + k /\ a \div lanes = i
      BY <1>2
    <3>4. PICK b \in Threads : b = j * lanes + l /\ b \div lanes = j
      BY <1>2
    <3>5. a # b /\ e \in B[a] /\ e \in B[b]
      BY <2>1, <3>1, <3>2, <3>3, <3>4
    <3>6. QED BY <3>5 DEF SharesApart
  <2>2. QED BY <2>1 DEF SharesApart
<1>9. Across(A, Below(waves)) = Across(B, Threads)
  <2>1. ASSUME NEW w \in Below(waves), NEW e \in A[w] PROVE \E t \in Threads : e \in B[t]
    BY <1>2, <1>6
  <2>2. ASSUME NEW t \in Threads, NEW e \in B[t] PROVE \E w \in Below(waves) : e \in A[w]
    <3>1. PICK w \in Below(waves), l \in Below(lanes) : t = w * lanes + l
      BY <1>3
    <3>2. QED BY <1>6, <3>1
  <2>3. QED BY <2>1, <2>2 DEF Across
<1>10. D3D12!Summed([w \in Below(waves) |-> SetToBag(A[w])], waves) = SetToBag(Across(A, Below(waves)))
  BY <1>8, SummedIs
<1>11. QED BY <1>5, <1>7, <1>9, <1>10 DEF value

\* So does a group.
LEMMA StridedGroupSum ==
    ASSUME NEW count \in Nat, NEW F, \A i, j \in Below(count) : F[i] = F[j] => i = j,
           NEW lanes \in Nat, lanes > 0, Block % lanes = 0
    PROVE  D3D12!groupSum(StrideShares(F, count), lanes) = SetToBag({F[i] : i \in Below(count)})
<1>1. PICK B : B = StrideSets(F, count)
  OBVIOUS
<1>2. /\ SharesApart(B, Threads) /\ Across(B, Threads) = {F[i] : i \in Below(count)}
      /\ StrideShares(F, count) = [t \in Threads |-> SetToBag(B[t])]
  BY <1>1, StridesShare
<1>3. QED BY <1>2, GroupSumIs

\* A launch of no threads computes what has no elements.
LEMMA NothingComputes ==
    ASSUME NEW stores, NEW reference, DOMAIN stores = {}, DOMAIN reference = {}
    PROVE  Computes(stores, reference)
<1> DEFINE owner == [a \in {} |-> a]
<1>1. Owned(stores, reference, owner)
  BY DEF Owned
<1>2. QED BY <1>1, OwnedComputes, FS_EmptySet

\* The threads of a line of blocks stride over the line together.
StridesLines(stores, reference, place, W, H, threads, limit) ==
    /\ DOMAIN stores = Grid(W, H, threads)
    /\ \A x \in Below(W), y \in Below(H), t \in Below(threads) :
          stores[<<x, y, t>>]
            = {Entry(reference, place[<<y, i>>]) : i \in Strided(x * threads + t, W * threads, limit)}

\* Threads numbered along a line of blocks visit each place once.
LEMMA LinesCompute ==
    ASSUME NEW stores, NEW reference, IsFiniteSet(DOMAIN reference), NEW place,
           NEW W \in Nat, NEW H \in Nat, NEW threads \in Nat, threads > 0,
           NEW limit \in Nat, W = 0 => limit = 0,
           Places(place, Below(H), limit, reference),
           StridesLines(stores, reference, place, W, H, threads, limit)
    PROVE  Computes(stores, reference)
<1>1. PICK n \in Nat : n = W * threads
  BY NaturalProduct
<1>2. CASE W = 0
  <2>1. limit = 0
    BY <1>2
  <2>2. Below(limit) = {} /\ Below(W) = {}
    BY <1>2, <2>1 DEF Below
  <2>3. DOMAIN reference = {}
    BY <2>2 DEF Places
  <2>4. DOMAIN stores = {}
    BY <2>2 DEF StridesLines, Grid
  <2>5. QED BY <2>3, <2>4, NothingComputes
<1>3. CASE W > 0
  <2> DEFINE rows == Below(H)
             threadOf == [p \in rows \X Below(n) |-> <<p[2] \div threads, p[1], p[2] % threads>>]
  <2>1. n > 0
    <3>1. 1 * threads <= W * threads
      BY <1>3, ProductGrows
    <3>2. QED BY <1>1, <3>1
  <2>2. ASSUME NEW r \in rows, NEW l \in Below(n)
        PROVE  /\ threadOf[<<r, l>>] \in DOMAIN stores
               /\ stores[threadOf[<<r, l>>]]
                    = {Entry(reference, place[<<r, i>>]) : i \in Strided(l, n, limit)}
    <3>1. PICK x \in Nat, t \in Nat :
             x < W /\ t < threads /\ l = x * threads + t /\ l \div threads = x /\ l % threads = t
      BY <1>1, AddressSplits
    <3>2. x \in Below(W) /\ t \in Below(threads)
      BY <3>1 DEF Below
    <3>3. threadOf[<<r, l>>] = <<x, r, t>>
      BY <3>1
    <3>4. <<x, r, t>> \in DOMAIN stores
      BY <3>2 DEF StridesLines, Grid
    <3>5. stores[<<x, r, t>>] = {Entry(reference, place[<<r, i>>]) : i \in Strided(l, n, limit)}
      BY <1>1, <3>1, <3>2 DEF StridesLines
    <3>6. QED BY <3>3, <3>4, <3>5
  <2>3. ASSUME NEW thread \in DOMAIN stores
        PROVE  \E r \in rows, l \in Below(n) : thread = threadOf[<<r, l>>]
    <3>1. PICK x \in Below(W), y \in Below(H), t \in Below(threads) : thread = <<x, y, t>>
      BY DEF StridesLines, Grid
    <3>2. x \in Nat /\ t \in Nat /\ x < W /\ t < threads
      BY <3>1 DEF Below
    <3>3. PICK l \in Below(n) : l = x * threads + t
      BY <1>1, <3>2, RowAndColumn
    <3>4. l \div threads = x /\ l % threads = t
      BY <3>2, <3>3, RowAndColumn
    <3>5. threadOf[<<y, l>>] = <<x, y, t>>
      BY <3>4
    <3>6. QED BY <3>1, <3>5
  <2> HIDE DEF threadOf
  <2>4. StridesOver(stores, reference, threadOf, place, rows, n, limit)
    BY <2>2, <2>3 DEF StridesOver
  <2>5. QED BY <2>1, <2>4, StridesCompute
<1>4. QED BY <1>2, <1>3

\* The threads of each block stride over a row of their own.
StridesRows(stores, reference, place, W, H, threads, limit) ==
    /\ DOMAIN stores = Grid(W, H, threads)
    /\ \A x \in Below(W), y \in Below(H), t \in Below(threads) :
          stores[<<x, y, t>>]
            = {Entry(reference, place[<<<<x, y>>, i>>]) : i \in Strided(t, threads, limit)}

\* Threads of a block visit each place of their row once.
LEMMA RowsCompute ==
    ASSUME NEW stores, NEW reference, IsFiniteSet(DOMAIN reference), NEW place,
           NEW W, NEW H, NEW threads \in Nat, threads > 0, NEW limit \in Nat,
           Places(place, Below(W) \X Below(H), limit, reference),
           StridesRows(stores, reference, place, W, H, threads, limit)
    PROVE  Computes(stores, reference)
<1> DEFINE rows == Below(W) \X Below(H)
           threadOf == [p \in rows \X Below(threads) |-> <<p[1][1], p[1][2], p[2]>>]
<1>1. ASSUME NEW r \in rows, NEW l \in Below(threads)
      PROVE  /\ threadOf[<<r, l>>] \in DOMAIN stores
             /\ stores[threadOf[<<r, l>>]]
                  = {Entry(reference, place[<<r, i>>]) : i \in Strided(l, threads, limit)}
  <2>1. PICK x \in Below(W), y \in Below(H) : r = <<x, y>>
    OBVIOUS
  <2>2. threadOf[<<r, l>>] = <<x, y, l>>
    BY <2>1
  <2>3. <<x, y, l>> \in DOMAIN stores
    BY DEF StridesRows, Grid
  <2>4. stores[<<x, y, l>>] = {Entry(reference, place[<<r, i>>]) : i \in Strided(l, threads, limit)}
    BY <2>1 DEF StridesRows
  <2>5. QED BY <2>2, <2>3, <2>4
<1>2. ASSUME NEW thread \in DOMAIN stores
      PROVE  \E r \in rows, l \in Below(threads) : thread = threadOf[<<r, l>>]
  <2>1. PICK x \in Below(W), y \in Below(H), t \in Below(threads) : thread = <<x, y, t>>
    BY DEF StridesRows, Grid
  <2>2. <<x, y>> \in rows /\ threadOf[<<<<x, y>>, t>>] = <<x, y, t>>
    BY <2>1
  <2>3. QED BY <2>1, <2>2
<1> HIDE DEF threadOf
<1>3. StridesOver(stores, reference, threadOf, place, rows, threads, limit)
  BY <1>1, <1>2 DEF StridesOver
<1>4. QED BY <1>3, StridesCompute

-----------------------------------------------------------------------------
(* Elements by themselves, rows of a batch.                                *)

\* One element for each thread of enough blocks.
LEMMA ElementsCompute ==
    ASSUME NEW count \in Nat, NEW reference, DOMAIN reference = Below(count),
           NEW stores, DOMAIN stores = Grid(BlocksFor(count, Block), 1, Block),
           \A x \in Below(BlocksFor(count, Block)), t \in Threads :
              stores[<<x, 0, t>>]
                = {Entry(reference, i) : i \in {x * Block + t} \cap Below(count)}
    PROVE  Computes(stores, reference)
<1> DEFINE W == BlocksFor(count, Block)
           place == [p \in Below(1) \X Below(count) |-> p[2]]
<1>1. Block \in Nat /\ Block > 0
  BY ThreadsAreLanes
<1>2. W \in Nat /\ count <= W * Block /\ W * Block \in Nat
  BY <1>1, BlocksCover, NaturalProduct DEF BlocksFor
<1>3. Below(1) = {0} /\ (W = 0 => count = 0)
  <2>1. W = 0 => W * Block = 0
    BY <1>1
  <2>2. QED BY <1>2, <2>1 DEF Below
<1>4. Places(place, Below(1), count, reference)
  BY <1>3 DEF Places
<1> HIDE DEF W
<1>5. ASSUME NEW x \in Below(W), NEW y \in Below(1), NEW t \in Below(Block)
      PROVE  stores[<<x, y, t>>]
               = {Entry(reference, place[<<y, i>>]) : i \in Strided(x * Block + t, W * Block, count)}
  <2>1. x \in Nat /\ t \in Nat /\ t \in Threads
    BY <1>1, <1>2 DEF Below, Threads
  <2>2. x * Block + t \in Nat
    BY <1>1, <2>1, NaturalProduct
  <2>3. Strided(x * Block + t, W * Block, count) = {x * Block + t} \cap Below(count)
    BY <1>2, <2>2, StridedOnce
  <2>4. \A i \in Below(count) : place[<<y, i>>] = i
    OBVIOUS
  <2>5. stores[<<x, y, t>>] = {Entry(reference, i) : i \in {x * Block + t} \cap Below(count)}
    BY <1>3, <2>1 DEF W
  <2> HIDE DEF place
  <2>6. PICK S : S = Strided(x * Block + t, W * Block, count) /\ S = {x * Block + t} \cap Below(count)
    BY <2>3
  <2>7. \A i \in S : place[<<y, i>>] = i
    BY <2>4, <2>6
  <2>8. {Entry(reference, place[<<y, i>>]) : i \in S} = {Entry(reference, i) : i \in S}
    <3>1. \A i \in S : Entry(reference, place[<<y, i>>]) = Entry(reference, i)
      BY <2>7
    <3>2. QED BY <3>1
  <2>9. QED BY <2>5, <2>6, <2>8
<1>6. DOMAIN stores = Grid(W, 1, Block)
  BY DEF W
<1>7. IsFiniteSet(DOMAIN reference)
  BY BelowIsFinite
<1> HIDE DEF place
<1>8. StridesLines(stores, reference, place, W, 1, Block, count)
  BY <1>5, <1>6 DEF StridesLines
<1>9. QED BY <1>1, <1>2, <1>3, <1>4, <1>7, <1>8, LinesCompute

\* Strides stay below the limit.
LEMMA StridedWithin ==
    ASSUME NEW first \in Nat, NEW stride, NEW limit \in Nat
    PROVE  Strided(first, stride, limit) \subseteq Below(limit)
  BY DEF Strided, Below

\* gegluKernel, addKernel, scaleKernel, logitSoftcapKernel.
LEMMA ElementwiseComputes ==
    ASSUME NEW count \in Nat
    PROVE  Computes(Elementwise(count), ElementwiseReference(count))
<1> DEFINE reference == ElementwiseReference(count)
           stores == Elementwise(count)
<1>1. DOMAIN reference = Below(count) /\ \A i \in Below(count) : reference[i] = i
  BY DEF ElementwiseReference
<1>2. DOMAIN stores = Grid(BlocksFor(count, Block), 1, Block)
  BY DEF Elementwise
<1>3. ASSUME NEW x \in Below(BlocksFor(count, Block)), NEW t \in Threads
      PROVE  stores[<<x, 0, t>>] = {Entry(reference, i) : i \in {x * Block + t} \cap Below(count)}
  <2>1. <<x, 0, t>> \in Grid(BlocksFor(count, Block), 1, Block)
    BY DEF Grid, Threads, Below
  <2>2. stores[<<x, 0, t>>] = {[at |-> i, value |-> i] : i \in {x * Block + t} \cap Below(count)}
    BY <2>1 DEF Elementwise
  <2>3. \A i \in Below(count) : Entry(reference, i) = [at |-> i, value |-> i]
    BY <1>1 DEF Entry
  <2> HIDE DEF stores, reference
  <2>4. QED BY <2>2, <2>3
<1> HIDE DEF stores, reference
<1>4. Computes(stores, reference)
  BY <1>1, <1>2, <1>3, ElementsCompute
<1>5. QED BY <1>4 DEF stores, reference

\* moeCombineKernel.
LEMMA CombineComputes ==
    ASSUME NEW topK, NEW hidden \in Nat
    PROVE  Computes(MoeCombine(topK, hidden), CombineReference(topK, hidden))
<1> DEFINE reference == CombineReference(topK, hidden)
           stores == MoeCombine(topK, hidden)
           Sum(i) == SetToBag({[weights |-> k, expertOutputs |-> k * hidden + i] : k \in Below(topK)})
<1>1. DOMAIN reference = Below(hidden) /\ \A i \in Below(hidden) : reference[i] = Sum(i)
  BY DEF CombineReference
<1>2. DOMAIN stores = Grid(BlocksFor(hidden, Block), 1, Block)
  BY DEF MoeCombine
<1>3. ASSUME NEW x \in Below(BlocksFor(hidden, Block)), NEW t \in Threads
      PROVE  stores[<<x, 0, t>>] = {Entry(reference, i) : i \in {x * Block + t} \cap Below(hidden)}
  <2>1. <<x, 0, t>> \in Grid(BlocksFor(hidden, Block), 1, Block)
    BY DEF Grid, Threads, Below
  <2>2. stores[<<x, 0, t>>] = {[at |-> i, value |-> Sum(i)] : i \in {x * Block + t} \cap Below(hidden)}
    BY <2>1 DEF MoeCombine
  <2> HIDE DEF Sum
  <2>3. \A i \in Below(hidden) : Entry(reference, i) = [at |-> i, value |-> Sum(i)]
    BY <1>1 DEF Entry
  <2> HIDE DEF stores, reference
  <2>4. QED BY <2>2, <2>3
<1> HIDE DEF stores, reference
<1>4. Computes(stores, reference)
  BY <1>1, <1>2, <1>3, ElementsCompute
<1>5. QED BY <1>4 DEF stores, reference

\* fillZeroKernel: the blocks there are at most stride over the rest.
LEMMA FillZeroComputes ==
    ASSUME NEW count \in Nat
    PROVE  Computes(FillZero(count), ZeroReference(count))
<1> DEFINE reference == ZeroReference(count)
           stores == FillZero(count)
           W == Min({BlocksFor(count, Block), MaxBlocks})
           place == [p \in Below(1) \X Below(count) |-> p[2]]
<1>1. Block \in Nat /\ Block > 0 /\ MaxBlocks \in Nat /\ MaxBlocks > 0
  BY ThreadsAreLanes, GeometryAssumption
<1>2. BlocksFor(count, Block) \in Nat /\ (count > 0 => BlocksFor(count, Block) > 0)
  BY <1>1, BlocksCover DEF BlocksFor
<1>3. W \in Nat /\ (count > 0 => W > 0) 
  <2>1. PICK b \in Nat : b = BlocksFor(count, Block)
    BY <1>2
  <2>2. CASE b <= MaxBlocks
    <3>1. {b, MaxBlocks} \in SUBSET Nat /\ \A i \in {b, MaxBlocks} : b <= i
      BY <1>1, <2>2
    <3>2. Min({b, MaxBlocks}) = b
      BY <3>1, MinIs
    <3>3. QED BY <1>2, <2>1, <3>2
  <2>3. CASE ~ (b <= MaxBlocks)
    <3>1. {b, MaxBlocks} \in SUBSET Nat /\ \A i \in {b, MaxBlocks} : MaxBlocks <= i
      BY <1>1, <2>3
    <3>2. Min({b, MaxBlocks}) = MaxBlocks
      BY <3>1, MinIs
    <3>3. QED BY <1>1, <2>1, <3>2
  <2>4. QED BY <2>2, <2>3
<1>4. Below(1) = {0}
  BY DEF Below
<1>5. DOMAIN reference = Below(count) /\ \A i \in Below(count) : reference[i] = Zero
  BY DEF ZeroReference
<1>6. Places(place, Below(1), count, reference)
  BY <1>4, <1>5 DEF Places
<1> HIDE DEF W
<1>7. DOMAIN stores = Grid(W, 1, Block)
  BY DEF FillZero, W
<1>8. ASSUME NEW x \in Below(W), NEW y \in Below(1), NEW t \in Below(Block)
      PROVE  stores[<<x, y, t>>]
               = {Entry(reference, place[<<y, i>>]) : i \in Strided(x * Block + t, W * Block, count)}
  <2>1. x \in Nat /\ t \in Nat /\ y = 0
    BY <1>1, <1>3, <1>4 DEF Below
  <2>2. PICK S : S = Strided(x * Block + t, W * Block, count)
    OBVIOUS
  <2>3. S \subseteq Below(count)
    <3>1. x * Block + t \in Nat
      BY <1>1, <2>1, NaturalProduct
    <3>2. QED BY <2>2, <3>1, StridedWithin
  <2>4. <<x, y, t>> \in Grid(W, 1, Block)
    BY DEF Grid
  <2>5. stores[<<x, y, t>>] = {[at |-> i, value |-> Zero] : i \in S}
    BY <2>2, <2>4 DEF FillZero, W
  <2>6. \A i \in S : Entry(reference, place[<<y, i>>]) = [at |-> i, value |-> Zero]
    BY <1>5, <2>3 DEF Entry
  <2> HIDE DEF stores, reference, place
  <2>7. QED BY <2>2, <2>5, <2>6
<1>9. IsFiniteSet(DOMAIN reference)
  BY <1>5, BelowIsFinite
<1> HIDE DEF stores, reference, place
<1>10. StridesLines(stores, reference, place, W, 1, Block, count)
  BY <1>7, <1>8 DEF StridesLines
<1>11. Computes(stores, reference)
  BY <1>1, <1>3, <1>6, <1>9, <1>10, LinesCompute
<1>12. QED BY <1>11 DEF stores, reference

\* Rows of addresses, one under the other.
LEMMA RowsArePlaces ==
    ASSUME NEW n \in Nat, NEW width \in Nat, NEW reference, DOMAIN reference = Below(n * width),
           NEW place, \A y \in Below(n), i \in Below(width) : place[<<y, i>>] = y * width + i
    PROVE  Places(place, Below(n), width, reference)
<1>1. ASSUME NEW y \in Below(n), NEW i \in Below(width)
      PROVE  /\ place[<<y, i>>] \in DOMAIN reference
             /\ place[<<y, i>>] \div width = y /\ place[<<y, i>>] % width = i
  <2>1. y \in Nat /\ y < n /\ i \in Nat /\ i < width
    BY DEF Below
  <2>2. IsRow(n, width, y, i)
    BY <2>1, RowIs
  <2>3. QED BY <2>2 DEF IsRow
<1>2. ASSUME NEW a \in DOMAIN reference PROVE \E y \in Below(n), i \in Below(width) : a = place[<<y, i>>]
  <2>1. a \in Below(n * width)
    OBVIOUS
  <2>2. PICK y \in Nat, i \in Nat : y < n /\ i < width /\ a = y * width + i
    BY <2>1, AddressSplits
  <2>3. y \in Below(n) /\ i \in Below(width)
    BY <2>2 DEF Below
  <2>4. QED BY <2>2, <2>3
<1>3. ASSUME NEW y \in Below(n), NEW z \in Below(n), NEW i \in Below(width), NEW j \in Below(width),
             place[<<y, i>>] = place[<<z, j>>]
      PROVE  y = z /\ i = j
  BY <1>1, <1>3
<1>4. QED BY <1>1, <1>2, <1>3 DEF Places

\* The blocks of a line cover it.
LEMMA LineOfBlocks ==
    ASSUME NEW width \in Nat
    PROVE  /\ Block \in Nat /\ Block > 0
           /\ BlocksFor(width, Block) \in Nat /\ width <= BlocksFor(width, Block) * Block
           /\ BlocksFor(width, Block) * Block \in Nat
           /\ BlocksFor(width, Block) = 0 => width = 0
<1>1. Block \in Nat /\ Block > 0
  BY ThreadsAreLanes
<1>2. BlocksFor(width, Block) \in Nat /\ width <= BlocksFor(width, Block) * Block
  BY <1>1, BlocksCover DEF BlocksFor
<1>3. BlocksFor(width, Block) = 0 => BlocksFor(width, Block) * Block = 0
  BY <1>1
<1>4. QED BY <1>1, <1>2, <1>3, NaturalProduct

\* gatherRowsKernel.
LEMMA GatherComputes ==
    ASSUME NEW rows \in Seq(Nat), NEW width \in Nat
    PROVE  Computes(GatherRows(rows, width), GatherReference(rows, width))
<1> DEFINE reference == GatherReference(rows, width)
           stores == GatherRows(rows, width)
           W == BlocksFor(width, Block)
           H == Len(rows)
           place == [p \in Below(H) \X Below(width) |-> p[1] * width + p[2]]
<1>1. Block \in Nat /\ Block > 0 /\ W \in Nat /\ (W = 0 => width = 0) /\ H \in Nat
  <2>1. H \in Nat
    OBVIOUS
  <2>2. QED BY <2>1, LineOfBlocks
<1>2. DOMAIN reference = Below(H * width)
  BY DEF GatherReference
<1>3. Places(place, Below(H), width, reference)
  BY <1>1, <1>2, RowsArePlaces
<1>4. DOMAIN stores = Grid(W, H, Block)
  BY DEF GatherRows
<1>5. ASSUME NEW x \in Below(W), NEW y \in Below(H), NEW t \in Below(Block)
      PROVE  stores[<<x, y, t>>]
               = {Entry(reference, place[<<y, i>>]) : i \in Strided(x * Block + t, W * Block, width)}
  <2>1. x \in Nat /\ t \in Nat /\ y \in Nat /\ y < H
    BY <1>1 DEF Below
  <2>2. PICK S : S = Strided(x * Block + t, W * Block, width)
    OBVIOUS
  <2>3. S \subseteq Below(width)
    <3>1. x * Block + t \in Nat
      BY <1>1, <2>1, NaturalProduct
    <3>2. QED BY <2>2, <3>1, StridedWithin
  <2>4. <<x, y, t>> \in Grid(W, H, Block)
    BY DEF Grid
  <2>5. stores[<<x, y, t>>] = {[at |-> y * width + i, value |-> rows[y + 1] * width + i] : i \in S}
    BY <2>2, <2>4 DEF GatherRows
  <2>6. ASSUME NEW i \in S
        PROVE  Entry(reference, place[<<y, i>>]) = [at |-> y * width + i, value |-> rows[y + 1] * width + i]
    <3>1. i \in Below(width) /\ i \in Nat /\ i < width
      BY <2>3 DEF Below
    <3>2. PICK a \in Below(H * width) : a = y * width + i /\ a \div width = y /\ a % width = i
      <4>1. IsRow(H, width, y, i)
        BY <1>1, <2>1, <3>1, RowIs
      <4>2. QED BY <4>1 DEF IsRow
    <3>3. place[<<y, i>>] = a
      BY <3>1, <3>2
    <3>4. reference[a] = rows[(a \div width) + 1] * width + (a % width)
      BY DEF GatherReference
    <3>5. reference[a] = rows[y + 1] * width + i
      BY <3>2, <3>4
    <3> HIDE DEF reference, place
    <3>6. QED BY <3>2, <3>3, <3>5 DEF Entry
  <2> HIDE DEF stores, reference, place
  <2>7. {Entry(reference, place[<<y, i>>]) : i \in S}
          = {[at |-> y * width + i, value |-> rows[y + 1] * width + i] : i \in S}
    BY <2>6
  <2>8. QED BY <2>2, <2>5, <2>7
<1>6. IsFiniteSet(DOMAIN reference)
  BY <1>1, <1>2, BelowIsFinite, NaturalProduct
<1> HIDE DEF stores, reference, place, W, H
<1>7. StridesLines(stores, reference, place, W, H, Block, width)
  BY <1>4, <1>5 DEF StridesLines
<1>8. Computes(stores, reference)
  BY <1>1, <1>3, <1>6, <1>7, LinesCompute
<1>9. QED BY <1>8 DEF stores, reference

\* scatterAddRowsKernel: rows that are distinct are added to once, from the
\* row and scale of their own.
THEOREM ScatterComputes ==
    ASSUME NEW rows \in Seq(Nat), \A m, n \in 1 .. Len(rows) : rows[m] = rows[n] => m = n,
           NEW width \in Nat
    PROVE  Computes(ScatterAddRows(rows, width), ScatterReference(rows, width))
<1> DEFINE reference == ScatterReference(rows, width)
           stores == ScatterAddRows(rows, width)
           W == BlocksFor(width, Block)
           H == Len(rows)
           place == [p \in Below(H) \X Below(width) |-> rows[p[1] + 1] * width + p[2]]
<1>1. Block \in Nat /\ Block > 0 /\ W \in Nat /\ (W = 0 => width = 0) /\ H \in Nat
  <2>1. H \in Nat
    OBVIOUS
  <2>2. QED BY <2>1, LineOfBlocks
<1>2. DOMAIN rows = 1 .. H /\ \A n \in 1 .. H : rows[n] \in Nat
  OBVIOUS
<1>3. \A y \in Below(H) : y \in Nat /\ y + 1 \in 1 .. H
  BY <1>1 DEF Below
<1>4. DOMAIN reference = {rows[n] * width + i : n \in 1 .. H, i \in Below(width)}
  BY <1>2 DEF ScatterReference
<1>5. ASSUME NEW y \in Below(H), NEW i \in Below(width)
      PROVE  /\ place[<<y, i>>] = rows[y + 1] * width + i /\ place[<<y, i>>] \in DOMAIN reference
             /\ place[<<y, i>>] \div width = rows[y + 1] /\ place[<<y, i>>] % width = i
             /\ reference[place[<<y, i>>]] = [scales |-> y, input |-> y * width + i]
  <2>1. y + 1 \in 1 .. H /\ i \in Nat /\ i < width /\ y \in Nat
    BY <1>3 DEF Below
  <2>2. PICK r \in Nat : r = rows[y + 1]
    BY <1>2, <2>1
  <2>3. PICK a : a = r * width + i
    OBVIOUS
  <2>4. a \div width = r /\ a % width = i
    <3>1. IsRow(r + 1, width, r, i)
      BY <2>1, RowIs
    <3>2. QED BY <2>3, <3>1 DEF IsRow
  <2>5. place[<<y, i>>] = a
    BY <2>2, <2>3
  <2>6. a \in DOMAIN reference
    BY <1>4, <2>1, <2>2, <2>3
  <2>7. (CHOOSE m \in DOMAIN rows : rows[m] = a \div width) = y + 1
    <3>1. \A m \in 1 .. H : rows[m] = a \div width <=> m = y + 1
      BY <2>1, <2>2, <2>4
    <3>2. QED BY <1>2, <2>1, <3>1
  <2>8. reference[a] = LET n == CHOOSE m \in DOMAIN rows : rows[m] = a \div width
                       IN  [scales |-> n - 1, input |-> (n - 1) * width + (a % width)]
    BY <2>6 DEF ScatterReference
  <2>9. reference[a] = [scales |-> (y + 1) - 1, input |-> ((y + 1) - 1) * width + i]
    BY <2>4, <2>7, <2>8
  <2>10. (y + 1) - 1 = y
    BY <2>1
  <2>11. reference[a] = [scales |-> y, input |-> y * width + i]
    BY <2>9, <2>10
  <2> HIDE DEF reference, place
  <2>12. QED BY <2>2, <2>3, <2>4, <2>5, <2>6, <2>11
<1> HIDE DEF reference, place
<1>6. Places(place, Below(H), width, reference)
  <2>1. ASSUME NEW a \in DOMAIN reference PROVE \E y \in Below(H), i \in Below(width) : a = place[<<y, i>>]
    <3>1. PICK n \in 1 .. H, i \in Below(width) : a = rows[n] * width + i
      BY <1>4
    <3>2. PICK y \in Below(H) : n = y + 1
      <4>1. n - 1 \in Below(H) /\ n = (n - 1) + 1
        BY <1>1 DEF Below
      <4>2. QED BY <4>1
    <3>3. QED BY <1>5, <3>1, <3>2
  <2>2. ASSUME NEW y \in Below(H), NEW z \in Below(H), NEW i \in Below(width), NEW j \in Below(width),
               place[<<y, i>>] = place[<<z, j>>]
        PROVE  y = z /\ i = j
    <3>1. rows[y + 1] = rows[z + 1] /\ i = j
      <4>1. PICK a : a = place[<<y, i>>]
        OBVIOUS
      <4>2. a \div width = rows[y + 1] /\ a % width = i
        BY <1>5, <4>1
      <4>3. a = place[<<z, j>>]
        BY <2>2, <4>1
      <4>4. a \div width = rows[z + 1] /\ a % width = j
        BY <1>5, <4>3
      <4>5. QED BY <4>2, <4>4
    <3>2. y + 1 \in 1 .. H /\ z + 1 \in 1 .. H /\ y \in Nat /\ z \in Nat
      BY <1>3
    <3>3. y + 1 = z + 1
      BY <3>1, <3>2
    <3>4. QED BY <3>1, <3>2, <3>3
  <2>3. QED BY <1>5, <2>1, <2>2 DEF Places
<1>7. DOMAIN stores = Grid(W, H, Block)
  BY DEF ScatterAddRows
<1>8. ASSUME NEW x \in Below(W), NEW y \in Below(H), NEW t \in Below(Block)
      PROVE  stores[<<x, y, t>>]
               = {Entry(reference, place[<<y, i>>]) : i \in Strided(x * Block + t, W * Block, width)}
  <2>1. x \in Nat /\ t \in Nat
    BY <1>1 DEF Below
  <2>2. PICK S : S = Strided(x * Block + t, W * Block, width)
    OBVIOUS
  <2>3. S \subseteq Below(width)
    <3>1. x * Block + t \in Nat
      BY <1>1, <2>1, NaturalProduct
    <3>2. QED BY <2>2, <3>1, StridedWithin
  <2>4. <<x, y, t>> \in Grid(W, H, Block)
    BY DEF Grid
  <2>5. stores[<<x, y, t>>] = {[at |-> rows[y + 1] * width + i,
                                value |-> [scales |-> y, input |-> y * width + i]] : i \in S}
    BY <2>2, <2>4 DEF ScatterAddRows
  <2>6. ASSUME NEW i \in S
        PROVE  Entry(reference, place[<<y, i>>])
                 = [at |-> rows[y + 1] * width + i, value |-> [scales |-> y, input |-> y * width + i]]
    BY <1>5, <2>3 DEF Entry
  <2> HIDE DEF stores
  <2>7. {Entry(reference, place[<<y, i>>]) : i \in S}
          = {[at |-> rows[y + 1] * width + i, value |-> [scales |-> y, input |-> y * width + i]] : i \in S}
    BY <2>6
  <2>8. QED BY <2>2, <2>5, <2>7
<1>9. IsFiniteSet(DOMAIN reference)
  <2> DEFINE T == (1 .. H) \X Below(width)
             f == [p \in T |-> rows[p[1]] * width + p[2]]
  <2>1. IsFiniteSet(T)
    <3>1. IsFiniteSet(1 .. H) /\ IsFiniteSet(Below(width))
      BY <1>1, FS_Interval, BelowIsFinite
    <3>2. QED BY <3>1, FS_Product
  <2>2. DOMAIN reference = {f[p] : p \in T}
    <3>1. ASSUME NEW n \in 1 .. H, NEW i \in Below(width)
          PROVE  <<n, i>> \in T /\ f[<<n, i>>] = rows[n] * width + i
      OBVIOUS
    <3>2. ASSUME NEW p \in T PROVE \E n \in 1 .. H, i \in Below(width) : p = <<n, i>>
      OBVIOUS
    <3> HIDE DEF f, T
    <3>3. ASSUME NEW a \in DOMAIN reference PROVE \E p \in T : a = f[p]
      <4>1. PICK n \in 1 .. H, i \in Below(width) : a = rows[n] * width + i
        BY <1>4
      <4>2. QED BY <3>1, <4>1
    <3>4. ASSUME NEW p \in T PROVE f[p] \in DOMAIN reference
      <4>1. PICK n \in 1 .. H, i \in Below(width) : p = <<n, i>>
        BY <3>2
      <4>2. f[p] = rows[n] * width + i
        BY <3>1, <4>1
      <4>3. QED BY <1>4, <4>2
    <3>5. QED BY <3>3, <3>4
  <2> HIDE DEF T
  <2>3. f \in Surjection(T, {f[p] : p \in T})
    BY DEF Surjection
  <2> HIDE DEF f
  <2>4. QED BY <2>1, <2>2, <2>3, FS_Surjection
<1> HIDE DEF stores, W, H
<1>10. StridesLines(stores, reference, place, W, H, Block, width)
  BY <1>7, <1>8 DEF StridesLines
<1>11. Computes(stores, reference)
  BY <1>1, <1>6, <1>9, <1>10, LinesCompute
<1>12. QED BY <1>11 DEF stores, reference

-----------------------------------------------------------------------------
(* Quantized matrices.                                                     *)

\* A valid layout whose groups are whole words.
QuantizedSound(l) ==
    /\ {l.in, l.out, l.perWord, l.group} \subseteq Nat
    /\ l.perWord > 0 /\ ValidLayout(l) /\ l.group % l.perWord = 0

\* A row is a whole number of words, a group too.
LEMMA WordsAre ==
    ASSUME NEW l, QuantizedSound(l)
    PROVE  /\ l.in \in Nat /\ l.out \in Nat /\ l.perWord \in Nat /\ l.group \in Nat
           /\ l.perWord > 0 /\ l.group > 0
           /\ WordsPerRow(l) \in Nat /\ GroupsPerRow(l) \in Nat
           /\ WordsPerRow(l) * l.perWord = l.in
           /\ \E g \in Nat : g = l.group \div l.perWord /\ g > 0 /\ l.group = l.perWord * g
<1>1. PICK c \in Nat, w \in Nat, group \in Nat, out \in Nat :
         c = l.in /\ w = l.perWord /\ group = l.group /\ out = l.out
  BY DEF QuantizedSound
<1>2. w > 0 /\ group > 0 /\ c % w = 0 /\ group % w = 0
  BY <1>1 DEF QuantizedSound, ValidLayout
<1>3. PICK q \in Nat, r \in Nat : q = c \div w /\ r = c % w /\ r < w /\ c = w * q + r
  BY <1>2, Division
<1>4. PICK g \in Nat, s \in Nat : g = group \div w /\ s = group % w /\ s < w /\ group = w * g + s
  BY <1>2, Division
<1>5. c = w * q /\ q * w = w * q
  BY <1>2, <1>3
<1>6. group = w * g
  BY <1>2, <1>4
<1>7. g > 0
  BY <1>2, <1>6
<1>8. c \div group \in Nat
  BY <1>2
<1>9. QED BY <1>1, <1>2, <1>3, <1>4, <1>5, <1>6, <1>7, <1>8 DEF WordsPerRow, GroupsPerRow

\* Where the kernels look for a value is where dequantizeElement does.
LEMMA DequantizedIs ==
    ASSUME NEW l, QuantizedSound(l), NEW row \in Nat, NEW column \in Nat
    PROVE  /\ Dequantized(row, column, l)
                = [packed |-> row * WordsPerRow(l) + column \div l.perWord,
                   slot |-> column % l.perWord,
                   scales |-> row * GroupsPerRow(l) + column \div l.group]
           /\ OfWord(row, column \div l.perWord, column % l.perWord, l) = Dequantized(row, column, l)
<1>1. PICK w \in Nat, group \in Nat, words \in Nat, g \in Nat :
         /\ w = l.perWord /\ group = l.group /\ words = WordsPerRow(l)
         /\ g = l.group \div l.perWord /\ g > 0 /\ group = w * g /\ w > 0 /\ group > 0
  BY WordsAre
<1>2. PICK q \in Nat, s \in Nat : q = column \div w /\ s = column % w /\ s < w /\ column = w * q + s
  BY <1>1, Division
<1>3. PICK p \in Nat : p = row * words
  BY NaturalProduct
<1>4. PICK flat \in Nat : flat = p * w + column
  BY NaturalProduct
<1>5. flat = w * (p + q) + s
  <2>1. w * (p + q) = p * w + w * q
    OBVIOUS
  <2>2. PICK a \in Nat, b \in Nat : a = p * w /\ b = w * q
    BY NaturalProduct
  <2>3. QED BY <1>2, <1>4, <2>1, <2>2
<1>6. flat \div w = p + q /\ flat % w = s
  <2>1. PICK k \in Nat : k = p + q
    OBVIOUS
  <2>2. flat = w * k + s
    BY <1>5, <2>1
  <2>3. flat \div w = k /\ flat % w = s
    <3>1. s < w
      BY <1>2
    <3>2. QED BY <2>2, <3>1, DivisionIs
  <2>4. QED BY <2>1, <2>3
<1>7. column \div group = q \div g
  <2>1. PICK u \in Nat, v \in Nat : u = q \div g /\ v = q % g /\ v < g /\ q = g * u + v
    BY <1>1, Division
  <2>2. PICK e \in Nat : e = w * v
    BY NaturalProduct
  <2>3. e + s < group
    <3>1. v + 1 <= g
      BY <2>1
    <3>2. (v + 1) * w <= g * w
      BY <3>1, ProductGrows
    <3>3. (v + 1) * w = e + w /\ g * w = group
      BY <1>1, <2>2
    <3>4. QED BY <1>2, <3>2, <3>3
  <2>4. column = group * u + (e + s)
    <3>1. w * q = (w * g) * u + w * v
      <4>1. PICK k \in Nat : k = g * u
        BY NaturalProduct
      <4>2. q = k + v
        BY <2>1, <4>1
      <4>3. w * (k + v) = w * k + w * v
        OBVIOUS
      <4>4. w * (g * u) = (w * g) * u
        OBVIOUS
      <4>5. QED BY <4>1, <4>2, <4>3, <4>4
    <3>2. PICK a \in Nat, b \in Nat : a = w * q /\ b = group * u
      BY NaturalProduct
    <3>3. a = b + e
      BY <1>1, <2>2, <3>1, <3>2
    <3>4. QED BY <1>2, <3>2, <3>3
  <2>5. column \div group = u
    BY <2>3, <2>4, DivisionIs
  <2>6. QED BY <2>1, <2>5
<1>8. row * WordsPerRow(l) * l.perWord + column = flat
  BY <1>1, <1>3, <1>4
<1>9. Dequantized(row, column, l) = [packed |-> p + q, slot |-> s, scales |-> row * GroupsPerRow(l) + column \div l.group]
  BY <1>1, <1>6, <1>8 DEF Dequantized
<1>10. OfWord(row, q, s, l) = [packed |-> p + q, slot |-> s, scales |-> row * GroupsPerRow(l) + q \div g]
  BY <1>1, <1>3 DEF OfWord
<1>11. Dequantized(row, column, l) = OfWord(row, q, s, l)
  BY <1>1, <1>7, <1>9, <1>10
<1>12. QED BY <1>1, <1>2, <1>3, <1>9, <1>11

\* A column is a slot of a word.
LEMMA ColumnsAre ==
    ASSUME NEW l, QuantizedSound(l)
    PROVE  /\ \A word \in Below(WordsPerRow(l)), slot \in Below(l.perWord) :
                 /\ word * l.perWord + slot \in Below(l.in)
                 /\ (word * l.perWord + slot) \div l.perWord = word
                 /\ (word * l.perWord + slot) % l.perWord = slot
           /\ \A column \in Below(l.in) :
                 /\ column \in Nat
                 /\ column \div l.perWord \in Below(WordsPerRow(l))
                 /\ column % l.perWord \in Below(l.perWord)
                 /\ column = (column \div l.perWord) * l.perWord + (column % l.perWord)
<1>1. PICK c \in Nat, w \in Nat, n \in Nat : c = l.in /\ w = l.perWord /\ n = WordsPerRow(l) /\ n * w = c /\ w > 0
  BY WordsAre
<1>2. ASSUME NEW word \in Below(n), NEW slot \in Below(w)
      PROVE  word * w + slot \in Below(c) /\ (word * w + slot) \div w = word /\ (word * w + slot) % w = slot
  <2>1. word \in Nat /\ word < n /\ slot \in Nat /\ slot < w
    BY DEF Below
  <2>2. IsRow(n, w, word, slot)
    BY <2>1, RowIs
  <2>3. QED BY <1>1, <2>2 DEF IsRow
<1>3. ASSUME NEW column \in Below(c)
      PROVE  /\ column \in Nat /\ column \div w \in Below(n) /\ column % w \in Below(w)
             /\ column = (column \div w) * w + (column % w)
  <2>1. column \in Below(n * w)
    BY <1>1
  <2>2. PICK r \in Nat, i \in Nat :
           /\ r < n /\ i < w /\ column = r * w + i /\ column \in Nat
           /\ column \div w = r /\ column % w = i
    BY <2>1, AddressSplits
  <2>3. QED BY <2>2 DEF Below
<1>4. QED BY <1>1, <1>2, <1>3

\* embedLookupKernel.
LEMMA EmbedComputes ==
    ASSUME NEW l, QuantizedSound(l), NEW tokenId \in Nat
    PROVE  Computes(EmbedLookup(l, tokenId), EmbedReference(l, tokenId))
<1> DEFINE reference == EmbedReference(l, tokenId)
           stores == EmbedLookup(l, tokenId)
           W == BlocksFor(l.in, Block)
           place == [p \in Below(1) \X Below(l.in) |-> p[2]]
           Found(i) == [packed |-> tokenId * WordsPerRow(l) + i \div l.perWord,
                        slot |-> i % l.perWord,
                        scales |-> tokenId * GroupsPerRow(l) + i \div l.group]
<1>1. Block \in Nat /\ Block > 0 /\ W \in Nat /\ (W = 0 => l.in = 0) /\ l.in \in Nat
  <2>1. l.in \in Nat
    BY WordsAre
  <2>2. QED BY <2>1, LineOfBlocks
<1>2. Below(1) = {0}
  BY DEF Below
<1>3. DOMAIN reference = Below(l.in) /\ \A i \in Below(l.in) : reference[i] = Found(i)
  <2>1. \A i \in Below(l.in) : i \in Nat
    BY DEF Below
  <2>2. \A i \in Below(l.in) : Dequantized(tokenId, i, l) = Found(i)
    BY <2>1, DequantizedIs
  <2> HIDE DEF Found
  <2>3. QED BY <2>2 DEF EmbedReference
<1>4. Places(place, Below(1), l.in, reference)
  BY <1>2, <1>3 DEF Places
<1>5. DOMAIN stores = Grid(W, 1, Block)
  BY DEF EmbedLookup
<1>6. ASSUME NEW x \in Below(W), NEW y \in Below(1), NEW t \in Below(Block)
      PROVE  stores[<<x, y, t>>]
               = {Entry(reference, place[<<y, i>>]) : i \in Strided(x * Block + t, W * Block, l.in)}
  <2>1. x \in Nat /\ t \in Nat /\ y = 0
    BY <1>1, <1>2 DEF Below
  <2>2. PICK S : S = Strided(x * Block + t, W * Block, l.in)
    OBVIOUS
  <2>3. S \subseteq Below(l.in)
    <3>1. x * Block + t \in Nat
      BY <1>1, <2>1, NaturalProduct
    <3>2. QED BY <1>1, <2>2, <3>1, StridedWithin
  <2>4. <<x, y, t>> \in Grid(W, 1, Block)
    BY DEF Grid
  <2>5. stores[<<x, y, t>>] = {[at |-> i, value |-> Found(i)] : i \in S}
    BY <2>2, <2>4 DEF EmbedLookup
  <2> HIDE DEF Found
  <2>6. \A i \in S : Entry(reference, place[<<y, i>>]) = [at |-> i, value |-> Found(i)]
    BY <1>3, <2>3 DEF Entry
  <2> HIDE DEF stores, reference, place
  <2>7. QED BY <2>2, <2>5, <2>6
<1>7. IsFiniteSet(DOMAIN reference)
  BY <1>1, <1>3, BelowIsFinite
<1> HIDE DEF stores, reference, place, W
<1>8. StridesLines(stores, reference, place, W, 1, Block, l.in)
  BY <1>5, <1>6 DEF StridesLines
<1>9. Computes(stores, reference)
  BY <1>1, <1>4, <1>7, <1>8, LinesCompute
<1>10. QED BY <1>9 DEF stores, reference

-----------------------------------------------------------------------------
(* Rows of heads.                                                          *)

\* The address of an element of a head of a token.
HeadAt(token, head, i, heads, dim) == (token * heads + head) * dim + i

\* What an address says of itself.
IsHead(a, token, head, i, tokens, heads, dim) ==
    /\ a \in Nat /\ a \in Below(tokens * heads * dim)
    /\ a \div dim = token * heads + head /\ a % dim = i
    /\ (a \div dim) % heads = head
    /\ a \div (heads * dim) = token
    /\ a - (a % dim) = (token * heads + head) * dim

\* An address says whose head and which element it is of.
LEMMA HeadIs ==
    ASSUME NEW tokens \in Nat, NEW heads \in Nat, NEW dim \in Nat,
           NEW token \in Below(tokens), NEW head \in Below(heads), NEW i \in Below(dim)
    PROVE  IsHead(HeadAt(token, head, i, heads, dim), token, head, i, tokens, heads, dim)
<1>1. token \in Nat /\ token < tokens /\ head \in Nat /\ head < heads /\ i \in Nat /\ i < dim
  BY DEF Below
<1>2. PICK n \in Nat, r \in Nat : n = tokens * heads /\ r = token * heads + head
  <2>1. token * heads \in Nat
    BY <1>1, NaturalProduct
  <2>2. QED BY <1>1, <2>1, NaturalProduct
<1>3. r < n /\ r % heads = head
  <2>1. IsRow(tokens, heads, token, head)
    BY <1>1, RowIs
  <2>2. QED BY <1>2, <2>1 DEF IsRow, Below
<1>4. PICK a : a = r * dim + i
  OBVIOUS
<1>5. a \in Below(n * dim) /\ a \div dim = r /\ a % dim = i
  <2>1. IsRow(n, dim, r, i)
    BY <1>1, <1>3, RowIs
  <2>2. QED BY <1>4, <2>1 DEF IsRow
<1>6. a \in Nat /\ a - (a % dim) = r * dim
  <2>1. PICK m \in Nat : m = r * dim
    BY NaturalProduct
  <2>2. QED BY <1>1, <1>4, <1>5, <2>1
<1>7. a \div (heads * dim) = token
  <2>1. PICK h \in Nat, b \in Nat : h = heads * dim /\ b = head * dim + i /\ b < h
    <3>1. IsRow(heads, dim, head, i)
      BY <1>1, RowIs
    <3>2. heads * dim \in Nat
      BY NaturalProduct
    <3>3. QED BY <3>1, <3>2 DEF IsRow, Below
  <2>2. a = h * token + b
    <3>1. (token * heads + head) * dim = (token * heads) * dim + head * dim
      BY <1>1
    <3>2. (token * heads) * dim = (heads * dim) * token
      BY <1>1
    <3>3. PICK k \in Nat, m \in Nat : k = h * token /\ m = head * dim
      BY <1>1, NaturalProduct
    <3>4. r * dim = k + m
      BY <1>2, <2>1, <3>1, <3>2, <3>3
    <3>5. QED BY <1>1, <1>4, <2>1, <3>3, <3>4
  <2>3. a \div h = token
    BY <1>1, <2>1, <2>2, DivisionIs
  <2>4. QED BY <2>1, <2>3
<1>8. HeadAt(token, head, i, heads, dim) = a
  BY <1>2, <1>4 DEF HeadAt
<1>9. QED BY <1>2, <1>3, <1>5, <1>6, <1>7, <1>8 DEF IsHead

\* Every address is of one.
LEMMA HeadsAre ==
    ASSUME NEW tokens \in Nat, NEW heads \in Nat, NEW dim \in Nat, NEW a \in Below(tokens * heads * dim)
    PROVE  \E token \in Below(tokens), head \in Below(heads), i \in Below(dim) :
              a = HeadAt(token, head, i, heads, dim)
<1>1. PICK n \in Nat : n = tokens * heads
  BY NaturalProduct
<1>2. a \in Below(n * dim)
  BY <1>1
<1>3. PICK r \in Nat, i \in Nat :
         /\ r < n /\ i < dim /\ a = r * dim + i /\ a \in Nat /\ dim > 0
         /\ a \div dim = r /\ a % dim = i
  BY <1>2, AddressSplits
<1>4. r \in Below(tokens * heads)
  BY <1>1, <1>3 DEF Below
<1>5. PICK token \in Nat, head \in Nat :
         /\ token < tokens /\ head < heads /\ r = token * heads + head /\ r \in Nat /\ heads > 0
         /\ r \div heads = token /\ r % heads = head
  BY <1>4, AddressSplits
<1>6. token \in Below(tokens) /\ head \in Below(heads) /\ i \in Below(dim)
  BY <1>3, <1>5 DEF Below
<1>7. QED BY <1>3, <1>5, <1>6 DEF HeadAt

\* A block for each head of each token.
HeadPlaces(place, reference, tokens, heads, dim) ==
    /\ DOMAIN reference = Below(tokens * heads * dim)
    /\ \A x \in Below(heads), y \in Below(tokens), i \in Below(dim) :
          place[<<<<x, y>>, i>>] = HeadAt(y, x, i, heads, dim)

\* Every address of a result is an element of one head of one token.
LEMMA HeadsArePlaces ==
    ASSUME NEW tokens \in Nat, NEW heads \in Nat, NEW dim \in Nat, NEW reference, NEW place,
           HeadPlaces(place, reference, tokens, heads, dim)
    PROVE  Places(place, Below(heads) \X Below(tokens), dim, reference) /\ IsFiniteSet(DOMAIN reference)
<1> DEFINE rows == Below(heads) \X Below(tokens)
<1>1. ASSUME NEW r \in rows, NEW i \in Below(dim)
      PROVE  IsHead(place[<<r, i>>], r[2], r[1], i, tokens, heads, dim)
  <2>1. PICK x \in Below(heads), y \in Below(tokens) : r = <<x, y>>
    OBVIOUS
  <2>2. place[<<<<x, y>>, i>>] = HeadAt(y, x, i, heads, dim)
    BY DEF HeadPlaces
  <2>3. IsHead(HeadAt(y, x, i, heads, dim), y, x, i, tokens, heads, dim)
    BY HeadIs
  <2>4. QED BY <2>1, <2>2, <2>3
<1>2. ASSUME NEW r \in rows, NEW i \in Below(dim) PROVE place[<<r, i>>] \in DOMAIN reference
  BY <1>1 DEF IsHead, HeadPlaces
<1>3. ASSUME NEW a \in DOMAIN reference PROVE \E r \in rows, i \in Below(dim) : a = place[<<r, i>>]
  <2>1. a \in Below(tokens * heads * dim)
    BY DEF HeadPlaces
  <2>2. PICK y \in Below(tokens), x \in Below(heads), i \in Below(dim) : a = HeadAt(y, x, i, heads, dim)
    BY <2>1, HeadsAre
  <2>3. PICK r \in rows : r = <<x, y>>
    OBVIOUS
  <2>4. a = place[<<r, i>>]
    BY <2>2, <2>3 DEF HeadPlaces
  <2>5. QED BY <2>4
<1>4. ASSUME NEW r \in rows, NEW s \in rows, NEW i \in Below(dim), NEW j \in Below(dim),
             place[<<r, i>>] = place[<<s, j>>]
      PROVE  r = s /\ i = j
  <2>1. PICK a : a = place[<<r, i>>] /\ a = place[<<s, j>>]
    BY <1>4
  <2>2. IsHead(a, r[2], r[1], i, tokens, heads, dim) /\ IsHead(a, s[2], s[1], j, tokens, heads, dim)
    BY <1>1, <2>1
  <2>3. i = j /\ r[1] = s[1] /\ r[2] = s[2]
    BY <2>2 DEF IsHead
  <2>4. QED BY <2>3
<1>5. IsFiniteSet(DOMAIN reference)
  <2>1. PICK n \in Nat : n = tokens * heads
    BY NaturalProduct
  <2>2. n * dim \in Nat
    BY NaturalProduct
  <2>3. QED BY <2>1, <2>2, BelowIsFinite DEF HeadPlaces
<1>6. QED BY <1>2, <1>3, <1>4, <1>5 DEF Places

-----------------------------------------------------------------------------
(* Normalisation.                                                          *)

\* The sum of the squares of a row, as a block makes it.
SquaresOf(row, count) ==
    [t \in Threads |-> SetToBag({row * count + i : i \in Strided(t, Block, count)})]
RmsValue(row, i, count) ==
    [input |-> row * count + i, weight |-> i, squares |-> BlockReduceSum(SquaresOf(row, count))]

\* The squares of a row, strided over.
LEMMA SquaresAre ==
    ASSUME NEW row \in Nat, NEW count \in Nat
    PROVE  \E F : /\ \A i, j \in Below(count) : F[i] = F[j] => i = j
                  /\ {F[i] : i \in Below(count)} = {row * count + i : i \in Below(count)}
                  /\ SquaresOf(row, count) = StrideShares(F, count)
<1> DEFINE F == [i \in Below(count) |-> row * count + i]
<1>1. \A i, j \in Below(count) : F[i] = F[j] => i = j
  <2>1. PICK m \in Nat : m = row * count
    BY NaturalProduct
  <2>2. \A i \in Below(count) : i \in Nat /\ F[i] = m + i
    BY <2>1 DEF Below
  <2> HIDE DEF F
  <2>3. QED BY <2>2
<1>2. ASSUME NEW u \in Threads
      PROVE  {row * count + i : i \in Strided(u, Block, count)} = {F[i] : i \in Strided(u, Block, count)}
  <2>1. u \in Nat
    BY ThreadsAreLanes DEF Threads, Below
  <2>2. Strided(u, Block, count) \subseteq Below(count)
    BY <2>1, StridedWithin
  <2>3. QED BY <2>2
<1>3. {F[i] : i \in Below(count)} = {row * count + i : i \in Below(count)}
  OBVIOUS
<1> HIDE DEF F
<1>4. SquaresOf(row, count) = StrideShares(F, count)
  BY <1>2 DEF SquaresOf, StrideShares
<1>5. QED BY <1>1, <1>3, <1>4

\* A block has them all once, and so has a group.
LEMMA SquaresSum ==
    ASSUME NEW row \in Nat, NEW count \in Nat
    PROVE  /\ BlockReduceSum(SquaresOf(row, count)) = SetToBag({row * count + i : i \in Below(count)})
           /\ \A lanes \in Nat : lanes > 0 /\ Block % lanes = 0 =>
                D3D12!groupSum(SquaresOf(row, count), lanes) = SetToBag({row * count + i : i \in Below(count)})
<1>1. PICK F : /\ \A i, j \in Below(count) : F[i] = F[j] => i = j
               /\ {F[i] : i \in Below(count)} = {row * count + i : i \in Below(count)}
               /\ SquaresOf(row, count) = StrideShares(F, count)
  BY SquaresAre
<1>2. BlockReduceSum(StrideShares(F, count)) = SetToBag({F[i] : i \in Below(count)})
  BY <1>1, StridedSum
<1>3. ASSUME NEW lanes \in Nat, lanes > 0, Block % lanes = 0
      PROVE  D3D12!groupSum(StrideShares(F, count), lanes) = SetToBag({F[i] : i \in Below(count)})
  BY <1>1, <1>3, StridedGroupSum
<1>4. QED BY <1>1, <1>2, <1>3

\* rmsNormKernel, by what its threads store.
LEMMA RmsNormStores ==
    ASSUME NEW rows, NEW count, NEW thread \in Grid(rows, 1, Block)
    PROVE  RmsNorm(rows, count)[thread]
             = {[at |-> thread[1] * count + i, value |-> RmsValue(thread[1], i, count)] :
                   i \in Strided(thread[3], Block, count)}
<1> DEFINE squares == [row \in Below(rows) |-> BlockReduceSum(SquaresOf(row, count))]
<1>1. RmsNorm(rows, count)
        = [th \in Grid(rows, 1, Block) |->
              {[at |-> th[1] * count + i,
                value |-> [input |-> th[1] * count + i, weight |-> i, squares |-> squares[th[1]]]] :
                   i \in Strided(th[3], Block, count)}]
  BY DEF RmsNorm, SquaresOf
<1>2. thread[1] \in Below(rows)
  BY DEF Grid
<1>3. squares[thread[1]] = BlockReduceSum(SquaresOf(thread[1], count))
  BY <1>2
<1> HIDE DEF squares
<1>4. QED BY <1>1, <1>3 DEF RmsValue

\* rmsNormKernel: every row is divided by the sum of its own squares, however
\* many strides the block makes over it.
THEOREM RmsNormComputes ==
    ASSUME NEW rows \in Nat, NEW count \in Nat
    PROVE  Computes(RmsNorm(rows, count), RmsNormReference(rows, count))
<1> DEFINE stores == RmsNorm(rows, count)
           reference == RmsNormReference(rows, count)
           place == [p \in (Below(rows) \X Below(1)) \X Below(count) |->
                        HeadAt(p[1][2], p[1][1], p[2], rows, count)]
<1>1. Block \in Nat /\ Block > 0 /\ Below(1) = {0}
  BY ThreadsAreLanes DEF Below
<1>2. DOMAIN reference = Below(1 * rows * count)
  BY DEF RmsNormReference
<1>3. Places(place, Below(rows) \X Below(1), count, reference) /\ IsFiniteSet(DOMAIN reference)
  <2>1. \A x \in Below(rows), y \in Below(1), i \in Below(count) :
           place[<<<<x, y>>, i>>] = HeadAt(y, x, i, rows, count)
    OBVIOUS
  <2> HIDE DEF place, reference
  <2>2. HeadPlaces(place, reference, 1, rows, count)
    BY <1>2, <2>1 DEF HeadPlaces
  <2>3. QED BY <2>2, HeadsArePlaces
<1>4. DOMAIN stores = Grid(rows, 1, Block)
  BY DEF RmsNorm
<1>5. ASSUME NEW x \in Below(rows), NEW y \in Below(1), NEW t \in Below(Block)
      PROVE  stores[<<x, y, t>>] = {Entry(reference, place[<<<<x, y>>, i>>]) : i \in Strided(t, Block, count)}
  <2>1. x \in Nat /\ t \in Nat /\ y = 0 /\ x < rows
    BY <1>1 DEF Below
  <2>2. PICK S : S = Strided(t, Block, count) /\ S \subseteq Below(count)
    BY <2>1, StridedWithin
  <2>3. stores[<<x, y, t>>] = {[at |-> x * count + i, value |-> RmsValue(x, i, count)] : i \in S}
    <3>1. <<x, y, t>> \in Grid(rows, 1, Block)
      BY DEF Grid
    <3>2. QED BY <2>2, <3>1, RmsNormStores
  <2>4. BlockReduceSum(SquaresOf(x, count)) = SetToBag({x * count + i : i \in Below(count)})
    BY <2>1, SquaresSum
  <2>5. ASSUME NEW i \in S
        PROVE  Entry(reference, place[<<<<x, y>>, i>>]) = [at |-> x * count + i, value |-> RmsValue(x, i, count)]
    <3>1. i \in Below(count) /\ i \in Nat /\ i < count
      BY <2>2 DEF Below
    <3>2. PICK a \in Below(rows * count) : a = x * count + i /\ a \div count = x /\ a % count = i
      <4>1. IsRow(rows, count, x, i)
        BY <2>1, <3>1, RowIs
      <4>2. QED BY <4>1 DEF IsRow
    <3>3. place[<<<<x, y>>, i>>] = a
      <4>1. place[<<<<x, y>>, i>>] = (0 * rows + x) * count + i
        BY <2>1, <3>1 DEF HeadAt
      <4>2. 0 * rows + x = x
        BY <2>1
      <4>3. QED BY <3>2, <4>1, <4>2
    <3>4. reference[a] = [input |-> a, weight |-> a % count,
                          squares |-> SetToBag({(a \div count) * count + k : k \in Below(count)})]
      BY DEF RmsNormReference
    <3>5. reference[a] = RmsValue(x, i, count)
      BY <2>4, <3>2, <3>4 DEF RmsValue
    <3> HIDE DEF reference, place
    <3>6. QED BY <3>2, <3>3, <3>5 DEF Entry
  <2> HIDE DEF stores, reference, place
  <2>6. {Entry(reference, place[<<<<x, y>>, i>>]) : i \in S}
          = {[at |-> x * count + i, value |-> RmsValue(x, i, count)] : i \in S}
    BY <2>5
  <2>7. QED BY <2>2, <2>3, <2>6
<1> HIDE DEF stores, reference, place
<1>6. StridesRows(stores, reference, place, rows, 1, Block, count)
  BY <1>4, <1>5 DEF StridesRows
<1>7. Computes(stores, reference)
  BY <1>1, <1>3, <1>6, RowsCompute
<1>8. QED BY <1>7 DEF stores, reference

-----------------------------------------------------------------------------
(* Attention.                                                              *)

\* The types of a request of the attention.
AttentionSound(s) ==
    /\ {s.heads, s.kvHeads, s.tokens, s.headDim, s.capacity, s.position, s.window} \subseteq Nat
    /\ s.circular \in BOOLEAN

\* A set of numbers with a greatest one.
LEMMA GreatestIs ==
    ASSUME NEW S \in SUBSET Int, NEW n \in S, \A i \in S : i <= n
    PROVE  Max(S) = n
<1>1. \A x \in S : x \in Int
  OBVIOUS
<1>2. \A x \in S : (\A y \in S : x >= y) => x = n
  BY <1>1
<1>3. \A y \in S : n >= y
  BY <1>1
<1>4. QED BY <1>2, <1>3 DEF Max

\* The first position both look at.
LEMMA SameFirst ==
    ASSUME NEW s, AttentionSound(s), NEW length \in Nat
    PROVE  FirstVisible(length, s) = ReferenceFirstVisible(length, s)
<1> DEFINE inWindow == IF s.window > 0 /\ length > s.window THEN length - s.window ELSE 0
           oldest == IF s.circular /\ length > s.capacity THEN length - s.capacity ELSE 0
           mine == {inWindow, oldest}
           its == {0} \cup (IF s.window > 0 THEN {length - s.window} ELSE {})
                      \cup (IF s.circular THEN {length - s.capacity} ELSE {})
<1>1. PICK w \in Nat, c \in Nat : w = s.window /\ c = s.capacity
  BY DEF AttentionSound
<1>2. PICK m \in Nat : m \in mine /\ \A y \in mine : y <= m
  <2>1. inWindow \in Nat /\ oldest \in Nat
    BY <1>1
  <2> HIDE DEF inWindow, oldest
  <2>2. CASE inWindow <= oldest
    BY <2>1, <2>2
  <2>3. CASE oldest <= inWindow
    BY <2>1, <2>3
  <2>4. QED BY <2>1, <2>2, <2>3
<1>3. m \in its /\ \A y \in its : y <= m /\ y \in Int
  <2>1. m = inWindow \/ m = oldest
    BY <1>2
  <2>2. inWindow \in its /\ oldest \in its
    BY <1>1 DEF AttentionSound
  <2>3. ASSUME NEW y \in its PROVE y <= m /\ y \in Int
    <3>1. inWindow <= m /\ oldest <= m
      BY <1>2
    <3>2. CASE y = 0
      BY <3>2
    <3>3. CASE s.window > 0 /\ y = length - s.window
      BY <1>1, <3>1, <3>3
    <3>4. CASE s.circular /\ y = length - s.capacity
      BY <1>1, <3>1, <3>4
    <3>5. QED BY <2>3, <3>2, <3>3, <3>4
  <2> HIDE DEF its, inWindow, oldest
  <2>4. QED BY <2>1, <2>2, <2>3
<1>4. \A y \in mine : y \in Int
  BY <1>1
<1> HIDE DEF mine, its
<1>5. Max(mine) = m
  BY <1>2, <1>4, GreatestIs
<1>6. Max(its) = m
  BY <1>3, GreatestIs
<1>7. FirstVisible(length, s) = Max(mine)
  BY DEF FirstVisible, mine
<1>8. ReferenceFirstVisible(length, s) = Max(its)
  BY DEF ReferenceFirstVisible, its
<1>9. QED BY <1>5, <1>6, <1>7, <1>8

\* Where a head's query is, and where its keys and values are.
QueryAt(head, token, s) == (token * s.heads + head) * s.headDim
KvRow(head, p, s) ==
    ((head \div (s.heads \div s.kvHeads)) * s.capacity + CacheSlot(p, s)) * s.headDim

\* What attentionKernel makes of a position.
Dots(head, token, p, s) ==
    [t \in Threads |->
        SetToBag({[query |-> QueryAt(head, token, s) + i, key |-> KvRow(head, p, s) + i] :
                    i \in Strided(t, Block, s.headDim)})]
Seen(head, token, i, p, s) ==
    [query |-> BlockReduceSum(Dots(head, token, p, s)), value |-> KvRow(head, p, s) + i]
AttentionValue(head, token, i, length, s) ==
    {Seen(head, token, i, p, s) : p \in FirstVisible(length, s) .. length - 1}
AttentionStore(head, token, i, s) ==
    [at |-> QueryAt(head, token, s) + i,
     value |-> AttentionValue(head, token, i, s.position + token + 1, s)]

\* attentionKernel, by what its threads store.
LEMMA AttentionStores ==
    ASSUME NEW s
    PROVE  Attention(s) =
             [thread \in Grid(s.heads, s.tokens, Block) |->
                {AttentionStore(thread[1], thread[2], i, s) : i \in Strided(thread[3], Block, s.headDim)}]
  BY Zenon DEF Attention, AttentionStore, AttentionValue, Seen, Dots, KvRow, QueryAt

\* What decodeAttention does.
Dotted(query, key, dim) == SetToBag({[query |-> query + d, key |-> key + d] : d \in Below(dim)})
Looked(query, key, i, dim) == [query |-> Dotted(query, key, dim), value |-> key + i]
AttentionOf(a, s) ==
    {Looked(a - (a % s.headDim), KvRow((a \div s.headDim) % s.heads, p, s), a % s.headDim, s.headDim) :
        p \in ReferenceFirstVisible(s.position + a \div (s.heads * s.headDim) + 1, s)
                .. s.position + a \div (s.heads * s.headDim)}

\* The reference, by the keys a query looks at.
LEMMA AttentionReferenceIs ==
    ASSUME NEW s
    PROVE  AttentionReference(s) = [a \in Below(s.tokens * s.heads * s.headDim) |-> AttentionOf(a, s)]
  BY DEF AttentionReference, AttentionOf, Looked, Dotted, KvRow, SlotFor, CacheSlot

\* The product of a query with a key, strided over by a block or a group.
LEMMA DotIs ==
    ASSUME NEW s, AttentionSound(s), NEW head \in Nat, NEW token \in Nat, NEW p
    PROVE  /\ BlockReduceSum(Dots(head, token, p, s))
                = Dotted(QueryAt(head, token, s), KvRow(head, p, s), s.headDim)
           /\ \A lanes \in Nat : lanes > 0 /\ Block % lanes = 0 =>
                D3D12!groupSum(Dots(head, token, p, s), lanes)
                  = Dotted(QueryAt(head, token, s), KvRow(head, p, s), s.headDim)
<1>0. PICK key : key = KvRow(head, p, s)
  OBVIOUS
<1>1. PICK query \in Nat, dim \in Nat : query = QueryAt(head, token, s) /\ dim = s.headDim
  <2>1. s.heads \in Nat /\ s.headDim \in Nat
    BY DEF AttentionSound
  <2>2. PICK r \in Nat : r = token * s.heads + head
    <3>1. token * s.heads \in Nat
      BY <2>1, NaturalProduct
    <3>2. QED BY <3>1
  <2>3. r * s.headDim \in Nat
    BY <2>1, NaturalProduct
  <2>4. QED BY <2>1, <2>2, <2>3 DEF QueryAt
<1> DEFINE F == [i \in Below(dim) |-> [query |-> query + i, key |-> key + i]]
<1>2. \A i, j \in Below(dim) : F[i] = F[j] => i = j
  <2>1. \A i \in Below(dim) : i \in Nat /\ F[i].query = query + i
    BY DEF Below
  <2> HIDE DEF F
  <2>2. QED BY <2>1
<1>3. Dots(head, token, p, s) = StrideShares(F, dim)
  <2>1. ASSUME NEW t \in Threads
        PROVE  {[query |-> query + i, key |-> key + i] : i \in Strided(t, Block, dim)}
                 = {F[i] : i \in Strided(t, Block, dim)}
    <3>1. t \in Nat
      BY ThreadsAreLanes DEF Threads, Below
    <3>2. Strided(t, Block, dim) \subseteq Below(dim)
      BY <3>1, StridedWithin
    <3>3. QED BY <3>2
  <2> HIDE DEF F
  <2>2. QED BY <1>0, <1>1, <2>1 DEF Dots, StrideShares
<1>4. {F[i] : i \in Below(dim)} = {[query |-> query + d, key |-> key + d] : d \in Below(dim)}
  OBVIOUS
<1> HIDE DEF F
<1>5. BlockReduceSum(StrideShares(F, dim)) = SetToBag({F[i] : i \in Below(dim)})
  BY <1>2, StridedSum
<1>6. ASSUME NEW lanes \in Nat, lanes > 0, Block % lanes = 0
      PROVE  D3D12!groupSum(StrideShares(F, dim), lanes) = SetToBag({F[i] : i \in Below(dim)})
  BY <1>2, <1>6, StridedGroupSum
<1>7. SetToBag({F[i] : i \in Below(dim)}) = Dotted(query, key, dim)
  BY <1>4 DEF Dotted
<1>8. QED BY <1>0, <1>1, <1>3, <1>5, <1>6, <1>7

\* attentionKernel: each query looks at the keys and values the reference lets
\* it see, in windows and rings of any size, and each element is stored once.
THEOREM AttentionComputes ==
    ASSUME NEW s, AttentionSound(s)
    PROVE  Computes(Attention(s), AttentionReference(s))
<1>1. PICK stores, reference : stores = Attention(s) /\ reference = AttentionReference(s)
  OBVIOUS
<1>2. PICK heads \in Nat, tokens \in Nat, dim \in Nat, position \in Nat :
         heads = s.heads /\ tokens = s.tokens /\ dim = s.headDim /\ position = s.position
  BY DEF AttentionSound
<1>3. Block \in Nat /\ Block > 0
  BY ThreadsAreLanes
<1>4. DOMAIN reference = Below(tokens * heads * dim)
  BY <1>1, <1>2, AttentionReferenceIs
<1> DEFINE place == [q \in (Below(heads) \X Below(tokens)) \X Below(dim) |->
                        HeadAt(q[1][2], q[1][1], q[2], heads, dim)]
<1>5. Places(place, Below(heads) \X Below(tokens), dim, reference) /\ IsFiniteSet(DOMAIN reference)
  <2>1. \A x \in Below(heads), y \in Below(tokens), i \in Below(dim) :
           place[<<<<x, y>>, i>>] = HeadAt(y, x, i, heads, dim)
    OBVIOUS
  <2> HIDE DEF place
  <2>2. HeadPlaces(place, reference, tokens, heads, dim)
    BY <1>4, <2>1 DEF HeadPlaces
  <2>3. QED BY <2>2, HeadsArePlaces
<1>6. DOMAIN stores = Grid(heads, tokens, Block)
  BY <1>1, <1>2, AttentionStores
<1>7. ASSUME NEW x \in Below(heads), NEW y \in Below(tokens), NEW t \in Below(Block)
      PROVE  stores[<<x, y, t>>] = {Entry(reference, place[<<<<x, y>>, i>>]) : i \in Strided(t, Block, dim)}
  <2>1. x \in Nat /\ t \in Nat /\ y \in Nat
    BY <1>3 DEF Below
  <2>2. PICK S : S = Strided(t, Block, dim) /\ S \subseteq Below(dim)
    BY <2>1, StridedWithin
  <2>3. stores[<<x, y, t>>] = {AttentionStore(x, y, i, s) : i \in S}
    <3>1. <<x, y, t>> \in Grid(s.heads, s.tokens, Block)
      BY <1>2 DEF Grid
    <3>2. QED BY <1>1, <1>2, <2>2, <3>1, AttentionStores
  <2>4. ASSUME NEW i \in S PROVE Entry(reference, place[<<<<x, y>>, i>>]) = AttentionStore(x, y, i, s)
    <3>1. i \in Below(dim)
      BY <2>2
    <3>2. PICK a : a = HeadAt(y, x, i, heads, dim)
      OBVIOUS
    <3>3. IsHead(a, y, x, i, tokens, heads, dim)
      BY <3>1, <3>2, HeadIs
    <3>4. a = QueryAt(x, y, s) + i /\ a - (a % dim) = QueryAt(x, y, s)
      BY <1>2, <3>2, <3>3 DEF IsHead, HeadAt, QueryAt
    <3>5. a \div (heads * dim) = y /\ (a \div dim) % heads = x /\ a % dim = i /\ a \in Below(tokens * heads * dim)
      BY <3>3 DEF IsHead
    <3>6. AttentionOf(a, s) = AttentionValue(x, y, i, position + y + 1, s)
      <4> DEFINE span == ReferenceFirstVisible(position + y + 1, s) .. position + y
      <4>1. AttentionOf(a, s) = {Looked(QueryAt(x, y, s), KvRow(x, p, s), i, dim) : p \in span}
        BY <1>2, <3>4, <3>5 DEF AttentionOf
      <4>0. PICK length \in Nat : length = position + y + 1
        BY <2>1
      <4>2. length = position + y + 1 /\ span = FirstVisible(length, s) .. length - 1
        <5>1. length - 1 = position + y
          BY <2>1, <4>0
        <5>2. FirstVisible(length, s) = ReferenceFirstVisible(length, s)
          BY SameFirst
        <5>3. QED BY <4>0, <5>1, <5>2
      <4> HIDE DEF span
      <4>3. AttentionValue(x, y, i, length, s) = {Seen(x, y, i, p, s) : p \in span}
        BY <4>2 DEF AttentionValue
      <4>4. ASSUME NEW p \in span
            PROVE  Looked(QueryAt(x, y, s), KvRow(x, p, s), i, dim) = Seen(x, y, i, p, s)
        <5>1. BlockReduceSum(Dots(x, y, p, s)) = Dotted(QueryAt(x, y, s), KvRow(x, p, s), dim)
          BY <1>2, <2>1, DotIs
        <5>2. QED BY <5>1 DEF Looked, Seen
      <4>5. QED BY <4>1, <4>2, <4>3, <4>4
    <3>7. reference[a] = AttentionOf(a, s)
      BY <1>1, <1>2, <3>5, AttentionReferenceIs
    <3>8. place[<<<<x, y>>, i>>] = a
      BY <3>1, <3>2
    <3> HIDE DEF place
    <3>9. QED BY <1>2, <3>4, <3>6, <3>7, <3>8 DEF Entry, AttentionStore
  <2> HIDE DEF place
  <2>5. {Entry(reference, place[<<<<x, y>>, i>>]) : i \in S} = {AttentionStore(x, y, i, s) : i \in S}
    BY <2>4
  <2>6. QED BY <2>2, <2>3, <2>5
<1> HIDE DEF place
<1>8. StridesRows(stores, reference, place, heads, tokens, Block, dim)
  BY <1>6, <1>7 DEF StridesRows
<1>9. Computes(stores, reference)
  BY <1>3, <1>5, <1>8, RowsCompute
<1>10. QED BY <1>1, <1>9

\* The less of two.
LEMMA MinOfTwo ==
    ASSUME NEW a \in Int, NEW b \in Int
    PROVE  Min({a, b}) = IF a <= b THEN a ELSE b
<1>1. PICK m : m = (IF a <= b THEN a ELSE b) /\ m \in {a, b}
  OBVIOUS
<1>2. \A x \in {a, b} : (\A y \in {a, b} : x <= y) <=> x = m
  BY <1>1
<1>3. QED BY <1>1, <1>2 DEF Min

-----------------------------------------------------------------------------
(* The key and value cache.                                                *)

\* A batch a cache has room for.
KvSound(s) ==
    /\ {s.kvHeads, s.tokens, s.headDim, s.capacity, s.position} \subseteq Nat
    /\ s.circular \in BOOLEAN
    /\ s.circular => s.tokens <= s.capacity
    /\ ~ s.circular => s.position + s.tokens <= s.capacity

\* Positions less than a round apart have different remainders.
LEMMA RoundsApart ==
    ASSUME NEW c \in Nat, c > 0, NEW p \in Nat, NEW q \in Nat, p <= q, q - p < c, p % c = q % c
    PROVE  p = q
<1>1. PICK m \in Nat, r \in Nat : m = p \div c /\ r = p % c /\ r < c /\ p = c * m + r
  BY Division
<1>2. PICK n \in Nat, t \in Nat : n = q \div c /\ t = q % c /\ t < c /\ q = c * n + t
  BY Division
<1>3. PICK a \in Nat, b \in Nat : a = c * m /\ b = c * n
  BY NaturalProduct
<1>4. r = t /\ p = a + r /\ q = b + r
  BY <1>1, <1>2, <1>3
<1>5. CASE m < n
  <2>1. (m + 1) * c <= n * c
    BY <1>5, ProductGrows
  <2>2. (m + 1) * c = c * m + c /\ n * c = c * n
    OBVIOUS
  <2>3. a + c <= b
    BY <1>3, <2>1, <2>2
  <2>4. QED BY <1>4, <2>3
<1>6. CASE n <= m
  <2>1. n * c <= m * c
    BY <1>6, ProductGrows
  <2>2. n * c = c * n /\ m * c = c * m
    OBVIOUS
  <2>3. b <= a
    BY <1>3, <2>1, <2>2
  <2>4. QED BY <1>4, <2>3
<1>7. QED BY <1>5, <1>6

\* The tokens of a batch have slots of their own.
LEMMA SlotsAreApart ==
    ASSUME NEW s, KvSound(s)
    PROVE  /\ \A y \in Below(s.tokens) : CacheSlot(s.position + y, s) \in Below(s.capacity)
           /\ \A y, z \in Below(s.tokens) :
                 CacheSlot(s.position + y, s) = CacheSlot(s.position + z, s) => y = z
<1>1. PICK position \in Nat, tokens \in Nat, c \in Nat :
         position = s.position /\ tokens = s.tokens /\ c = s.capacity
  BY DEF KvSound
<1>2. CASE s.circular
  <2>1. tokens <= c
    BY <1>1, <1>2 DEF KvSound
  <2>2. \A p : CacheSlot(p, s) = p % c
    BY <1>1, <1>2 DEF CacheSlot
  <2>3. ASSUME NEW y \in Below(tokens) PROVE (position + y) % c \in Below(c)
    <3>1. y \in Nat /\ c > 0
      BY <2>1 DEF Below
    <3>2. PICK p \in Nat : p = position + y
      BY <3>1
    <3>3. p % c \in Nat /\ p % c < c
      BY <3>1
    <3>4. QED BY <3>2, <3>3 DEF Below
  <2>4. ASSUME NEW y \in Below(tokens), NEW z \in Below(tokens), (position + y) % c = (position + z) % c
        PROVE  y = z
    <3>1. y \in Nat /\ z \in Nat /\ y < c /\ z < c /\ c > 0
      BY <2>1 DEF Below
    <3>2. PICK p \in Nat, q \in Nat : p = position + y /\ q = position + z
      BY <3>1
    <3>3. p % c = q % c
      BY <2>4, <3>2
    <3>4. CASE p <= q
      <4>1. q - p < c
        BY <3>1, <3>2
      <4>2. p = q
        BY <3>1, <3>3, <3>4, <4>1, RoundsApart
      <4>3. QED BY <3>1, <3>2, <4>2
    <3>5. CASE q <= p
      <4>1. p - q < c
        BY <3>1, <3>2
      <4>2. p = q
        BY <3>1, <3>3, <3>5, <4>1, RoundsApart
      <4>3. QED BY <3>1, <3>2, <4>2
    <3>6. QED BY <3>4, <3>5
  <2>5. QED BY <1>1, <2>2, <2>3, <2>4
<1>3. CASE ~ s.circular
  <2>1. position + tokens <= c
    BY <1>1, <1>3 DEF KvSound
  <2>2. \A p : CacheSlot(p, s) = p
    BY <1>3 DEF CacheSlot
  <2>3. \A y \in Below(tokens) : y \in Nat /\ position + y \in Below(c)
    BY <2>1 DEF Below
  <2>4. \A y, z \in Below(tokens) : position + y = position + z => y = z
    BY <2>3
  <2>5. QED BY <1>1, <2>2, <2>3, <2>4
<1>4. QED BY <1>2, <1>3

\* Where the cache has an element of a head of a token, and where it is from.
KvAt(head, token, i, s) == HeadAt(head, CacheSlot(s.position + token, s), i, s.capacity, s.headDim)
KvFrom(head, token, i, s) == HeadAt(token, head, i, s.kvHeads, s.headDim)
KvWhere(from, s) ==
    KvAt((from \div s.headDim) % s.kvHeads, from \div (s.kvHeads * s.headDim), from % s.headDim, s)

\* The places of a batch in the cache.
LEMMA KvPlaces ==
    ASSUME NEW s, NEW a
    PROVE  a \in DOMAIN KvReference(s) <=>
             \E head \in Below(s.kvHeads), token \in Below(s.tokens), d \in Below(s.headDim) :
                a = KvAt(head, token, d, s)
  BY DEF KvReference, KvAt, HeadAt, SlotFor, CacheSlot

\* What is found for a place, where one element belongs there.
LEMMA KvReferenceIs ==
    ASSUME NEW s, NEW a \in DOMAIN KvReference(s),
           NEW here \in Below(s.tokens * s.kvHeads * s.headDim), a = KvWhere(here, s),
           \A from \in Below(s.tokens * s.kvHeads * s.headDim) : a = KvWhere(from, s) => from = here
    PROVE  KvReference(s)[a] = here
  BY DEF KvReference, KvAt, KvWhere, HeadAt, SlotFor, CacheSlot

\* No two elements have one place.
LEMMA KvIsApart ==
    ASSUME NEW s, KvSound(s),
           NEW x \in Below(s.kvHeads), NEW y \in Below(s.tokens), NEW i \in Below(s.headDim),
           NEW u \in Below(s.kvHeads), NEW v \in Below(s.tokens), NEW j \in Below(s.headDim),
           KvAt(x, y, i, s) = KvAt(u, v, j, s)
    PROVE  x = u /\ y = v /\ i = j
<1>1. PICK heads \in Nat, c \in Nat, dim \in Nat : heads = s.kvHeads /\ c = s.capacity /\ dim = s.headDim
  BY DEF KvSound
<1>2. PICK m \in Below(c), n \in Below(c) :
         m = CacheSlot(s.position + y, s) /\ n = CacheSlot(s.position + v, s) /\ (m = n => y = v)
  BY <1>1, SlotsAreApart
<1>3. PICK a : a = HeadAt(x, m, i, c, dim) /\ a = HeadAt(u, n, j, c, dim)
  BY <1>1, <1>2 DEF KvAt
<1>4. IsHead(a, x, m, i, heads, c, dim) /\ IsHead(a, u, n, j, heads, c, dim)
  <2>1. x \in Below(heads) /\ u \in Below(heads) /\ i \in Below(dim) /\ j \in Below(dim)
    BY <1>1
  <2>2. IsHead(HeadAt(x, m, i, c, dim), x, m, i, heads, c, dim)
    BY <2>1, HeadIs
  <2>3. IsHead(HeadAt(u, n, j, c, dim), u, n, j, heads, c, dim)
    BY <2>1, HeadIs
  <2>4. QED BY <1>3, <2>2, <2>3
<1>5. x = u /\ m = n /\ i = j
  BY <1>4 DEF IsHead
<1>6. QED BY <1>2, <1>5

\* The reference has at a place what belongs there.
LEMMA KvReferenceAt ==
    ASSUME NEW s, KvSound(s),
           NEW x \in Below(s.kvHeads), NEW y \in Below(s.tokens), NEW i \in Below(s.headDim)
    PROVE  /\ KvAt(x, y, i, s) \in DOMAIN KvReference(s)
           /\ KvReference(s)[KvAt(x, y, i, s)] = KvFrom(x, y, i, s)
<1>1. PICK heads \in Nat, tokens \in Nat, dim \in Nat :
         heads = s.kvHeads /\ tokens = s.tokens /\ dim = s.headDim
  BY DEF KvSound
<1>2. PICK a, here : a = KvAt(x, y, i, s) /\ here = KvFrom(x, y, i, s)
  OBVIOUS
<1>3. ASSUME NEW u \in Below(heads), NEW v \in Below(tokens), NEW j \in Below(dim)
      PROVE  /\ KvFrom(u, v, j, s) \in Below(s.tokens * s.kvHeads * s.headDim)
             /\ KvWhere(KvFrom(u, v, j, s), s) = KvAt(u, v, j, s)
  <2>1. PICK from : from = KvFrom(u, v, j, s) /\ from = HeadAt(v, u, j, heads, dim)
    BY <1>1 DEF KvFrom
  <2>2. IsHead(from, v, u, j, tokens, heads, dim)
    BY <2>1, HeadIs
  <2>3. /\ from \in Below(tokens * heads * dim)
        /\ (from \div dim) % heads = u /\ from \div (heads * dim) = v /\ from % dim = j
    BY <2>2 DEF IsHead
  <2>4. QED BY <1>1, <2>1, <2>3 DEF KvWhere
<1>4. here \in Below(s.tokens * s.kvHeads * s.headDim) /\ a = KvWhere(here, s)
  BY <1>1, <1>2, <1>3
<1>5. ASSUME NEW from \in Below(s.tokens * s.kvHeads * s.headDim), a = KvWhere(from, s) PROVE from = here
  <2>1. from \in Below(tokens * heads * dim)
    BY <1>1
  <2>2. PICK v \in Below(tokens), u \in Below(heads), j \in Below(dim) : from = HeadAt(v, u, j, heads, dim)
    BY <2>1, HeadsAre
  <2>3. from = KvFrom(u, v, j, s)
    BY <1>1, <2>2 DEF KvFrom
  <2>4. KvAt(x, y, i, s) = KvAt(u, v, j, s)
    BY <1>2, <1>3, <1>5, <2>3
  <2>5. x = u /\ y = v /\ i = j
    BY <1>1, <2>4, KvIsApart
  <2>6. QED BY <1>2, <2>3, <2>5
<1>6. a \in DOMAIN KvReference(s)
  BY <1>2, KvPlaces
<1>7. QED BY <1>2, <1>4, <1>5, <1>6, KvReferenceIs

\* A launch that writes the cache, whatever the number of threads.
KvStore(x, y, i, s) == [at |-> KvAt(x, y, i, s), value |-> KvFrom(x, y, i, s)]

\* Whatever the number of threads, each element of a batch is put where it belongs.
LEMMA CacheWrites ==
    ASSUME NEW s, KvSound(s), NEW threads \in Nat, threads > 0, NEW stores,
           stores = [thread \in Grid(s.kvHeads, s.tokens, threads) |->
                        {KvStore(thread[1], thread[2], i, s) : i \in Strided(thread[3], threads, s.headDim)}]
    PROVE  Computes(stores, KvReference(s))
<1>1. PICK reference : reference = KvReference(s)
  OBVIOUS
<1>2. PICK heads \in Nat, tokens \in Nat, dim \in Nat :
         heads = s.kvHeads /\ tokens = s.tokens /\ dim = s.headDim
  BY DEF KvSound
<1> DEFINE rows == Below(heads) \X Below(tokens)
           place == [q \in rows \X Below(dim) |-> KvAt(q[1][1], q[1][2], q[2], s)]
<1>3. \A a : a \in DOMAIN reference <=>
                \E x \in Below(heads), y \in Below(tokens), i \in Below(dim) : a = KvAt(x, y, i, s)
  BY <1>1, <1>2, KvPlaces
<1>4. \A x \in Below(heads), y \in Below(tokens), i \in Below(dim) : place[<<<<x, y>>, i>>] = KvAt(x, y, i, s)
  OBVIOUS
<1> HIDE DEF place
<1>5. Places(place, rows, dim, reference)
  <2>1. ASSUME NEW r \in rows, NEW i \in Below(dim) PROVE place[<<r, i>>] \in DOMAIN reference
    <3>1. PICK x \in Below(heads), y \in Below(tokens) : r = <<x, y>>
      OBVIOUS
    <3>2. QED BY <1>3, <1>4, <3>1
  <2>2. ASSUME NEW a \in DOMAIN reference PROVE \E r \in rows, i \in Below(dim) : a = place[<<r, i>>]
    <3>1. PICK x \in Below(heads), y \in Below(tokens), i \in Below(dim) : a = KvAt(x, y, i, s)
      BY <1>3
    <3>2. PICK r \in rows : r = <<x, y>>
      OBVIOUS
    <3>3. a = place[<<r, i>>]
      BY <1>4, <3>1, <3>2
    <3>4. QED BY <3>3
  <2>3. ASSUME NEW r \in rows, NEW q \in rows, NEW i \in Below(dim), NEW j \in Below(dim),
               place[<<r, i>>] = place[<<q, j>>]
        PROVE  r = q /\ i = j
    <3>1. PICK x \in Below(heads), y \in Below(tokens) : r = <<x, y>>
      OBVIOUS
    <3>2. PICK u \in Below(heads), v \in Below(tokens) : q = <<u, v>>
      OBVIOUS
    <3>3. KvAt(x, y, i, s) = KvAt(u, v, j, s)
      BY <1>4, <2>3, <3>1, <3>2
    <3>4. x = u /\ y = v /\ i = j
      BY <1>2, <3>3, KvIsApart
    <3>5. QED BY <3>1, <3>2, <3>4
  <2>4. QED BY <2>1, <2>2, <2>3 DEF Places
<1>6. IsFiniteSet(DOMAIN reference)
  <2>1. IsFiniteSet(Below(heads)) /\ IsFiniteSet(Below(tokens)) /\ IsFiniteSet(Below(dim))
    BY BelowIsFinite
  <2>2. IsFiniteSet(rows)
    BY <2>1, FS_Product
  <2>3. IsFiniteSet(rows \X Below(dim))
    BY <2>1, <2>2, FS_Product
  <2>4. \A a \in DOMAIN reference : \E q \in rows \X Below(dim) : place[q] = a
    BY <1>5 DEF Places
  <2>5. ASSUME NEW q \in rows \X Below(dim) PROVE place[q] \in DOMAIN reference
    <3>1. PICK r \in rows, i \in Below(dim) : q = <<r, i>>
      OBVIOUS
    <3>2. QED BY <1>5, <3>1 DEF Places
  <2>6. DOMAIN place = rows \X Below(dim) /\ place = [q \in DOMAIN place |-> place[q]]
    BY DEF place
  <2>7. place \in Surjection(rows \X Below(dim), DOMAIN reference)
    BY <2>4, <2>5, <2>6 DEF Surjection
  <2>8. QED BY <2>3, <2>7, FS_Surjection
<1>7. ASSUME NEW x \in Below(heads), NEW y \in Below(tokens), NEW t \in Below(threads)
      PROVE  stores[<<x, y, t>>] = {Entry(reference, place[<<<<x, y>>, i>>]) : i \in Strided(t, threads, dim)}
  <2>1. PICK S : S = Strided(t, threads, dim) /\ S \subseteq Below(dim)
    <3>1. t \in Nat
      BY DEF Below
    <3>2. QED BY <3>1, StridedWithin
  <2>2. stores[<<x, y, t>>] = {KvStore(x, y, i, s) : i \in S}
    <3>1. <<x, y, t>> \in Grid(s.kvHeads, s.tokens, threads)
      BY <1>2 DEF Grid
    <3>2. QED BY <1>2, <2>1, <3>1
  <2>3. ASSUME NEW i \in S PROVE Entry(reference, place[<<<<x, y>>, i>>]) = KvStore(x, y, i, s)
    <3>1. i \in Below(dim)
      BY <2>1
    <3>2. reference[KvAt(x, y, i, s)] = KvFrom(x, y, i, s)
      BY <1>1, <1>2, <3>1, KvReferenceAt
    <3>3. QED BY <1>4, <3>1, <3>2 DEF Entry, KvStore
  <2> HIDE DEF rows
  <2>4. {Entry(reference, place[<<<<x, y>>, i>>]) : i \in S} = {KvStore(x, y, i, s) : i \in S}
    BY <2>3
  <2>5. QED BY <2>1, <2>2, <2>4
<1>8. DOMAIN stores = Grid(heads, tokens, threads)
  BY <1>2
<1>9. StridesRows(stores, reference, place, heads, tokens, threads, dim)
  BY <1>7, <1>8 DEF StridesRows
<1>10. Computes(stores, reference)
  BY <1>5, <1>6, <1>9, RowsCompute
<1>11. QED BY <1>1, <1>10

\* kvWriteKernel: a batch that is accepted puts each element at the place of
\* its position, past the end of a ring too, and no two at one place.
THEOREM KvWriteComputes ==
    ASSUME NEW s, KvSound(s), s.headDim > 0
    PROVE  Computes(KvWrite(s), KvReference(s))
<1>1. PICK dim \in Nat : dim = s.headDim /\ dim > 0
  BY DEF KvSound
<1>2. Block \in Nat /\ Block > 0
  BY ThreadsAreLanes
<1>3. PICK threads \in Nat : threads = Min({s.headDim, Block}) /\ threads > 0
  <2>1. Min({dim, Block}) = IF dim <= Block THEN dim ELSE Block
    BY <1>1, <1>2, MinOfTwo
  <2>2. QED BY <1>1, <1>2, <2>1
<1>4. KvWrite(s) =
        [thread \in Grid(s.kvHeads, s.tokens, Min({s.headDim, Block})) |->
            {KvStore(thread[1], thread[2], i, s) : i \in Strided(thread[3], Min({s.headDim, Block}), s.headDim)}]
  BY Zenon DEF KvWrite, KvStore, KvAt, KvFrom, HeadAt
<1>5. QED BY <1>3, <1>4, CacheWrites

-----------------------------------------------------------------------------
(* The rotation of pairs.                                                  *)

\* Heads as long as what is rotated of them.
RopeSound(s) ==
    /\ {s.heads, s.tokens, s.headDim, s.rotated, s.position} \subseteq Nat
    /\ s.rotated <= s.headDim

RopePairs(s) == s.rotated \div 2
Half(s) == s.headDim \div 2

\* Where a pair of a head of a token is stored, and what.
PairAt(x, y, i, side, s) == HeadAt(y, x, i, s.heads, s.headDim) + side
PairValue(x, y, i, s) ==
    [lower |-> HeadAt(y, x, i, s.heads, s.headDim),
     upper |-> HeadAt(y, x, i, s.heads, s.headDim) + Half(s),
     pair |-> i, position |-> s.position + y]
PairStore(x, y, i, side, s) == [at |-> PairAt(x, y, i, side, s), value |-> PairValue(x, y, i, s)]

\* No more pairs are rotated than a half of a head has elements.
LEMMA PairsFit ==
    ASSUME NEW s, RopeSound(s)
    PROVE  /\ RopePairs(s) \in Nat /\ Half(s) \in Nat /\ RopePairs(s) <= Half(s)
           /\ 2 * Half(s) <= s.headDim
<1>1. PICK dim \in Nat, rotated \in Nat : dim = s.headDim /\ rotated = s.rotated /\ rotated <= dim
  BY DEF RopeSound
<1>2. PICK m \in Nat, r \in Nat : m = dim \div 2 /\ r = dim % 2 /\ r < 2 /\ dim = 2 * m + r
  BY Division
<1>3. PICK n \in Nat, t \in Nat : n = rotated \div 2 /\ t = rotated % 2 /\ t < 2 /\ rotated = 2 * n + t
  BY Division
<1>4. n <= m /\ 2 * m <= dim
  BY <1>1, <1>2, <1>3
<1>5. QED BY <1>1, <1>2, <1>3, <1>4 DEF RopePairs, Half

\* An address of a pair tells whose it is.
IsPair(a, x, y, i, s) ==
    /\ a \in Nat /\ a \in Below(s.tokens * s.heads * s.headDim)
    /\ (a \div s.headDim) % s.heads = x /\ a \div (s.heads * s.headDim) = y
    /\ (a % s.headDim) < 2 * Half(s) /\ (a % s.headDim) % Half(s) = i
    /\ (a \div s.headDim) * s.headDim + i = HeadAt(y, x, i, s.heads, s.headDim)

\* An address of a pair says whose it is and which.
LEMMA PairIs ==
    ASSUME NEW s, RopeSound(s), NEW x \in Below(s.heads), NEW y \in Below(s.tokens),
           NEW i \in Below(RopePairs(s)), NEW side \in {0, Half(s)}
    PROVE  IsPair(PairAt(x, y, i, side, s), x, y, i, s)
<1>1. PICK heads \in Nat, tokens \in Nat, dim \in Nat :
         heads = s.heads /\ tokens = s.tokens /\ dim = s.headDim
  BY DEF RopeSound
<1>2. PICK half \in Nat, pairs \in Nat :
         half = Half(s) /\ pairs = RopePairs(s) /\ pairs <= half /\ 2 * half <= dim
  BY <1>1, PairsFit
<1>3. i \in Nat /\ i < pairs /\ i < half
  BY <1>2 DEF Below
<1>4. PICK j \in Nat : j = i + side
  BY <1>2, <1>3
<1>5. j < 2 * half /\ j % half = i
  <2>1. CASE side = 0
    <3>1. j = half * 0 + i
      BY <1>2, <1>3, <1>4, <2>1
    <3>2. j % half = i
      BY <1>3, <3>1, DivisionIs
    <3>3. QED BY <1>2, <1>3, <1>4, <2>1, <3>2
  <2>2. CASE side = half
    <3>1. j = half * 1 + i
      BY <1>2, <1>3, <1>4, <2>2
    <3>2. j % half = i
      BY <1>3, <3>1, DivisionIs
    <3>3. QED BY <1>2, <1>3, <1>4, <2>2, <3>2
  <2>3. QED BY <1>2, <2>1, <2>2
<1>6. j \in Below(dim)
  BY <1>2, <1>5 DEF Below
<1>7. PICK a : a = HeadAt(y, x, j, heads, dim)
  OBVIOUS
<1>8. IsHead(a, y, x, j, tokens, heads, dim)
  BY <1>1, <1>6, <1>7, HeadIs
<1>9. PICK base \in Nat : base = (y * heads + x) * dim
  <2>1. y \in Nat /\ x \in Nat
    BY <1>1 DEF Below
  <2>2. y * heads \in Nat
    BY <2>1, NaturalProduct
  <2>3. y * heads + x \in Nat
    BY <2>1, <2>2
  <2>4. QED BY <2>3, NaturalProduct
<1>10. a = PairAt(x, y, i, side, s)
  <2>1. base + j = (base + i) + side
    BY <1>2, <1>3, <1>4, <1>9
  <2>2. QED BY <1>1, <1>7, <1>9, <2>1 DEF PairAt, HeadAt
<1>11. (a \div dim) * dim + i = HeadAt(y, x, i, heads, dim)
  BY <1>8 DEF IsHead, HeadAt
<1>12. QED BY <1>1, <1>2, <1>5, <1>8, <1>10, <1>11 DEF IsHead, IsPair

\* Every address that is turned is of a pair.
LEMMA PairsAre ==
    ASSUME NEW s, RopeSound(s), NEW a \in Below(s.tokens * s.heads * s.headDim),
           a % s.headDim < 2 * Half(s), (a % s.headDim) % Half(s) < RopePairs(s)
    PROVE  \E x \in Below(s.heads), y \in Below(s.tokens), i \in Below(RopePairs(s)), side \in {0, Half(s)} :
              a = PairAt(x, y, i, side, s)
<1>1. PICK heads \in Nat, tokens \in Nat, dim \in Nat :
         heads = s.heads /\ tokens = s.tokens /\ dim = s.headDim
  BY DEF RopeSound
<1>2. PICK half \in Nat, pairs \in Nat : half = Half(s) /\ pairs = RopePairs(s)
  BY <1>1, PairsFit
<1>3. a \in Below(tokens * heads * dim)
  BY <1>1
<1>4. PICK y \in Below(tokens), x \in Below(heads), j \in Below(dim) : a = HeadAt(y, x, j, heads, dim)
  BY <1>3, HeadsAre
<1>5. IsHead(a, y, x, j, tokens, heads, dim)
  BY <1>4, HeadIs
<1>6. j \in Nat /\ a % dim = j
  BY <1>5 DEF IsHead, Below
<1>7. j < 2 * half /\ j % half < pairs
  BY <1>1, <1>2, <1>6
<1>8. half > 0
  BY <1>6, <1>7
<1>9. PICK q \in Nat, i \in Nat : q = j \div half /\ i = j % half /\ i < half /\ j = half * q + i
  BY <1>6, <1>8, Division
<1>10. i \in Below(pairs)
  BY <1>2, <1>7, <1>9 DEF Below
<1>11. q = 0 \/ q = 1
  <2>1. SUFFICES ASSUME 2 <= q PROVE FALSE
    BY <1>9
  <2>2. 2 * half <= q * half /\ q * half = half * q
    BY <2>1, ProductGrows
  <2>3. PICK m \in Nat : m = half * q
    BY NaturalProduct
  <2>4. QED BY <1>7, <1>9, <2>2, <2>3
<1>12. PICK side \in {0, half} : j = i + side
  <2>1. CASE q = 0
    BY <1>9, <2>1
  <2>2. CASE q = 1
    BY <1>9, <2>2
  <2>3. QED BY <1>11, <2>1, <2>2
<1>13. PICK base \in Nat : base = (y * heads + x) * dim
  <2>1. y \in Nat /\ x \in Nat
    BY DEF Below
  <2>2. y * heads \in Nat
    BY <2>1, NaturalProduct
  <2>3. y * heads + x \in Nat
    BY <2>1, <2>2
  <2>4. QED BY <2>3, NaturalProduct
<1>14. a = PairAt(x, y, i, side, s)
  <2>1. base + j = (base + i) + side
    BY <1>9, <1>12, <1>13
  <2>2. QED BY <1>1, <1>4, <1>13, <2>1 DEF PairAt, HeadAt
<1>15. QED BY <1>1, <1>2, <1>10, <1>14

\* What applyRope turns.
LEMMA RopeReferenceIs ==
    ASSUME NEW s
    PROVE  /\ DOMAIN RopeReference(s) =
                {a \in Below(s.tokens * s.heads * s.headDim) :
                    a % s.headDim < 2 * Half(s) /\ (a % s.headDim) % Half(s) < RopePairs(s)}
           /\ \A a \in DOMAIN RopeReference(s) :
                 RopeReference(s)[a] =
                   [lower |-> (a \div s.headDim) * s.headDim + ((a % s.headDim) % Half(s)),
                    upper |-> (a \div s.headDim) * s.headDim + ((a % s.headDim) % Half(s)) + Half(s),
                    pair |-> (a % s.headDim) % Half(s),
                    position |-> s.position + (a \div (s.heads * s.headDim))]
  BY DEF RopeReference, Half, RopePairs

\* A launch that turns the pairs, whatever the number of threads.
PairStores(stores, s, threads) ==
    /\ DOMAIN stores = Grid(s.heads, s.tokens, threads)
    /\ \A x \in Below(s.heads), y \in Below(s.tokens), t \in Below(threads) :
          stores[<<x, y, t>>]
            = {PairStore(x, y, i, side, s) : i \in Strided(t, threads, RopePairs(s)), side \in {0, Half(s)}}

\* Whatever the number of threads, each pair is turned once.
LEMMA PairsCompute ==
    ASSUME NEW s, RopeSound(s), NEW threads \in Nat, threads > 0, NEW stores, PairStores(stores, s, threads)
    PROVE  Computes(stores, RopeReference(s))
<1>1. PICK reference : reference = RopeReference(s)
  OBVIOUS
<1>2. PICK heads \in Nat, tokens \in Nat, dim \in Nat :
         heads = s.heads /\ tokens = s.tokens /\ dim = s.headDim
  BY DEF RopeSound
<1>3. PICK half \in Nat, pairs \in Nat : half = Half(s) /\ pairs = RopePairs(s)
  BY <1>2, PairsFit
<1> DEFINE owner == [a \in DOMAIN reference |->
                        <<(a \div dim) % heads, a \div (heads * dim), ((a % dim) % half) % threads>>]
<1>4. ASSUME NEW x \in Below(heads), NEW y \in Below(tokens), NEW i \in Below(pairs), NEW side \in {0, half}
      PROVE  /\ PairAt(x, y, i, side, s) \in DOMAIN reference
             /\ Entry(reference, PairAt(x, y, i, side, s)) = PairStore(x, y, i, side, s)
             /\ owner[PairAt(x, y, i, side, s)] = <<x, y, i % threads>>
  <2>1. PICK a : a = PairAt(x, y, i, side, s)
    OBVIOUS
  <2>2. IsPair(a, x, y, i, s)
    BY <1>2, <1>3, <2>1, PairIs
  <2>3. i < pairs
    BY <1>3 DEF Below
  <2>4. a \in DOMAIN reference
    BY <1>1, <1>2, <1>3, <2>2, <2>3, RopeReferenceIs DEF IsPair
  <2>5. reference[a] = PairValue(x, y, i, s)
    <3>1. reference[a] =
            [lower |-> (a \div s.headDim) * s.headDim + ((a % s.headDim) % Half(s)),
             upper |-> (a \div s.headDim) * s.headDim + ((a % s.headDim) % Half(s)) + Half(s),
             pair |-> (a % s.headDim) % Half(s),
             position |-> s.position + (a \div (s.heads * s.headDim))]
      BY <1>1, <2>4, RopeReferenceIs
    <3>2. /\ (a % s.headDim) % Half(s) = i /\ a \div (s.heads * s.headDim) = y
          /\ (a \div s.headDim) * s.headDim + i = HeadAt(y, x, i, s.heads, s.headDim)
      BY <2>2 DEF IsPair
    <3>3. QED BY <3>1, <3>2 DEF PairValue
  <2>6. owner[a] = <<x, y, i % threads>>
    BY <1>2, <1>3, <2>2, <2>4 DEF IsPair
  <2>7. QED BY <2>1, <2>4, <2>5, <2>6 DEF Entry, PairStore
<1>5. ASSUME NEW a \in DOMAIN reference
      PROVE  \E x \in Below(heads), y \in Below(tokens), i \in Below(pairs), side \in {0, half} :
                a = PairAt(x, y, i, side, s)
  <2>1. /\ a \in Below(s.tokens * s.heads * s.headDim)
        /\ a % s.headDim < 2 * Half(s) /\ (a % s.headDim) % Half(s) < RopePairs(s)
    BY <1>1, RopeReferenceIs
  <2>2. QED BY <1>2, <1>3, <2>1, PairsAre
<1>6. DOMAIN owner = DOMAIN reference
  OBVIOUS
<1> HIDE DEF owner
<1>7. ASSUME NEW x \in Below(heads), NEW y \in Below(tokens), NEW t \in Below(threads)
      PROVE  /\ <<x, y, t>> \in DOMAIN stores
             /\ stores[<<x, y, t>>]
                  = {PairStore(x, y, i, side, s) : i \in Strided(t, threads, pairs), side \in {0, half}}
  <2>1. <<x, y, t>> \in DOMAIN stores
    BY <1>2 DEF PairStores, Grid
  <2>2. QED BY <1>2, <1>3, <2>1 DEF PairStores
<1>8. ASSUME NEW a \in DOMAIN reference
      PROVE  owner[a] \in DOMAIN stores /\ Entry(reference, a) \in stores[owner[a]]
  <2>1. PICK x \in Below(heads), y \in Below(tokens), i \in Below(pairs), side \in {0, half} :
           a = PairAt(x, y, i, side, s)
    BY <1>5
  <2>2. PICK t \in Below(threads) : t = i % threads /\ i \in Strided(t, threads, pairs)
    BY <1>3, StridedIs
  <2>3. owner[a] = <<x, y, t>> /\ Entry(reference, a) = PairStore(x, y, i, side, s)
    BY <1>4, <2>1, <2>2
  <2>4. PairStore(x, y, i, side, s) \in stores[<<x, y, t>>]
    <3>1. PICK S : S = Strided(t, threads, pairs) /\ i \in S
      BY <2>2
    <3>2. stores[<<x, y, t>>] = {PairStore(x, y, j, z, s) : j \in S, z \in {0, half}}
      BY <1>7, <3>1
    <3>3. PairStore(x, y, i, side, s) \in {PairStore(x, y, j, z, s) : j \in S, z \in {0, half}}
      BY <3>1
    <3>4. QED BY <3>2, <3>3
  <2>5. QED BY <1>7, <2>3, <2>4
<1>9. ASSUME NEW thread \in DOMAIN stores, NEW w \in stores[thread]
      PROVE  \E a \in DOMAIN reference : w = Entry(reference, a) /\ owner[a] = thread
  <2>1. PICK x \in Below(heads), y \in Below(tokens), t \in Below(threads) : thread = <<x, y, t>>
    BY <1>2 DEF PairStores, Grid
  <2>2. PICK i \in Strided(t, threads, pairs), side \in {0, half} : w = PairStore(x, y, i, side, s)
    BY <1>7, <2>1
  <2>3. i \in Below(pairs) /\ i % threads = t
    BY StridedIs
  <2>4. QED BY <1>4, <2>1, <2>2, <2>3
<1>10. Owned(stores, reference, owner)
  BY <1>6, <1>8, <1>9 DEF Owned
<1>11. IsFiniteSet(DOMAIN reference)
  <2>1. PICK n \in Nat : n = tokens * heads
    BY NaturalProduct
  <2>2. n * dim \in Nat
    BY NaturalProduct
  <2>3. IsFiniteSet(Below(n * dim))
    BY <2>2, BelowIsFinite
  <2>4. DOMAIN reference \subseteq Below(n * dim)
    BY <1>1, <1>2, <2>1, RopeReferenceIs
  <2>5. QED BY <2>3, <2>4, FS_Subset
<1>12. QED BY <1>1, <1>10, <1>11, OwnedComputes

\* ropeKernel: each pair of each head is turned once by the angle of its
\* position, the rest is left, for every number of heads, tokens and pairs.
THEOREM RopeComputes ==
    ASSUME NEW s, RopeSound(s)
    PROVE  Computes(Rope(s), RopeReference(s))
<1>1. PICK threads : threads = Max({1, Min({RopePairs(s), Block})})
  OBVIOUS
<1>2. threads \in Nat /\ threads > 0
  <2>1. PICK pairs \in Nat : pairs = RopePairs(s)
    BY PairsFit
  <2>2. Block \in Nat /\ Block > 0
    BY ThreadsAreLanes
  <2>3. PICK m \in Nat : m = Min({pairs, Block})
    BY <2>1, <2>2, MinOfTwo
  <2>4. Max({1, m}) = IF 1 >= m THEN 1 ELSE m
    BY MaxOfTwo
  <2>5. QED BY <1>1, <2>1, <2>3, <2>4
<1>3. Rope(s) =
        [thread \in Grid(s.heads, s.tokens, Max({1, Min({RopePairs(s), Block})})) |->
            {PairStore(thread[1], thread[2], i, side, s) :
                i \in Strided(thread[3], Max({1, Min({RopePairs(s), Block})}), RopePairs(s)),
                side \in {0, Half(s)}}]
  BY DEF Rope, PairStore, PairAt, PairValue, HeadAt, RopePairs, Half
<1>4. PairStores(Rope(s), s, threads)
  <2>1. DOMAIN Rope(s) = Grid(s.heads, s.tokens, threads)
    BY <1>1, <1>3
  <2>2. ASSUME NEW x \in Below(s.heads), NEW y \in Below(s.tokens), NEW t \in Below(threads)
        PROVE  Rope(s)[<<x, y, t>>]
                 = {PairStore(x, y, i, side, s) : i \in Strided(t, threads, RopePairs(s)), side \in {0, Half(s)}}
    <3>1. <<x, y, t>> \in Grid(s.heads, s.tokens, threads)
      BY DEF Grid
    <3>2. QED BY <1>1, <1>3, <3>1
  <2>3. QED BY <2>1, <2>2 DEF PairStores
<1>5. QED BY <1>2, <1>4, PairsCompute

-----------------------------------------------------------------------------
(* What the kernels reach of their operands.                               *)

\* Of no operand is more touched than is demanded, in whole granules.
Fits(touched, demanded, granule) ==
    \A operand \in DOMAIN touched :
        /\ operand \in DOMAIN demanded
        /\ touched[operand] \in Int /\ demanded[operand] \in Int
        /\ touched[operand] <= InWhole(demanded[operand], granule)

\* More bytes are no fewer granules.
LEMMA InWholeGrows ==
    ASSUME NEW granule \in {1, 4}, NEW m \in Int, NEW n \in Int, m <= n
    PROVE  /\ InWhole(m, granule) \in Int /\ InWhole(n, granule) \in Int
           /\ InWhole(m, granule) <= InWhole(n, granule)
<1>1. \A b \in Int : InWhole(b, 1) = b /\ InWhole(b, 4) = 4 * ((b + 3) \div 4)
  BY DEF InWhole, CeilDiv
<1>2. CASE granule = 1
  BY <1>1, <1>2
<1>3. CASE granule = 4
  BY <1>1, <1>3
<1>4. QED BY <1>2, <1>3

\* A view that has room for what is demanded has room for what is touched.
LEMMA FitsInside ==
    ASSUME NEW granule \in {1, 4}, NEW touched, NEW demanded, Fits(touched, demanded, granule)
    PROVE  StaysInside(demanded, touched, granule)
<1> SUFFICES ASSUME NEW operand \in DOMAIN touched, NEW room \in Rooms(touched, operand),
                    Outcome({}, demanded, room) = "Ok"
             PROVE  /\ room[operand].offset <= room[operand].size
                    /\ touched[operand] <= InWhole(room[operand].size - room[operand].offset, granule)
  BY DEF StaysInside
<1>1. operand \in DOMAIN demanded /\ touched[operand] \in Int /\ demanded[operand] \in Int
      /\ touched[operand] <= InWhole(demanded[operand], granule)
  BY DEF Fits
<1>2. ViewFits(room[operand], demanded[operand])
  BY <1>1 DEF Outcome
<1> DEFINE Room(short, offset) ==
             [o \in DOMAIN touched |->
                 IF o = operand
                 THEN [size |-> Max({0, touched[o] + offset - short}), offset |-> offset]
                 ELSE Ample]
<1>3. PICK short \in {0, 1, 2, 4}, offset \in {0, 4} : room = Room(short, offset)
  <2>1. Rooms(touched, operand) = {Room(short, offset) : short \in {0, 1, 2, 4}, offset \in {0, 4}}
    BY DEF Rooms
  <2> HIDE DEF Room
  <2>2. QED BY <2>1
<1>4. room[operand] = [size |-> Max({0, touched[operand] + offset - short}), offset |-> offset]
  BY <1>3
<1>5. PICK size \in Int : size = Max({0, touched[operand] + offset - short})
  <2>1. touched[operand] + offset - short \in Int
    BY <1>1
  <2>2. QED BY <2>1, MaxOfTwo
<1>6. room[operand].size = size /\ room[operand].offset = offset /\ offset \in Int
  BY <1>4, <1>5
<1>7. offset <= size /\ demanded[operand] <= size - offset
  BY <1>1, <1>2, <1>6 DEF ViewFits
<1>8. PICK bytes \in Int, touches \in Int, view \in Int :
         bytes = demanded[operand] /\ touches = touched[operand] /\ view = size - offset
  BY <1>1, <1>5, <1>6
<1>9. InWhole(bytes, granule) \in Int /\ InWhole(view, granule) \in Int
      /\ InWhole(bytes, granule) <= InWhole(view, granule)
  BY <1>7, <1>8, InWholeGrows
<1>10. touches <= InWhole(view, granule)
  BY <1>1, <1>8, <1>9
<1>11. QED BY <1>6, <1>7, <1>8, <1>10

\* The dispatchers of both backends demand the same of every operand.
LEMMA SameDemands ==
    ASSUME NEW a
    PROVE  /\ D3D12!RmsNormDemands(a) = Cuda!RmsNormDemands(a)
           /\ D3D12!GemmDemands(a) = Cuda!GemmDemands(a)
           /\ D3D12!EmbedDemands(a) = Cuda!EmbedDemands(a)
           /\ D3D12!RopeDemands(a) = Cuda!RopeDemands(a)
           /\ D3D12!ElementwiseDemands(a) = Cuda!ElementwiseDemands(a)
           /\ D3D12!KvWriteDemands(a) = Cuda!KvWriteDemands(a)
           /\ D3D12!AttentionDemands(a) = Cuda!AttentionDemands(a)
           /\ D3D12!RouterDemands(a) = Cuda!RouterDemands(a)
           /\ D3D12!CombineDemands(a) = Cuda!CombineDemands(a)
           /\ D3D12!GatherDemands(a) = Cuda!GatherDemands(a)
           /\ D3D12!ScatterDemands(a) = Cuda!ScatterDemands(a)
<1>1. /\ D3D12!ActivationBytes = Cuda!ActivationBytes /\ D3D12!KvBytes = Cuda!KvBytes
      /\ D3D12!Bf16Bytes = Cuda!Bf16Bytes /\ D3D12!U32Bytes = Cuda!U32Bytes
  BY DEF D3D12!ActivationBytes, D3D12!KvBytes, D3D12!Bf16Bytes, D3D12!U32Bytes,
         Cuda!ActivationBytes, Cuda!KvBytes, Cuda!Bf16Bytes, Cuda!U32Bytes
<1>2. D3D12!WeightsDemanded(a.layout) = Cuda!WeightsDemanded(a.layout)
  BY <1>1 DEF D3D12!WeightsDemanded, Cuda!WeightsDemanded, D3D12!WordsPerRow, Cuda!WordsPerRow,
              D3D12!GroupsPerRow, Cuda!GroupsPerRow
<1>3. \A f, g : D3D12!Joined(f, g) = Cuda!Joined(f, g)
  BY DEF D3D12!Joined, Cuda!Joined
<1>4. D3D12!GemmDemands(a) = Cuda!GemmDemands(a)
  BY <1>1, <1>2, <1>3 DEF D3D12!GemmDemands, Cuda!GemmDemands
<1>5. D3D12!EmbedDemands(a) = Cuda!EmbedDemands(a)
  BY <1>1, <1>2, <1>3 DEF D3D12!EmbedDemands, Cuda!EmbedDemands
<1>6. /\ D3D12!RmsNormDemands(a) = Cuda!RmsNormDemands(a)
      /\ D3D12!RopeDemands(a) = Cuda!RopeDemands(a)
      /\ D3D12!ElementwiseDemands(a) = Cuda!ElementwiseDemands(a)
      /\ D3D12!KvWriteDemands(a) = Cuda!KvWriteDemands(a)
      /\ D3D12!AttentionDemands(a) = Cuda!AttentionDemands(a)
  BY <1>1 DEF D3D12!RmsNormDemands, Cuda!RmsNormDemands, D3D12!RopeDemands, Cuda!RopeDemands,
              D3D12!ElementwiseDemands, Cuda!ElementwiseDemands, D3D12!KvWriteDemands, Cuda!KvWriteDemands,
              D3D12!AttentionDemands, Cuda!AttentionDemands
<1>7. /\ D3D12!RouterDemands(a) = Cuda!RouterDemands(a)
      /\ D3D12!CombineDemands(a) = Cuda!CombineDemands(a)
      /\ D3D12!GatherDemands(a) = Cuda!GatherDemands(a)
      /\ D3D12!ScatterDemands(a) = Cuda!ScatterDemands(a)
  BY <1>1 DEF D3D12!RouterDemands, Cuda!RouterDemands, D3D12!CombineDemands, Cuda!CombineDemands,
              D3D12!GatherDemands, Cuda!GatherDemands, D3D12!ScatterDemands, Cuda!ScatterDemands
<1>8. QED BY <1>4, <1>5, <1>6, <1>7

\* Addresses below a number take no more bytes than that many elements.
LEMMA BytesWithin ==
    ASSUME NEW n \in Nat, NEW S \in SUBSET Below(n), NEW width \in Nat, NEW granule \in {1, 4}
    PROVE  /\ Bytes(S, width, granule) \in Int /\ n * width \in Int
           /\ InWhole(n * width, granule) \in Int
           /\ Bytes(S, width, granule) <= InWhole(n * width, granule)
<1>1. PICK bytes \in Nat : bytes = n * width
  BY NaturalProduct
<1>2. InWhole(bytes, granule) \in Int /\ InWhole(0, granule) <= InWhole(bytes, granule)
      /\ InWhole(0, granule) = 0
  <2>1. InWhole(0, granule) = 0
    <3>1. InWhole(0, 1) = 0 /\ InWhole(0, 4) = 0
      BY DEF InWhole, CeilDiv
    <3>2. QED BY <3>1
  <2>2. QED BY <2>1, InWholeGrows
<1>3. CASE S = {}
  BY <1>1, <1>2, <1>3 DEF Bytes
<1>4. CASE S # {}
  <2>1. S \in SUBSET Nat /\ \A i \in S : i <= n
    BY DEF Below
  <2>2. PICK m \in S : \A i \in S : m >= i
    BY <1>4, <2>1, GreatestNatural
  <2>3. m \in Nat /\ m + 1 <= n
    BY <2>2 DEF Below
  <2>4. Max(S) = m
    <3>1. \A i \in S : i <= m
      BY <2>1, <2>2
    <3>2. QED BY <2>1, <2>2, <3>1, MaxIs
  <2>5. PICK k \in Nat : k = m + 1
    BY <2>3
  <2>6. k * width <= n * width /\ k * width \in Nat
    BY <2>3, <2>5, ProductGrows
  <2>7. PICK taken \in Nat : taken = k * width /\ taken <= bytes
    BY <1>1, <2>6
  <2>8. Bytes(S, width, granule) = InWhole(taken, granule)
    <3>1. width * k = taken
      BY <2>7
    <3>2. QED BY <1>4, <2>4, <2>5, <3>1 DEF Bytes
  <2>9. InWhole(taken, granule) \in Int /\ InWhole(taken, granule) <= InWhole(bytes, granule)
    BY <2>7, InWholeGrows
  <2>10. QED BY <1>1, <1>2, <2>8, <2>9
<1>5. QED BY <1>3, <1>4

\* A launch that computes the reference writes the reference's addresses, and
\* reads what its values are made of.
LEMMA WrittenAre ==
    ASSUME NEW stores, NEW reference, Computes(stores, reference)
    PROVE  /\ At(stores) = DOMAIN reference
           /\ \A w \in Written(stores) : w.at \in DOMAIN reference /\ w.value = reference[w.at]
<1> DEFINE all == UNION {{<<thread, w>> : w \in stores[thread]} : thread \in DOMAIN stores}
<1>1. {e[2].at : e \in all} = DOMAIN reference /\ \A e \in all : e[2].value = reference[e[2].at]
  BY DEF Computes
<1>2. \A w \in Written(stores) : \E thread \in DOMAIN stores : w \in stores[thread]
  BY DEF Written, Range
<1>3. \A w \in Written(stores) : \E e \in all : e[2] = w
  <2> SUFFICES ASSUME NEW w \in Written(stores) PROVE \E e \in all : e[2] = w
    OBVIOUS
  <2>1. PICK thread \in DOMAIN stores : w \in stores[thread]
    BY <1>2
  <2>2. <<thread, w>> \in all
    BY <2>1
  <2>3. <<thread, w>>[2] = w
    OBVIOUS
  <2> HIDE DEF all
  <2>4. QED BY <2>2, <2>3
<1>4. \A e \in all : e[2] \in Written(stores)
  BY DEF Written, Range
<1> HIDE DEF all
<1>5. \A w \in Written(stores) : w.at \in DOMAIN reference /\ w.value = reference[w.at]
  BY <1>1, <1>3
<1>6. \A a \in DOMAIN reference : a \in At(stores)
  <2> SUFFICES ASSUME NEW a \in DOMAIN reference PROVE a \in At(stores)
    OBVIOUS
  <2>1. PICK e \in all : a = e[2].at
    BY <1>1
  <2>2. QED BY <1>4, <2>1 DEF At
<1>7. \A a \in At(stores) : a \in DOMAIN reference
  BY <1>5 DEF At
<1>8. QED BY <1>5, <1>6, <1>7

\* The terms of a sum without repetition.
LEMMA TermsOf ==
    ASSUME NEW S
    PROVE  BagToSet(SetToBag(S)) = S
  BY DEF BagToSet, SetToBag

\* A norm reads its rows and the weights of a row.
LEMMA RmsNormReaches ==
    ASSUME NEW a, a.rows \in Nat, a.count \in Nat,
           NEW granule \in {1, 4}, NEW stores, Computes(stores, RmsNormReference(a.rows, a.count))
    PROVE  Fits(RmsNormTouches(stores, granule), Cuda!RmsNormDemands(a), granule)
<1>1. PICK rows \in Nat, count \in Nat : rows = a.rows /\ count = a.count
  OBVIOUS
<1>2. PICK n \in Nat : n = rows * count
  BY NaturalProduct
<1>3. PICK reference : reference = RmsNormReference(rows, count)
  OBVIOUS
<1>4. At(stores) = DOMAIN reference
      /\ \A w \in Written(stores) : w.at \in DOMAIN reference /\ w.value = reference[w.at]
  BY <1>1, <1>3, WrittenAre
<1>5. DOMAIN reference = Below(n)
      /\ \A e \in Below(n) : reference[e] = [input |-> e, weight |-> e % count,
             squares |-> SetToBag({(e \div count) * count + i : i \in Below(count)})]
  BY <1>2, <1>3 DEF RmsNormReference
<1>6. ASSUME NEW e \in Below(n)
      PROVE  e % count \in Below(count)
             /\ BagToSet(reference[e].squares) \in SUBSET Below(n)
  <2>1. PICK r \in Nat, c \in Nat : r < rows /\ c < count /\ e \div count = r /\ e % count = c
    BY <1>2, AddressSplits
  <2>2. BagToSet(reference[e].squares) = {r * count + i : i \in Below(count)}
    <3>1. PICK S : S = {r * count + i : i \in Below(count)}
      OBVIOUS
    <3>2. reference[e].squares = SetToBag({(e \div count) * count + i : i \in Below(count)})
      BY <1>5
    <3>3. reference[e].squares = SetToBag(S)
      BY <2>1, <3>1, <3>2
    <3>4. BagToSet(reference[e].squares) = S
      BY <3>3, TermsOf
    <3>5. QED BY <3>1, <3>4
  <2>3. \A i \in Below(count) : r * count + i \in Below(n)
    <3> SUFFICES ASSUME NEW i \in Below(count) PROVE r * count + i \in Below(n)
      OBVIOUS
    <3>1. i \in Nat /\ i < count
      BY DEF Below
    <3>2. QED BY <1>2, <2>1, <3>1, RowAndColumn
  <2>4. c \in Below(count)
    BY <2>1 DEF Below
  <2>5. QED BY <2>1, <2>2, <2>3, <2>4
<1>7. UNION {BagToSet(w.value.squares) : w \in Written(stores)} \in SUBSET Below(n)
      /\ {w.value.weight : w \in Written(stores)} \in SUBSET Below(count)
      /\ At(stores) \in SUBSET Below(n)
  <2>1. \A w \in Written(stores) :
           BagToSet(w.value.squares) \in SUBSET Below(n) /\ w.value.weight \in Below(count)
    <3> SUFFICES ASSUME NEW w \in Written(stores)
                 PROVE  BagToSet(w.value.squares) \in SUBSET Below(n) /\ w.value.weight \in Below(count)
      OBVIOUS
    <3>1. PICK e \in Below(n) : w.value = reference[e]
      BY <1>4, <1>5
    <3>2. reference[e].weight = e % count
      <4>1. PICK S, m : S = SetToBag({(e \div count) * count + i : i \in Below(count)}) /\ m = e % count
        OBVIOUS
      <4>2. reference[e] = [input |-> e, weight |-> m, squares |-> S]
        BY <1>5, <4>1
      <4>3. QED BY <4>1, <4>2
    <3>3. QED BY <1>6, <3>1, <3>2
  <2>2. At(stores) \in SUBSET Below(n)
    BY <1>4, <1>5
  <2>3. QED BY <2>1, <2>2
<1>8. RmsNormTouches(stores, granule)
        = [input |-> Bytes(UNION {BagToSet(w.value.squares) : w \in Written(stores)}, 4, granule),
           weight |-> Bytes({w.value.weight : w \in Written(stores)}, 2, granule),
           output |-> Bytes(At(stores), 4, granule)]
  BY DEF RmsNormTouches
<1>9. Cuda!RmsNormDemands(a) = [input |-> n * 4, output |-> n * 4, weight |-> count * 2]
  BY <1>1, <1>2 DEF Cuda!RmsNormDemands, Cuda!ActivationBytes, Cuda!Bf16Bytes
<1>10. QED BY <1>1, <1>3, <1>7, <1>8, <1>9, BytesWithin DEF Fits

\* gegluKernel, addKernel, scaleKernel and logitSoftcapKernel.
LEMMA ElementwiseReaches ==
    ASSUME NEW a, a.count \in Nat,
           NEW granule \in {1, 4}, NEW stores, Computes(stores, ElementwiseReference(a.count))
    PROVE  Fits(ElementwiseTouches(stores, granule), Cuda!ElementwiseDemands(a), granule)
<1>1. PICK count \in Nat : count = a.count
  OBVIOUS
<1>2. At(stores) = Below(count)
  <2>1. DOMAIN ElementwiseReference(count) = Below(count)
    BY DEF ElementwiseReference
  <2>2. At(stores) = DOMAIN ElementwiseReference(count)
    BY <1>1, WrittenAre
  <2>3. QED BY <2>1, <2>2
<1>3. PICK bytes : bytes = Bytes(Below(count), 4, granule) /\ bytes \in Int /\ count * 4 \in Int
                  /\ bytes <= InWhole(count * 4, granule)
  BY BytesWithin
<1>4. ElementwiseTouches(stores, granule) = [operand \in {"a", "b", "output"} |-> bytes]
  BY <1>2, <1>3 DEF ElementwiseTouches
<1>5. Cuda!ElementwiseDemands(a) = [operand \in {"a", "b", "output"} |-> count * 4]
  BY <1>1 DEF Cuda!ElementwiseDemands, Cuda!ActivationBytes
<1>6. QED BY <1>1, <1>3, <1>4, <1>5 DEF Fits

\* fillZeroKernel.
LEMMA FillZeroReaches ==
    ASSUME NEW a, a.count \in Nat,
           NEW granule \in {1, 4}, NEW stores, Computes(stores, ZeroReference(a.count))
    PROVE  Fits(FillZeroTouches(stores, granule), Cuda!FillZeroDemands(a), granule)
<1>1. PICK count \in Nat : count = a.count
  OBVIOUS
<1>2. At(stores) = Below(count)
  <2>1. DOMAIN ZeroReference(count) = Below(count)
    BY DEF ZeroReference
  <2>2. At(stores) = DOMAIN ZeroReference(count)
    BY <1>1, WrittenAre
  <2>3. QED BY <2>1, <2>2
<1>3. PICK bytes : bytes = Bytes(Below(count), 4, granule) /\ bytes \in Int /\ count * 4 \in Int
                  /\ bytes <= InWhole(count * 4, granule)
  BY BytesWithin
<1>4. FillZeroTouches(stores, granule) = [output |-> bytes]
  BY <1>2, <1>3 DEF FillZeroTouches
<1>5. Cuda!FillZeroDemands(a) = [output |-> count * 4]
  BY <1>1 DEF Cuda!FillZeroDemands, Cuda!ActivationBytes
<1>6. QED BY <1>1, <1>3, <1>4, <1>5 DEF Fits

\* A combination reads the outputs of all experts and their weights.
LEMMA CombineReaches ==
    ASSUME NEW a, a.topK \in Nat, a.hidden \in Nat,
           NEW granule \in {1, 4}, NEW stores, Computes(stores, CombineReference(a.topK, a.hidden))
    PROVE  Fits(CombineTouches(stores, granule), Cuda!CombineDemands(a), granule)
<1>1. PICK topK \in Nat, hidden \in Nat : topK = a.topK /\ hidden = a.hidden
  OBVIOUS
<1>2. PICK n \in Nat : n = topK * hidden
  BY NaturalProduct
<1>3. PICK reference : reference = CombineReference(topK, hidden)
  OBVIOUS
<1>4. At(stores) = DOMAIN reference
      /\ \A w \in Written(stores) : w.at \in DOMAIN reference /\ w.value = reference[w.at]
  BY <1>1, <1>3, WrittenAre
<1>5. DOMAIN reference = Below(hidden)
      /\ \A d \in Below(hidden) : reference[d] =
            SetToBag({[weights |-> k, expertOutputs |-> k * hidden + d] : k \in Below(topK)})
  BY <1>3 DEF CombineReference
<1>6. PICK terms : terms = UNION {BagToSet(w.value) : w \in Written(stores)}
  OBVIOUS
<1>7. \A t \in terms : t.weights \in Below(topK) /\ t.expertOutputs \in Below(n)
  <2> SUFFICES ASSUME NEW t \in terms PROVE t.weights \in Below(topK) /\ t.expertOutputs \in Below(n)
    OBVIOUS
  <2>1. PICK d \in Below(hidden) : t \in BagToSet(reference[d])
    BY <1>4, <1>5, <1>6
  <2>2. PICK k \in Below(topK) : t = [weights |-> k, expertOutputs |-> k * hidden + d]
    <3>1. PICK S : S = {[weights |-> k, expertOutputs |-> k * hidden + d] : k \in Below(topK)}
      OBVIOUS
    <3>2. BagToSet(reference[d]) = S
      BY <1>5, <3>1, TermsOf
    <3>3. QED BY <2>1, <3>1, <3>2
  <2>3. k \in Nat /\ d \in Nat /\ k < topK /\ d < hidden
    BY DEF Below
  <2>4. k * hidden + d \in Below(n)
    BY <1>2, <2>3, RowAndColumn
  <2>5. QED BY <2>2, <2>4
<1>8. {t.expertOutputs : t \in terms} \in SUBSET Below(n) /\ {t.weights : t \in terms} \in SUBSET Below(topK)
      /\ At(stores) \in SUBSET Below(hidden)
  BY <1>4, <1>5, <1>7
<1>9. CombineTouches(stores, granule)
        = [expertOutputs |-> Bytes({t.expertOutputs : t \in terms}, 4, granule),
           weights |-> Bytes({t.weights : t \in terms}, 4, granule), output |-> Bytes(At(stores), 4, granule)]
  BY <1>6 DEF CombineTouches
<1>10. Cuda!CombineDemands(a) = [expertOutputs |-> n * 4, weights |-> topK * 4, output |-> hidden * 4]
  BY <1>1, <1>2 DEF Cuda!CombineDemands, Cuda!ActivationBytes
<1>11. QED BY <1>1, <1>3, <1>8, <1>9, <1>10, BytesWithin DEF Fits

\* A rotation turns elements of the heads it is given.
LEMMA RopeReaches ==
    ASSUME NEW s, RopeSound(s),
           NEW granule \in {1, 4}, NEW stores, Computes(stores, RopeReference(s))
    PROVE  Fits(RopeTouches(stores, granule), Cuda!RopeDemands(s), granule)
<1>1. PICK n \in Nat : n = s.tokens * s.heads * s.headDim
  BY NaturalProduct DEF RopeSound
<1>2. At(stores) \in SUBSET Below(n)
  <2>1. At(stores) = DOMAIN RopeReference(s)
    BY WrittenAre
  <2>2. QED BY <1>1, <2>1, RopeReferenceIs
<1>3. RopeTouches(stores, granule) = [data |-> Bytes(At(stores), 4, granule)]
  BY DEF RopeTouches
<1>4. Cuda!RopeDemands(s) = [data |-> n * 4]
  BY <1>1 DEF Cuda!RopeDemands, Cuda!ActivationBytes
<1>5. QED BY <1>2, <1>3, <1>4, BytesWithin DEF Fits

\* The threads of a launch over rows read the row of their block.
LEMMA GatherReaches ==
    ASSUME NEW a, a.rows \in Seq(Nat), a.width \in Nat, NEW granule \in {1, 4}
    PROVE  Fits(GatherTouches(GatherRows(a.rows, a.width), granule), Cuda!GatherDemands(a), granule)
<1>1. PICK rows \in Seq(Nat), width \in Nat : rows = a.rows /\ width = a.width
  OBVIOUS
<1>2. PICK h \in Nat, n \in Nat : h = Len(rows) /\ n = h * width
  <2>1. Len(rows) \in Nat
    OBVIOUS
  <2>2. Len(rows) * width \in Nat
    BY <2>1, NaturalProduct
  <2>3. QED BY <2>1, <2>2
<1>3. PICK stores : stores = GatherRows(rows, width)
  OBVIOUS
<1>4. At(stores) = Below(n)
  <2>1. DOMAIN GatherReference(rows, width) = Below(n)
    BY <1>2 DEF GatherReference
  <2>2. At(stores) = DOMAIN GatherReference(rows, width)
    BY <1>3, GatherComputes, WrittenAre
  <2>3. QED BY <2>1, <2>2
<1>5. {thread[2] : thread \in DOMAIN stores} \in SUBSET Below(h)
  <2>1. DOMAIN stores = Grid(BlocksFor(width, Block), h, Block)
    BY <1>2, <1>3 DEF GatherRows
  <2>2. QED BY <2>1 DEF Grid
<1>6. GatherTouches(stores, granule)
        = [rows |-> Bytes({thread[2] : thread \in DOMAIN stores}, 4, granule), output |-> Bytes(At(stores), 4, granule)]
  BY DEF GatherTouches
<1>7. Cuda!GatherDemands(a) = [rows |-> h * 4, output |-> n * 4]
  BY <1>1, <1>2 DEF Cuda!GatherDemands, Cuda!ActivationBytes, Cuda!U32Bytes
<1>8. At(stores) \in SUBSET Below(n)
  BY <1>4
<1>9. PICK r, o : /\ r = Bytes({thread[2] : thread \in DOMAIN stores}, 4, granule) /\ r \in Int /\ r <= InWhole(h * 4, granule)
                  /\ o = Bytes(At(stores), 4, granule) /\ o \in Int /\ o <= InWhole(n * 4, granule)
  BY <1>5, <1>8, BytesWithin
<1>10. h * 4 \in Int /\ n * 4 \in Int
  OBVIOUS
<1>11. GatherTouches(stores, granule) = [rows |-> r, output |-> o]
  BY <1>6, <1>9
<1>12. QED BY <1>1, <1>3, <1>7, <1>9, <1>10, <1>11 DEF Fits

\* The same, for what is added to rows.
LEMMA ScatterReaches ==
    ASSUME NEW a, a.rows \in Seq(Nat), a.width \in Nat, NEW granule \in {1, 4}
    PROVE  Fits(ScatterTouches(ScatterAddRows(a.rows, a.width), granule), Cuda!ScatterDemands(a), granule)
<1>1. PICK rows \in Seq(Nat), width \in Nat : rows = a.rows /\ width = a.width
  OBVIOUS
<1>2. PICK h \in Nat, n \in Nat : h = Len(rows) /\ n = h * width
  <2>1. Len(rows) \in Nat
    OBVIOUS
  <2>2. Len(rows) * width \in Nat
    BY <2>1, NaturalProduct
  <2>3. QED BY <2>1, <2>2
<1>3. PICK stores, blocks : stores = ScatterAddRows(rows, width) /\ blocks = BlocksFor(width, Block)
  OBVIOUS
<1>4. DOMAIN stores = Grid(blocks, h, Block)
  BY <1>2, <1>3 DEF ScatterAddRows
<1>5. {thread[2] : thread \in DOMAIN stores} \in SUBSET Below(h)
  BY <1>4 DEF Grid
<1>6. \A w \in Written(stores) : w.value.input \in Below(n) /\ w.value.scales \in Below(h)
  <2> SUFFICES ASSUME NEW w \in Written(stores)
               PROVE  w.value.input \in Below(n) /\ w.value.scales \in Below(h)
    OBVIOUS
  <2>1. PICK thread \in DOMAIN stores : w \in stores[thread]
    BY DEF Written, Range
  <2>2. thread \in Grid(blocks, h, Block) /\ thread[2] \in Below(h)
    BY <1>4 DEF Grid
  <2>3. PICK strided : strided = Strided(thread[1] * Block + thread[3], blocks * Block, width)
    OBVIOUS
  <2>4. stores[thread] = {[at |-> rows[thread[2] + 1] * width + i,
                           value |-> [scales |-> thread[2], input |-> thread[2] * width + i]] : i \in strided}
    <3> DEFINE Stored(th) ==
                 {[at |-> rows[th[2] + 1] * width + i,
                   value |-> [scales |-> th[2], input |-> th[2] * width + i]] :
                     i \in Strided(th[1] * Block + th[3], blocks * Block, width)}
    <3>1. stores = [th \in Grid(blocks, h, Block) |-> Stored(th)]
      BY <1>2, <1>3 DEF ScatterAddRows
    <3>2. stores[thread] = Stored(thread)
      <4> HIDE DEF Stored
      <4>1. QED BY <2>2, <3>1
    <3>3. QED BY <2>3, <3>2
  <2>5. PICK i \in strided : w.value = [scales |-> thread[2], input |-> thread[2] * width + i]
    BY <2>1, <2>4
  <2>6. i \in Below(width)
    <3>1. thread[1] \in Below(blocks) /\ thread[3] \in Below(Block)
      BY <1>4 DEF Grid
    <3>2. thread[1] \in Nat /\ thread[3] \in Nat /\ Block \in Nat
      BY <3>1, ThreadsAreLanes DEF Below
    <3>3. PICK p \in Nat : p = thread[1] * Block
      BY <3>2, NaturalProduct
    <3>4. p + thread[3] \in Nat
      BY <3>2
    <3>5. QED BY <2>3, <3>3, <3>4, StridedWithin
  <2>7. thread[2] \in Nat /\ thread[2] < h /\ i \in Nat /\ i < width
    BY <2>2, <2>6 DEF Below
  <2>8. thread[2] * width + i \in Below(n)
    BY <1>2, <2>7, RowAndColumn
  <2>9. QED BY <2>2, <2>5, <2>8
<1>7. {w.value.input : w \in Written(stores)} \in SUBSET Below(n)
      /\ {w.value.scales : w \in Written(stores)} \in SUBSET Below(h)
  BY <1>6
<1>8. ScatterTouches(stores, granule)
        = [input |-> Bytes({w.value.input : w \in Written(stores)}, 4, granule),
           rows |-> Bytes({thread[2] : thread \in DOMAIN stores}, 4, granule),
           scales |-> Bytes({w.value.scales : w \in Written(stores)}, 4, granule)]
  BY DEF ScatterTouches
<1>9. Cuda!ScatterDemands(a) = [input |-> n * 4, rows |-> h * 4, scales |-> h * 4]
  BY <1>1, <1>2 DEF Cuda!ScatterDemands, Cuda!ActivationBytes, Cuda!U32Bytes
<1>10. PICK r, i, c : /\ r = Bytes({thread[2] : thread \in DOMAIN stores}, 4, granule) /\ r \in Int /\ r <= InWhole(h * 4, granule)
                      /\ i = Bytes({w.value.input : w \in Written(stores)}, 4, granule) /\ i \in Int /\ i <= InWhole(n * 4, granule)
                      /\ c = Bytes({w.value.scales : w \in Written(stores)}, 4, granule) /\ c \in Int /\ c <= InWhole(h * 4, granule)
  BY <1>5, <1>7, BytesWithin
<1>11. h * 4 \in Int /\ n * 4 \in Int
  OBVIOUS
<1>12. ScatterTouches(stores, granule) = [input |-> i, rows |-> r, scales |-> c]
  BY <1>8, <1>10
<1>13. QED BY <1>1, <1>3, <1>9, <1>10, <1>11, <1>12 DEF Fits

\* The experts chosen are experts.
LEMMA SelectionsAre ==
    ASSUME NEW scores, NEW experts, NEW topK, NEW tokens, RouterTyped(scores, experts, topK, tokens)
    PROVE  /\ DOMAIN RouterTopK(scores, experts, topK, tokens) = Below(tokens * topK)
           /\ \A e \in Below(tokens * topK) : RouterTopK(scores, experts, topK, tokens)[e] \in Below(experts)
<1>1. tokens \in Nat /\ experts \in Nat /\ topK \in Nat /\ topK > 0 /\ topK <= experts
      /\ scores \in [Below(tokens * experts) -> Nat]
  BY DEF RouterTyped
<1>2. DOMAIN RouterTopK(scores, experts, topK, tokens) = Below(tokens * topK)
  BY DEF RouterTopK
<1>3. ASSUME NEW e \in Below(tokens * topK)
      PROVE  RouterTopK(scores, experts, topK, tokens)[e] \in Below(experts)
  <2>1. PICK r \in Nat, c \in Nat : r < tokens /\ c < topK /\ e \div topK = r /\ e % topK = c
    BY <1>1, AddressSplits
  <2>2. PICK mine : mine = TokenScores(scores, experts, r)
    OBVIOUS
  <2>3. r \in Below(tokens)
    BY <1>1, <2>1 DEF Below
  <2>4. RouterTopK(scores, experts, topK, tokens)[e] = SelectedExperts(mine, topK)[c + 1]
    <3>1. RouterTopK(scores, experts, topK, tokens)[e]
            = [token \in Below(tokens) |->
                  SelectedExperts(TokenScores(scores, experts, token), topK)][e \div topK][(e % topK) + 1]
      BY DEF RouterTopK
    <3>2. QED BY <2>1, <2>2, <2>3, <3>1
  <2>5. mine \in [Below(experts) -> Nat]
    <3>1. \A x \in Below(experts) : r * experts + x \in Below(tokens * experts)
      <4> SUFFICES ASSUME NEW x \in Below(experts) PROVE r * experts + x \in Below(tokens * experts)
        OBVIOUS
      <4>1. x \in Nat /\ x < experts
        BY <1>1 DEF Below
      <4>2. QED BY <1>1, <2>1, <4>1, RowAndColumn
    <3>2. mine = [x \in Below(experts) |-> scores[r * experts + x]]
      BY <2>2 DEF TokenScores
    <3>3. QED BY <1>1, <3>1, <3>2
  <2>6. PICK state : Chosen(mine, experts, topK, state) /\ SelectedExperts(mine, topK) = state.chosen
    BY <1>1, <2>5, SelectedAre
  <2>7. c + 1 \in 1 .. topK
    BY <1>1, <2>1
  <2>8. state.chosen[c + 1] \in Below(experts)
    BY <1>1, <2>5, <2>6, <2>7, ChosenByRank
  <2>9. QED BY <2>4, <2>6, <2>8
<1>4. QED BY <1>2, <1>3

\* routerTopKKernel scales by the experts it chose, which are experts.
LEMMA RouterReaches ==
    ASSUME NEW a, RouterTyped(a.scores, a.experts, a.topK, a.tokens), NEW granule \in {1, 4}
    PROVE  Fits(RouterTouches(a.scores, RouterTopK(a.scores, a.experts, a.topK, a.tokens), granule),
                Cuda!RouterDemands(a), granule)
<1>1. PICK scores : scores = a.scores
  OBVIOUS
<1>2. PICK experts \in Nat, topK \in Nat, tokens \in Nat :
         experts = a.experts /\ topK = a.topK /\ tokens = a.tokens
  BY DEF RouterTyped
<1>3. PICK n \in Nat, m \in Nat : n = tokens * experts /\ m = tokens * topK
  BY NaturalProduct
<1>4. PICK chosen : chosen = RouterTopK(scores, experts, topK, tokens)
  OBVIOUS
<1>5. DOMAIN scores = Below(n)
  BY <1>1, <1>2, <1>3 DEF RouterTyped
<1>6. DOMAIN chosen = Below(m) /\ \A e \in Below(m) : chosen[e] \in Below(experts)
  BY <1>1, <1>2, <1>3, <1>4, SelectionsAre
<1>7. DOMAIN scores \in SUBSET Below(n) /\ DOMAIN chosen \in SUBSET Below(m)
      /\ Range(chosen) \in SUBSET Below(experts)
  BY <1>5, <1>6 DEF Range
<1>8. RouterTouches(scores, chosen, granule)
        = [scores |-> Bytes(DOMAIN scores, 4, granule), perExpertScale |-> Bytes(Range(chosen), 2, granule),
           outIndices |-> Bytes(DOMAIN chosen, 4, granule), outWeights |-> Bytes(DOMAIN chosen, 4, granule)]
  BY DEF RouterTouches
<1>9. Cuda!RouterDemands(a)
        = [scores |-> n * 4, perExpertScale |-> experts * 2, outIndices |-> m * 4, outWeights |-> m * 4]
  BY <1>1, <1>2, <1>3 DEF Cuda!RouterDemands, Cuda!ActivationBytes, Cuda!U32Bytes, Cuda!Bf16Bytes
<1>10. QED BY <1>1, <1>2, <1>4, <1>7, <1>8, <1>9, BytesWithin DEF Fits

\* A launch that stores the rows of the reference, kvWriteKernel's or the
\* shader's, stays within a cache of kvHeads by capacity rows and within the
\* batch it copies, for every accepted request, around the end of a ring too.
THEOREM KvWriteReaches ==
    ASSUME NEW s, KvSound(s), s.headDim > 0,
           NEW granule \in {1, 4}, NEW stores, Computes(stores, KvReference(s))
    PROVE  Fits(KvWriteTouches(stores, granule), Cuda!KvWriteDemands(s), granule)
<1>1. PICK heads \in Nat, tokens \in Nat, dim \in Nat, capacity \in Nat :
         heads = s.kvHeads /\ tokens = s.tokens /\ dim = s.headDim /\ capacity = s.capacity
  BY DEF KvSound
<1>2. PICK n \in Nat, c \in Nat : n = tokens * heads * dim /\ c = heads * capacity * dim
  <2>1. PICK m \in Nat, k \in Nat : m = tokens * heads /\ k = heads * capacity
    BY NaturalProduct
  <2>2. m * dim \in Nat /\ k * dim \in Nat
    BY NaturalProduct
  <2>3. QED BY <2>1, <2>2
<1>3. PICK reference : reference = KvReference(s)
  OBVIOUS
<1>4. At(stores) = DOMAIN reference
      /\ \A w \in Written(stores) : w.at \in DOMAIN reference /\ w.value = reference[w.at]
  BY <1>3, WrittenAre
<1>5. ASSUME NEW e \in DOMAIN reference
      PROVE  e \in Below(c) /\ reference[e] \in Below(n)
  <2>1. PICK x \in Below(heads), y \in Below(tokens), i \in Below(dim) : e = KvAt(x, y, i, s)
    BY <1>1, <1>3, KvPlaces
  <2>2. reference[e] = KvFrom(x, y, i, s)
    BY <1>1, <1>3, <2>1, KvReferenceAt
  <2>3. PICK slot \in Below(capacity) : slot = CacheSlot(s.position + y, s)
    BY <1>1, SlotsAreApart
  <2>4. e = HeadAt(x, slot, i, capacity, dim) /\ reference[e] = HeadAt(y, x, i, heads, dim)
    BY <1>1, <2>1, <2>2, <2>3 DEF KvAt, KvFrom
  <2>5. IsHead(HeadAt(x, slot, i, capacity, dim), x, slot, i, heads, capacity, dim)
    BY HeadIs
  <2>6. IsHead(HeadAt(y, x, i, heads, dim), y, x, i, tokens, heads, dim)
    BY HeadIs
  <2>7. QED BY <1>2, <2>4, <2>5, <2>6 DEF IsHead
<1>6. At(stores) \in SUBSET Below(c) /\ {w.value : w \in Written(stores)} \in SUBSET Below(n)
  BY <1>4, <1>5
<1>7. PICK source, cache : source = Bytes({w.value : w \in Written(stores)}, 4, granule) /\ cache = Bytes(At(stores), 2, granule)
  OBVIOUS
<1>8. source \in Int /\ n * 4 \in Int /\ source <= InWhole(n * 4, granule)
      /\ cache \in Int /\ c * 2 \in Int /\ cache <= InWhole(c * 2, granule)
  BY <1>6, <1>7, BytesWithin
<1>9. KvWriteTouches(stores, granule)
        = [operand \in {"key", "value", "keyCache", "valueCache"} |->
              IF operand \in {"key", "value"} THEN source ELSE cache]
  BY <1>7 DEF KvWriteTouches
<1>10. Cuda!KvWriteDemands(s) = [key |-> n * 4, value |-> n * 4, keyCache |-> c * 2, valueCache |-> c * 2]
  BY <1>1, <1>2 DEF Cuda!KvWriteDemands, Cuda!ActivationBytes, Cuda!KvBytes
<1>11. QED BY <1>3, <1>8, <1>9, <1>10 DEF Fits

\* Where an element of a matrix is packed, and whose scale it has.
LEMMA DequantizedWithin ==
    ASSUME NEW l, QuantizedSound(l), NEW row \in Below(l.out), NEW column \in Below(l.in)
    PROVE  /\ Dequantized(row, column, l).packed \in Below(l.out * WordsPerRow(l))
           /\ Dequantized(row, column, l).scales \in Below(l.out * GroupsPerRow(l))
<1>1. PICK out \in Nat, c \in Nat, p \in Nat, g \in Nat, words \in Nat, groups \in Nat :
         /\ out = l.out /\ c = l.in /\ p = l.perWord /\ g = l.group
         /\ words = WordsPerRow(l) /\ groups = GroupsPerRow(l) /\ p > 0 /\ g > 0 /\ words * p = c
  BY WordsAre
<1>2. row \in Nat /\ row < out /\ column \in Nat /\ column < c
  BY <1>1 DEF Below
<1>3. PICK word \in Nat : word = column \div p /\ word < words
  <2>1. column \in Below(words * p)
    BY <1>1, <1>2
  <2>2. QED BY <1>1, <2>1, AddressSplits
<1>4. PICK group \in Nat : group = column \div g /\ group < groups
  <2>1. groups * g = c
    <3>1. c % g = 0 /\ groups = c \div g
      <4>1. l.in % l.group = 0
        BY DEF QuantizedSound, ValidLayout
      <4>2. GroupsPerRow(l) = l.in \div l.group
        BY DEF GroupsPerRow
      <4>3. QED BY <1>1, <4>1, <4>2
    <3>2. PICK q \in Nat, r \in Nat : q = c \div g /\ r = c % g /\ c = g * q + r
      <4>1. c \in Nat /\ g \in Nat /\ g > 0
        BY <1>1
      <4>2. QED BY <4>1, Division
    <3>3. c = g * q /\ groups = q
      BY <3>1, <3>2
    <3>4. QED BY <3>3
  <2>2. column \in Below(groups * g)
    BY <1>1, <1>2, <2>1
  <2>3. QED BY <1>1, <2>2, AddressSplits
<1>5. Dequantized(row, column, l).packed = row * words + word
      /\ Dequantized(row, column, l).scales = row * groups + group
  <2>1. Dequantized(row, column, l)
          = [packed |-> row * WordsPerRow(l) + column \div l.perWord, slot |-> column % l.perWord,
             scales |-> row * GroupsPerRow(l) + column \div l.group]
    BY <1>2, DequantizedIs
  <2>2. PICK slot : slot = column % l.perWord
    OBVIOUS
  <2>3. Dequantized(row, column, l)
          = [packed |-> row * words + word, slot |-> slot, scales |-> row * groups + group]
    BY <1>1, <1>3, <1>4, <2>1, <2>2
  <2>4. QED BY <2>3
<1>6. row * words + word \in Below(out * words) /\ row * groups + group \in Below(out * groups)
  BY <1>2, <1>3, <1>4, RowAndColumn
<1>7. QED BY <1>1, <1>5, <1>6

\* What both dispatchers demand of the weights, and of two operands besides.
LEMMA WeightsAre ==
    ASSUME NEW l, QuantizedSound(l), NEW words \in Nat, words = l.out * WordsPerRow(l),
           NEW groups \in Nat, groups = l.out * GroupsPerRow(l)
    PROVE  Cuda!WeightsDemanded(l) = [packed |-> words * 4, scales |-> groups * 2, biases |-> groups * 2]
<1>1. Cuda!WordsPerRow(l) = WordsPerRow(l) /\ Cuda!GroupsPerRow(l) = GroupsPerRow(l)
  BY DEF Cuda!WordsPerRow, WordsPerRow, Cuda!GroupsPerRow, GroupsPerRow
<1>2. QED BY <1>1 DEF Cuda!WeightsDemanded, Cuda!U32Bytes, Cuda!Bf16Bytes

\* A look-up reads one row of the matrix.
LEMMA EmbedReaches ==
    ASSUME NEW a, QuantizedSound(a.layout), a.tokenId \in Nat, a.tokenId < a.layout.out,
           NEW granule \in {1, 4}, NEW stores, Computes(stores, EmbedReference(a.layout, a.tokenId))
    PROVE  Fits(EmbedTouches(stores, granule), Cuda!EmbedDemands(a), granule)
<1>1. PICK l : l = a.layout
  OBVIOUS
<1>0. PICK row \in Nat : row = a.tokenId
  OBVIOUS
<1>2. PICK c \in Nat, words \in Nat, groups \in Nat :
         c = l.in /\ words = l.out * WordsPerRow(l) /\ groups = l.out * GroupsPerRow(l)
  BY <1>0, <1>1, WordsAre, NaturalProduct
<1>3. PICK reference : reference = EmbedReference(l, row)
  OBVIOUS
<1>4. At(stores) = DOMAIN reference
      /\ \A w \in Written(stores) : w.at \in DOMAIN reference /\ w.value = reference[w.at]
  BY <1>0, <1>1, <1>3, WrittenAre
<1>5. DOMAIN reference = Below(c) /\ \A e \in Below(c) : reference[e] = Dequantized(row, e, l)
  BY <1>2, <1>3 DEF EmbedReference
<1>6. \A w \in Written(stores) : w.value.packed \in Below(words) /\ w.value.scales \in Below(groups)
  <2> SUFFICES ASSUME NEW w \in Written(stores)
               PROVE  w.value.packed \in Below(words) /\ w.value.scales \in Below(groups)
    OBVIOUS
  <2>1. PICK e \in Below(c) : w.value = Dequantized(row, e, l)
    BY <1>4, <1>5
  <2>2. row \in Below(l.out) /\ e \in Below(l.in)
    BY <1>0, <1>1, <1>2, WordsAre DEF Below
  <2>3. QED BY <1>0, <1>1, <1>2, <2>1, <2>2, DequantizedWithin
<1>7. PICK packed, scales, output :
         /\ packed = Bytes({w.value.packed : w \in Written(stores)}, 4, granule)
         /\ scales = Bytes({w.value.scales : w \in Written(stores)}, 2, granule)
         /\ output = Bytes(At(stores), 4, granule)
  OBVIOUS
<1>8. /\ packed \in Int /\ words * 4 \in Int /\ packed <= InWhole(words * 4, granule)
      /\ scales \in Int /\ groups * 2 \in Int /\ scales <= InWhole(groups * 2, granule)
      /\ output \in Int /\ c * 4 \in Int /\ output <= InWhole(c * 4, granule)
  <2>1. {w.value.packed : w \in Written(stores)} \in SUBSET Below(words)
        /\ {w.value.scales : w \in Written(stores)} \in SUBSET Below(groups)
        /\ At(stores) \in SUBSET Below(c)
    BY <1>4, <1>5, <1>6
  <2>2. QED BY <1>7, <2>1, BytesWithin
<1>9. EmbedTouches(stores, granule) = [packed |-> packed, scales |-> scales, biases |-> scales, output |-> output]
  BY <1>7 DEF EmbedTouches
<1>10. Cuda!EmbedDemands(a)
         = [operand \in {"packed", "scales", "biases", "output"} |->
               IF operand = "packed" THEN words * 4
               ELSE IF operand = "output" THEN c * 4 ELSE groups * 2]
  <2>1. Cuda!WeightsDemanded(l) = [packed |-> words * 4, scales |-> groups * 2, biases |-> groups * 2]
    BY <1>0, <1>1, <1>2, WeightsAre
  <2>2. Cuda!EmbedDemands(a) = Cuda!Joined(Cuda!WeightsDemanded(l), [output |-> c * 4])
    BY <1>0, <1>1, <1>2 DEF Cuda!EmbedDemands, Cuda!ActivationBytes
  <2>3. QED BY <2>1, <2>2 DEF Cuda!Joined
<1>11. QED BY <1>0, <1>1, <1>3, <1>8, <1>9, <1>10 DEF Fits

\* A query's head has the keys of one of the heads that have them.
LEMMA KvHeadIs ==
    ASSUME NEW heads \in Nat, NEW kvHeads \in Nat, kvHeads > 0, heads % kvHeads = 0,
           NEW head \in Below(heads)
    PROVE  head \div (heads \div kvHeads) \in Below(kvHeads)
<1>1. PICK ratio \in Nat, r \in Nat :
         ratio = heads \div kvHeads /\ r = heads % kvHeads /\ heads = kvHeads * ratio + r
  BY Division
<1>2. r = 0
  BY <1>1
<1>3. heads = kvHeads * ratio
  BY <1>1, <1>2
<1>4. head \in Below(kvHeads * ratio)
  BY <1>3
<1>5. PICK q \in Nat : q < kvHeads /\ head \div ratio = q
  BY <1>4, AddressSplits
<1>6. QED BY <1>1, <1>5 DEF Below

\* A position a query looks at is in the cache.
LEMMA SlotWithin ==
    ASSUME NEW s, AttentionSound(s), s.capacity > 0, ~ s.circular => s.position + s.tokens <= s.capacity,
           NEW token \in Below(s.tokens),
           NEW p \in ReferenceFirstVisible(s.position + token + 1, s) .. s.position + token
    PROVE  CacheSlot(p, s) \in Below(s.capacity)
<1>1. PICK capacity \in Nat, position \in Nat, tokens \in Nat, window \in Nat :
         /\ capacity = s.capacity /\ position = s.position /\ tokens = s.tokens /\ window = s.window
         /\ capacity > 0 /\ s.circular \in BOOLEAN
  BY DEF AttentionSound
<1>2. token \in Nat /\ token < tokens
  BY <1>1 DEF Below
<1>3. PICK length \in Nat : length = position + token + 1
  BY <1>1, <1>2
<1>4. PICK first : first = ReferenceFirstVisible(length, s)
  OBVIOUS
<1>5. first \in Int /\ first >= 0
  <2>1. PICK v \in Nat : v = IF window > 0 /\ length > window THEN length - window ELSE 0
    BY <1>1, <1>3
  <2>2. PICK o \in Nat : o = IF s.circular /\ length > capacity THEN length - capacity ELSE 0
    BY <1>1, <1>3
  <2>3. FirstVisible(length, s) = Max({v, o})
    BY <1>1, <2>1, <2>2 DEF FirstVisible
  <2>4. Max({v, o}) \in Nat
    BY <2>1, <2>2, MaxOfTwo
  <2>5. QED BY <1>4, <2>3, <2>4, SameFirst
<1>6. p \in Nat /\ p <= position + token
  BY <1>1, <1>2, <1>3, <1>4, <1>5
<1>7. CASE s.circular
  <2>1. PICK q \in Nat, r \in Nat : q = p \div capacity /\ r = p % capacity /\ r < capacity
    BY <1>1, <1>6, Division
  <2>2. CacheSlot(p, s) = r
    BY <1>1, <1>7, <2>1 DEF CacheSlot
  <2>3. QED BY <1>1, <2>1, <2>2 DEF Below
<1>8. CASE ~ s.circular
  <2>1. CacheSlot(p, s) = p /\ position + tokens <= capacity
    BY <1>1, <1>8 DEF CacheSlot
  <2>2. QED BY <1>1, <1>2, <1>6, <2>1 DEF Below
<1>9. QED BY <1>7, <1>8

\* What a query's head looks at for one position, by the elements' addresses.
LEMMA LooksWithin ==
    ASSUME NEW s, AttentionSound(s), s.capacity > 0, s.kvHeads > 0, s.heads % s.kvHeads = 0,
           ~ s.circular => s.position + s.tokens <= s.capacity,
           NEW e \in Below(s.tokens * s.heads * s.headDim), NEW row \in AttentionOf(e, s)
    PROVE  /\ row.value \in Below(s.kvHeads * s.capacity * s.headDim)
           /\ \A f \in BagToSet(row.query) :
                 /\ f.query \in Below(s.tokens * s.heads * s.headDim)
                 /\ f.key \in Below(s.kvHeads * s.capacity * s.headDim)
<1>1. PICK heads \in Nat, kvHeads \in Nat, tokens \in Nat, dim \in Nat, capacity \in Nat :
         /\ heads = s.heads /\ kvHeads = s.kvHeads /\ tokens = s.tokens /\ dim = s.headDim
         /\ capacity = s.capacity
  BY DEF AttentionSound
<1>2. PICK token \in Below(tokens), head \in Below(heads), i \in Below(dim) : e = HeadAt(token, head, i, heads, dim)
  BY <1>1, HeadsAre
<1>3. PICK query : query = (token * heads + head) * dim
  OBVIOUS
<1>4. e % dim = i /\ (e \div dim) % heads = head /\ e \div (heads * dim) = token /\ e - (e % dim) = query
  BY <1>2, <1>3, HeadIs DEF IsHead
<1>5. PICK p \in ReferenceFirstVisible(s.position + token + 1, s) .. s.position + token :
         row = Looked(query, KvRow(head, p, s), i, dim)
  <2>1. AttentionOf(e, s)
          = {Looked(query, KvRow(head, p, s), i, dim) :
                p \in ReferenceFirstVisible(s.position + token + 1, s) .. s.position + token}
    BY <1>1, <1>4 DEF AttentionOf
  <2>2. QED BY <2>1
<1>6. PICK slot \in Below(capacity) : slot = CacheSlot(p, s)
  BY <1>1, <1>5, SlotWithin
<1>7. PICK kv \in Below(kvHeads) : kv = head \div (heads \div kvHeads)
  BY <1>1, <1>2, KvHeadIs
<1>8. PICK key : key = (kv * capacity + slot) * dim /\ key = KvRow(head, p, s)
  BY <1>1, <1>6, <1>7 DEF KvRow
<1>9. ASSUME NEW d \in Below(dim)
      PROVE  query + d \in Below(tokens * heads * dim) /\ key + d \in Below(kvHeads * capacity * dim)
  <2>1. HeadAt(token, head, d, heads, dim) = query + d /\ HeadAt(kv, slot, d, capacity, dim) = key + d
    BY <1>3, <1>8 DEF HeadAt
  <2>2. HeadAt(token, head, d, heads, dim) \in Below(tokens * heads * dim)
    BY HeadIs DEF IsHead
  <2>3. HeadAt(kv, slot, d, capacity, dim) \in Below(kvHeads * capacity * dim)
    BY HeadIs DEF IsHead
  <2>4. QED BY <2>1, <2>2, <2>3
<1>10. PICK S : S = {[query |-> query + d, key |-> key + d] : d \in Below(dim)}
  OBVIOUS
<1>11. row.value = key + i /\ BagToSet(row.query) = S
  <2>1. row = [query |-> SetToBag(S), value |-> key + i]
    BY <1>5, <1>8, <1>10 DEF Looked, Dotted
  <2>2. row.query = SetToBag(S) /\ row.value = key + i
    BY <2>1
  <2>3. QED BY <2>2, TermsOf
<1>12. \A f \in S : f.query \in Below(tokens * heads * dim) /\ f.key \in Below(kvHeads * capacity * dim)
  BY <1>9, <1>10
<1>13. QED BY <1>1, <1>9, <1>11, <1>12

\* A launch that attends as the reference does, attentionKernel's or the
\* shader's, looks only at rows the cache has and at its own queries, for
\* every accepted window, ring, group of heads and position.
THEOREM AttentionReaches ==
    ASSUME NEW s, AttentionSound(s), s.capacity > 0, s.kvHeads > 0, s.heads % s.kvHeads = 0,
           ~ s.circular => s.position + s.tokens <= s.capacity,
           NEW granule \in {1, 4}, NEW stores, Computes(stores, AttentionReference(s))
    PROVE  Fits(AttentionTouches(stores, granule), Cuda!AttentionDemands(s), granule)
<1>1. PICK n \in Nat, c \in Nat : n = s.tokens * s.heads * s.headDim /\ c = s.kvHeads * s.capacity * s.headDim
  <2>1. PICK heads \in Nat, kvHeads \in Nat, tokens \in Nat, dim \in Nat, capacity \in Nat :
           /\ heads = s.heads /\ kvHeads = s.kvHeads /\ tokens = s.tokens /\ dim = s.headDim
           /\ capacity = s.capacity
    BY DEF AttentionSound
  <2>2. PICK m \in Nat, k \in Nat : m = tokens * heads /\ k = kvHeads * capacity
    BY NaturalProduct
  <2>3. m * dim \in Nat /\ k * dim \in Nat
    BY NaturalProduct
  <2>4. QED BY <2>1, <2>2, <2>3
<1>2. PICK reference : reference = AttentionReference(s)
  OBVIOUS
<1>3. At(stores) = DOMAIN reference
      /\ \A w \in Written(stores) : w.at \in DOMAIN reference /\ w.value = reference[w.at]
  BY <1>2, WrittenAre
<1>4. DOMAIN reference = Below(n) /\ \A e \in Below(n) : reference[e] = AttentionOf(e, s)
  BY <1>1, <1>2, AttentionReferenceIs
<1>5. PICK seen : seen = UNION {w.value : w \in Written(stores)}
  OBVIOUS
<1>6. PICK factors : factors = UNION {BagToSet(row.query) : row \in seen}
  OBVIOUS
<1>7. \A row \in seen : \E e \in Below(n) : row \in AttentionOf(e, s)
  <2> SUFFICES ASSUME NEW row \in seen PROVE \E e \in Below(n) : row \in AttentionOf(e, s)
    OBVIOUS
  <2>1. PICK w \in Written(stores) : row \in w.value
    BY <1>5
  <2>2. QED BY <1>3, <1>4, <2>1
<1>8. \A row \in seen :
         /\ row.value \in Below(c)
         /\ \A f \in BagToSet(row.query) : f.query \in Below(n) /\ f.key \in Below(c)
  BY <1>1, <1>7, LooksWithin
<1>9. /\ {row.value : row \in seen} \in SUBSET Below(c)
      /\ {f.query : f \in factors} \in SUBSET Below(n)
      /\ {f.key : f \in factors} \in SUBSET Below(c)
      /\ At(stores) \in SUBSET Below(n)
  BY <1>3, <1>4, <1>6, <1>8
<1>10. PICK queries, keys, values, output :
         /\ queries = Bytes({f.query : f \in factors}, 4, granule)
         /\ keys = Bytes({f.key : f \in factors}, 2, granule)
         /\ values = Bytes({row.value : row \in seen}, 2, granule)
         /\ output = Bytes(At(stores), 4, granule)
  OBVIOUS
<1>11. /\ queries \in Int /\ n * 4 \in Int /\ queries <= InWhole(n * 4, granule)
       /\ keys \in Int /\ c * 2 \in Int /\ keys <= InWhole(c * 2, granule)
       /\ values \in Int /\ values <= InWhole(c * 2, granule)
       /\ output \in Int /\ output <= InWhole(n * 4, granule)
  BY <1>9, <1>10, BytesWithin
<1>12. AttentionTouches(stores, granule)
         = [queries |-> queries, keyCache |-> keys, valueCache |-> values, output |-> output]
  BY <1>5, <1>6, <1>10 DEF AttentionTouches
<1>13. Cuda!AttentionDemands(s)
         = [queries |-> n * 4, output |-> n * 4, keyCache |-> c * 2, valueCache |-> c * 2]
  BY <1>1 DEF Cuda!AttentionDemands, Cuda!ActivationBytes, Cuda!KvBytes
<1>14. QED BY <1>2, <1>11, <1>12, <1>13 DEF Fits
=============================================================================
