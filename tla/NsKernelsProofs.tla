--------------------------- MODULE NsKernelsProofs ---------------------------
(***************************************************************************)
(* The lowering and the kernels, proved for every shape, every width and   *)
(* every quantization (MCNsKernels checks the small ones).                 *)
(***************************************************************************)
EXTENDS NsKernels, RecursionLemmas, SequenceTheorems, FiniteSetTheorems

-----------------------------------------------------------------------------
(* The recursive helpers: the size of a shape, a power, a sum.              *)

IsProduct(s) == \E f \in [0..Len(s) -> Nat] :
                  /\ f[0] = 1 /\ Numel(s) = f[Len(s)]
                  /\ \A i \in 1..Len(s) : f[i] = s[i] * f[i - 1]

LEMMA Product ==
  ASSUME NEW s \in Seq(Nat)
  PROVE  IsProduct(s)
<1> DEFINE n == Len(s)
           P(f) == f = [i \in 0..n |-> IF i = 0 THEN 1 ELSE s[i] * f[i - 1]]
           h == CHOOSE f : P(f)
           next == [i \in 1..n |-> [v \in Nat |-> s[i] * v]]
<1>1. n \in Nat /\ \A i \in 1..n : s[i] \in Nat
  OBVIOUS
<1>2. Numel(s) = h[n]
  BY DEF Numel
<1> HIDE DEF n, h
<1>3. next \in [1..n -> [Nat -> Nat]]
  <2>1. \A i \in 1..n : [v \in Nat |-> s[i] * v] \in [Nat -> Nat]
    BY <1>1
  <2> QED
    BY <2>1
<1>4. \A i \in 1..n : \A v \in Nat : next[i][v] = s[i] * v
  OBVIOUS
<1> HIDE DEF next
<1>5. Iterated(n, Nat, 1, next)
  BY <1>1, <1>3, Recursion
<1>6. PICK f \in [0..n -> Nat] : f[0] = 1 /\ \A i \in 1..n : f[i] = next[i][f[i - 1]]
  BY <1>5 DEF Iterated
<1>7. \A i \in 0..n : f[i] = IF i = 0 THEN 1 ELSE s[i] * f[i - 1]
  <2> SUFFICES ASSUME NEW i \in 0..n, i # 0 PROVE f[i] = s[i] * f[i - 1]
    BY <1>6
  <2>1. i \in 1..n /\ i - 1 \in 0..n
    BY <1>1
  <2> QED
    BY <1>4, <1>6, <2>1
<1>8. P(f)
  BY <1>7
<1>9. P(h)
  BY <1>8 DEF h
<1>10. DOMAIN h = 0..n /\ h[0] = 1 /\ \A i \in 1..n : h[i] = s[i] * h[i - 1]
  <2>1. \A i \in 0..n : h[i] = IF i = 0 THEN 1 ELSE s[i] * h[i - 1]
    BY <1>9
  <2>2. DOMAIN h = 0..n
    BY <1>9
  <2> QED
    BY <1>1, <2>1, <2>2
<1>11. h \in [0..n -> Nat]
  <2>1. h = [i \in 0..n |-> h[i]]
    BY <1>9
  <2>2. ASSUME NEW i \in 1..n, h[i - 1] \in Nat
        PROVE  h[i] \in Nat
    <3>1. h[i] = s[i] * h[i - 1] /\ s[i] \in Nat
      BY <1>1, <1>10
    <3> QED
      BY <2>2, <3>1
  <2>3. h[0] \in Nat
    BY <1>10
  <2>4. Within(h, n, Nat)
    BY <1>1, <2>2, <2>3, AllWithin
  <2> QED
    BY <2>1, <2>4 DEF Within
<1> QED
  BY <1>2, <1>10, <1>11 DEF IsProduct, n

\* Each power is twice the one before.
IsPower(n) == \E f \in [0..n -> Positive] :
                /\ f[0] = 1 /\ Pow2(n) = f[n]
                /\ \A i \in 1..n : f[i] = 2 * f[i - 1]

LEMMA Power ==
  ASSUME NEW n \in Nat
  PROVE  IsPower(n)
<1> DEFINE P(f) == f = [i \in 0..n |-> IF i = 0 THEN 1 ELSE 2 * f[i - 1]]
           h == CHOOSE f : P(f)
           next == [i \in 1..n |-> [v \in Positive |-> 2 * v]]
<1>1. Pow2(n) = h[n]
  BY DEF Pow2
<1> HIDE DEF h
<1>2. next \in [1..n -> [Positive -> Positive]]
  BY DEF Positive
<1>3. \A i \in 1..n : \A v \in Positive : next[i][v] = 2 * v
  OBVIOUS
<1> HIDE DEF next
<1>4. Iterated(n, Positive, 1, next)
  <2>1. 1 \in Positive
    BY DEF Positive
  <2> QED
    BY <1>2, <2>1, Recursion
<1>5. PICK f \in [0..n -> Positive] :
        f[0] = 1 /\ \A i \in 1..n : f[i] = next[i][f[i - 1]]
  BY <1>4 DEF Iterated
<1>6. \A i \in 0..n : f[i] = IF i = 0 THEN 1 ELSE 2 * f[i - 1]
  <2> SUFFICES ASSUME NEW i \in 0..n, i # 0 PROVE f[i] = 2 * f[i - 1]
    BY <1>5
  <2>1. i \in 1..n /\ i - 1 \in 0..n
    OBVIOUS
  <2> QED
    BY <1>3, <1>5, <2>1
<1>7. P(f)
  BY <1>6
<1>8. P(h)
  BY <1>7 DEF h
<1>9. DOMAIN h = 0..n /\ h[0] = 1 /\ \A i \in 1..n : h[i] = 2 * h[i - 1]
  <2>1. \A i \in 0..n : h[i] = IF i = 0 THEN 1 ELSE 2 * h[i - 1]
    BY <1>8
  <2>2. DOMAIN h = 0..n
    BY <1>8
  <2> QED
    BY <2>1, <2>2
<1>10. h \in [0..n -> Positive]
  <2>1. h = [i \in 0..n |-> h[i]]
    BY <1>8
  <2>2. ASSUME NEW i \in 1..n, h[i - 1] \in Positive
        PROVE  h[i] \in Positive
    BY <1>9, <2>2 DEF Positive
  <2>3. h[0] \in Positive
    BY <1>9 DEF Positive
  <2>4. Within(h, n, Positive)
    BY <2>2, <2>3, AllWithin
  <2> QED
    BY <2>1, <2>4 DEF Within
<1> QED
  BY <1>1, <1>9, <1>10 DEF IsPower

LEMMA PowerType == ASSUME NEW n \in Nat PROVE Pow2(n) \in Positive
BY Power DEF IsPower

LEMMA PowerOfZero == Pow2(0) = 1
<1>1. IsPower(0)
  BY Power
<1> QED
  BY <1>1 DEF IsPower

LEMMA PowerOfNext ==
  ASSUME NEW n \in Nat
  PROVE  Pow2(n + 1) = 2 * Pow2(n)
<1>1. PICK f \in [0..n -> Positive] :
        f[0] = 1 /\ Pow2(n) = f[n] /\ \A i \in 1..n : f[i] = 2 * f[i - 1]
  BY Power DEF IsPower
<1>2. PICK g \in [0..(n + 1) -> Positive] :
        g[0] = 1 /\ Pow2(n + 1) = g[n + 1] /\ \A i \in 1..(n + 1) : g[i] = 2 * g[i - 1]
  <2>1. IsPower(n + 1)
    BY Power
  <2> QED
    BY <2>1 DEF IsPower
<1> DEFINE S == {i \in Nat : i \in 0..n => f[i] = g[i]}
<1>3. 0 \in S
  BY <1>1, <1>2
<1>4. ASSUME NEW i \in Nat, i \in S
      PROVE  i + 1 \in S
  <2> SUFFICES ASSUME i + 1 \in 0..n PROVE f[i + 1] = g[i + 1]
    OBVIOUS
  <2>1. f[i] = g[i] /\ i + 1 \in 1..n /\ i + 1 \in 1..(n + 1) /\ (i + 1) - 1 = i
    BY <1>4
  <2> QED
    BY <1>1, <1>2, <2>1
<1> HIDE DEF S
<1>5. n \in S
  BY <1>3, <1>4, Induction
<1>6. f[n] = g[n]
  BY <1>5 DEF S
<1>7. n + 1 \in 1..(n + 1) /\ (n + 1) - 1 = n
  OBVIOUS
<1> QED
  BY <1>1, <1>2, <1>6, <1>7

LEMMA SumType ==
  ASSUME NEW p, NEW z \in Int, NEW T, Numel(p.x) \in Nat,
         \A i \in Offsets(p.x) : p.xs[i] \in Int
  PROVE  CenteredSum(p, z, T) \in Int
<1> DEFINE n == Numel(p.x)
           Term(i) == IF i - 1 \in T THEN p.xs[i - 1] - z ELSE 0
           P(f) == f = [i \in 0..n |-> IF i = 0 THEN 0 ELSE f[i - 1] + Term(i)]
           h == CHOOSE f : P(f)
           next == [i \in 1..n |-> [v \in Int |-> v + Term(i)]]
<1>1. CenteredSum(p, z, T) = h[n]
  BY DEF CenteredSum
<1>2. \A i \in 1..n : Term(i) \in Int
  <2> SUFFICES ASSUME NEW i \in 1..n PROVE Term(i) \in Int
    OBVIOUS
  <2>1. i - 1 \in Offsets(p.x)
    BY DEF Offsets
  <2> QED
    BY <2>1
<1>0. n \in Nat
  OBVIOUS
<1> HIDE DEF h, Term, n
<1>3. next \in [1..n -> [Int -> Int]]
  BY <1>2
<1>4. \A i \in 1..n : \A v \in Int : next[i][v] = v + Term(i)
  OBVIOUS
<1> HIDE DEF next
<1>5. Iterated(n, Int, 0, next)
  <2>1. 0 \in Int
    OBVIOUS
  <2> QED
    BY <1>0, <1>3, <2>1, Recursion, Zenon
<1>6. PICK f \in [0..n -> Int] : f[0] = 0 /\ \A i \in 1..n : f[i] = next[i][f[i - 1]]
  BY <1>5 DEF Iterated
<1>7. \A i \in 0..n : f[i] = IF i = 0 THEN 0 ELSE f[i - 1] + Term(i)
  <2> SUFFICES ASSUME NEW i \in 0..n, i # 0 PROVE f[i] = f[i - 1] + Term(i)
    BY <1>6
  <2>1. i \in 1..n /\ i - 1 \in 0..n
    BY <1>0
  <2> QED
    BY <1>4, <1>6, <2>1
<1>8. P(f)
  BY <1>7
<1>9. P(h)
  BY <1>8 DEF h
<1>10. h[0] = 0 /\ \A i \in 1..n : h[i] = h[i - 1] + Term(i)
  <2>1. \A i \in 0..n : h[i] = IF i = 0 THEN 0 ELSE h[i - 1] + Term(i)
    BY <1>9
  <2> QED
    BY <1>0, <2>1
<1>11. ASSUME NEW i \in 1..n, h[i - 1] \in Int
       PROVE  h[i] \in Int
  BY <1>2, <1>10, <1>11
<1>12. Within(h, n, Int)
  BY <1>0, <1>10, <1>11, AllWithin
<1> QED
  BY <1>0, <1>1, <1>12 DEF Within

LEMMA NumelType == ASSUME NEW s \in Seq(Nat) PROVE Numel(s) \in Nat
BY Product DEF IsProduct

\* The sizes of shapes of up to four dimensions.
LEMMA NumelOf ==
  ASSUME NEW s \in Seq(Nat)
  PROVE  /\ Len(s) = 1 => Numel(s) = s[1]
         /\ Len(s) = 2 => Numel(s) = s[2] * s[1]
         /\ Len(s) = 3 => Numel(s) = s[3] * (s[2] * s[1])
         /\ Len(s) = 4 => Numel(s) = s[4] * (s[3] * (s[2] * s[1]))
<1>1. PICK f \in [0..Len(s) -> Nat] :
        /\ f[0] = 1 /\ Numel(s) = f[Len(s)]
        /\ \A i \in 1..Len(s) : f[i] = s[i] * f[i - 1]
  BY Product DEF IsProduct
<1>2. \A i \in 1..Len(s) : s[i] \in Nat
  OBVIOUS
<1>3. CASE Len(s) >= 1
  <2>1. f[1] = s[1]
    BY <1>1, <1>2, <1>3
  <2>2. Len(s) >= 2 => f[2] = s[2] * s[1]
    BY <1>1, <2>1
  <2>3. Len(s) >= 3 => f[3] = s[3] * (s[2] * s[1])
    BY <1>1, <2>2
  <2>4. Len(s) >= 4 => f[4] = s[4] * (s[3] * (s[2] * s[1]))
    BY <1>1, <2>3
  <2>5. Len(s) = 1 => Numel(s) = s[1]
    BY <1>1, <2>1
  <2>6. Len(s) = 2 => Numel(s) = s[2] * s[1]
    BY <1>1, <2>2
  <2>7. Len(s) = 3 => Numel(s) = s[3] * (s[2] * s[1])
    BY <1>1, <2>3
  <2>8. Len(s) = 4 => Numel(s) = s[4] * (s[3] * (s[2] * s[1]))
    BY <1>1, <2>4
  <2> QED
    BY <2>5, <2>6, <2>7, <2>8
<1> QED
  BY <1>3

LEMMA NumelOfFour ==
  ASSUME NEW s \in Seq(Nat), Len(s) = 4
  PROVE  Numel(s) = s[4] * (s[3] * (s[2] * s[1]))
BY NumelOf

\* A shape has elements exactly when each of its dimensions has.
LEMMA PositiveNumel ==
  ASSUME NEW s \in Seq(Positive)
  PROVE  Numel(s) \in Positive
<1>1. s \in Seq(Nat) /\ Len(s) \in Nat /\ \A i \in 1..Len(s) : s[i] \in Positive
  BY DEF Positive
<1>2. PICK f \in [0..Len(s) -> Nat] :
        /\ f[0] = 1 /\ Numel(s) = f[Len(s)]
        /\ \A i \in 1..Len(s) : f[i] = s[i] * f[i - 1]
  BY <1>1, Product DEF IsProduct
<1>3. ASSUME NEW i \in 1..Len(s), f[i - 1] \in Positive
      PROVE  f[i] \in Positive
  <2> DEFINE a == s[i]
             b == f[i - 1]
  <2>1. a \in Nat /\ a > 0 /\ b \in Nat /\ b > 0 /\ f[i] = a * b
    BY <1>1, <1>2, <1>3 DEF Positive
  <2> HIDE DEF a, b
  <2>2. a * b \in Nat /\ a * b > 0
    BY <2>1
  <2> QED
    BY <2>1, <2>2 DEF Positive
<1>4. f[0] \in Positive
  BY <1>2 DEF Positive
<1>5. Within(f, Len(s), Positive)
  BY <1>1, <1>3, <1>4, AllWithin
<1> QED
  BY <1>1, <1>2, <1>5 DEF Within

LEMMA NumelPositive ==
  ASSUME NEW s \in Seq(Nat), Numel(s) > 0
  PROVE  s \in Seq(Positive)
<1>1. PICK f \in [0..Len(s) -> Nat] :
        /\ f[0] = 1 /\ Numel(s) = f[Len(s)]
        /\ \A i \in 1..Len(s) : f[i] = s[i] * f[i - 1]
  BY Product DEF IsProduct
<1>2. Len(s) \in Nat /\ \A i \in 1..Len(s) : s[i] \in Nat
  OBVIOUS
<1>3. ASSUME NEW k \in 1..Len(s), s[k] = 0
      PROVE  FALSE
  <2> DEFINE S == {j \in Nat : j \in k..Len(s) => f[j] = 0}
  <2>1. 0 \in S
    OBVIOUS
  <2>2. ASSUME NEW j \in Nat, j \in S
        PROVE  j + 1 \in S
    <3> SUFFICES ASSUME j + 1 \in k..Len(s) PROVE f[j + 1] = 0
      OBVIOUS
    <3>1. f[j + 1] = s[j + 1] * f[j] /\ s[j + 1] \in Nat /\ f[j] \in Nat
      <4>1. j + 1 \in 1..Len(s) /\ (j + 1) - 1 = j /\ j \in 0..Len(s)
        BY <1>2
      <4> QED
        BY <1>1, <1>2, <4>1
    <3>2. CASE j + 1 = k
      BY <1>3, <3>1, <3>2
    <3>3. CASE j + 1 # k
      <4>1. f[j] = 0
        BY <1>2, <2>2, <3>3
      <4> QED
        BY <3>1, <4>1
    <3> QED
      BY <3>2, <3>3
  <2> HIDE DEF S
  <2>3. \A j \in Nat : j \in S
    BY <2>1, <2>2, Induction
  <2>4. Len(s) \in S
    BY <1>2, <2>3
  <2>5. f[Len(s)] = 0
    BY <1>2, <2>4 DEF S
  <2> QED
    BY <1>1, <2>5
<1>4. \A k \in 1..Len(s) : s[k] \in Positive
  BY <1>2, <1>3 DEF Positive
<1> QED
  BY <1>4

LEMMA DivMod ==
  ASSUME NEW n \in Nat, n > 0, NEW i \in Int, NEW q, q = i \div n, NEW r, r = i % n
  PROVE  q \in Int /\ r \in 0..(n - 1) /\ i = n * q + r
<1>1. q \in Int
  OBVIOUS
<1>2. r \in 0..(n - 1)
  OBVIOUS
<1>3. i = n * q + r
  OBVIOUS
<1> QED
  BY <1>1, <1>2, <1>3

\* Division of k * n + r by n, r below n.
LEMMA Division ==
  ASSUME NEW n \in Nat, NEW k \in Int, NEW r \in 0..(n - 1)
  PROVE  (k * n + r) % n = r /\ (k * n + r) \div n = k
<1>1. n > 0 /\ k * n + r \in Int
  OBVIOUS
<1> DEFINE i == k * n + r
           q == i \div n
           d == i % n
<1>2. d \in 0..(n - 1) /\ q \in Int /\ i = n * q + d
  BY <1>1
<1> HIDE DEF q, d
<1>3. k = q
  <2>1. k * n - n * q \in Int /\ k * n - n * q = d - r
    BY <1>1, <1>2
  <2>2. CASE k > q
    <3>1. PICK e \in Nat : k = q + 1 + e
      <4>1. k - q - 1 \in Nat /\ k = q + 1 + (k - q - 1)
        BY <1>2, <2>2
      <4> QED
        BY <4>1
    <3>2. k * n = n * q + n + e * n /\ e * n >= 0
      BY <1>2, <3>1
    <3> QED
      BY <1>2, <2>1, <3>2
  <2>3. CASE k < q
    <3>1. PICK e \in Nat : q = k + 1 + e
      <4>1. q - k - 1 \in Nat /\ q = k + 1 + (q - k - 1)
        BY <1>2, <2>3
      <4> QED
        BY <4>1
    <3>2. n * q = k * n + n + e * n /\ e * n >= 0
      BY <1>2, <3>1
    <3> QED
      BY <1>2, <2>1, <3>2
  <2> QED
    BY <1>2, <2>2, <2>3
<1>4. d = r
  BY <1>2, <1>3
<1> QED
  BY <1>3, <1>4 DEF d, q
-----------------------------------------------------------------------------
(* The fixed-point arithmetic stays among the integers.                     *)

LEMMA PositiveProduct ==
  ASSUME NEW a \in Positive, NEW b \in Positive
  PROVE  a * b \in Positive
<1>1. a \in Nat /\ a > 0 /\ b \in Nat /\ b > 0
  BY DEF Positive
<1>2. a * b \in Nat /\ a * b > 0
  BY <1>1
<1> QED
  BY <1>2 DEF Positive

LEMMA RoundType ==
  ASSUME NEW r, r[1] \in Int, r[2] \in Positive
  PROVE  Round(r) \in Int
<1> DEFINE a == r[1]
           b == r[2]
<1>1. a \in Int /\ b \in Nat /\ b > 0
  BY DEF Positive
<1>2. Round(r) = IF 2 * (a % b) > b \/ (2 * (a % b) = b /\ (a \div b) % 2 = 1)
                 THEN (a \div b) + 1 ELSE a \div b
  BY DEF Round
<1> HIDE DEF a, b
<1>3. a \div b \in Int
  BY <1>1
<1> QED
  BY <1>2, <1>3

LEMMA PowOf2Type ==
  ASSUME NEW e \in Int
  PROVE  PowOf2(e)[1] \in Positive /\ PowOf2(e)[2] \in Positive
<1>1. CASE e >= 0
  <2>1. Pow2(e) \in Positive /\ 1 \in Positive
    BY <1>1, PowerType DEF Positive
  <2>2. PowOf2(e) = <<Pow2(e), 1>>
    BY <1>1 DEF PowOf2
  <2> QED
    BY <2>1, <2>2
<1>2. CASE e < 0
  <2>1. -e \in Nat
    BY <1>2
  <2>2. Pow2(-e) \in Positive /\ 1 \in Positive
    BY <2>1, PowerType DEF Positive
  <2>3. PowOf2(e) = <<1, Pow2(-e)>>
    BY <1>2 DEF PowOf2
  <2> QED
    BY <2>2, <2>3
<1> QED
  BY <1>1, <1>2

LEMMA ExponentType == ASSUME NEW r PROVE Exponent(r) \in Int
<1> DEFINE T == {e \in Exponents : ~Below(r, PowOf2(e))}
<1>1. IsFiniteSet(Exponents)
  <2>1. -(MaxShift + 1) \in Int /\ MaxShift \in Int
    BY WidthAssumption
  <2> QED
    BY <2>1, FS_Interval DEF Exponents
<1>2. IsFiniteSet(T)
  BY <1>1, FS_Subset
<1>3. Cardinality(T) \in Nat
  BY <1>2, FS_CardinalityType
<1>4. Exponent(r) = Cardinality(T) - (MaxShift + 1)
  BY DEF Exponent
<1> HIDE DEF T
<1> QED
  BY <1>3, <1>4, WidthAssumption

\* A number that may be rounded: an integer over a positive one.
Ratio(r) == r[1] \in Int /\ r[2] \in Positive
\* What a requantization takes.
Pair(p) == p.m \in Int /\ p.s \in Int

LEMMA QuantizeMultiplierType ==
  ASSUME NEW r, Ratio(r)
  PROVE  Pair(QuantizeMultiplier(r))
<1> DEFINE e == Exponent(r)
           top == Over(Times(r, PowOf2(Frac)), PowOf2(e))
           m == Round(top)
<1>1. e \in Int
  BY ExponentType
<1>2. m \in Int
  <2>1. /\ PowOf2(Frac)[1] \in Positive /\ PowOf2(Frac)[2] \in Positive
        /\ PowOf2(e)[1] \in Positive /\ PowOf2(e)[2] \in Positive
    BY <1>1, PowOf2Type, WidthAssumption
  <2>2. /\ top[1] = (r[1] * PowOf2(Frac)[1]) * PowOf2(e)[2]
        /\ top[2] = (r[2] * PowOf2(Frac)[2]) * PowOf2(e)[1]
    BY DEF Over, Times
  <2>3. r[1] * PowOf2(Frac)[1] \in Int
    BY <2>1 DEF Ratio, Positive
  <2>4. top[1] \in Int
    BY <2>1, <2>2, <2>3 DEF Positive
  <2>5. r[2] * PowOf2(Frac)[2] \in Positive
    BY <2>1, PositiveProduct DEF Ratio
  <2>6. top[2] \in Positive
    BY <2>1, <2>2, <2>5, PositiveProduct
  <2> HIDE DEF top
  <2> QED
    BY <2>4, <2>6, RoundType
<1>3. QuantizeMultiplier(r) = IF m = Pow2(Frac) THEN [m |-> m \div 2, s |-> e + 1]
                              ELSE [m |-> m, s |-> e]
  BY DEF QuantizeMultiplier
<1> HIDE DEF m, e
<1>4. m \div 2 \in Int /\ e + 1 \in Int
  BY <1>1, <1>2
<1> QED
  BY <1>1, <1>2, <1>3, <1>4 DEF Pair

LEMMA IdentityType == Pair(Identity) /\ Pow2(Frac - 1) \in Positive
<1>1. Frac - 1 \in Nat
  BY WidthAssumption
<1>2. Pow2(Frac - 1) \in Positive
  BY <1>1, PowerType
<1> QED
  BY <1>2 DEF Identity, Pair, Positive

LEMMA RequantizeType ==
  ASSUME NEW v \in Int, NEW p, Pair(p)
  PROVE  Requantize(v, p) \in Int
<1> DEFINE left == Pow2(Most(p.s, 0))
           whole == Pow2(Frac)
           half == Pow2(Frac - 1)
           right == Pow2(Most(-p.s, 0))
           high == (v * left * p.m + half) \div whole
           threshold == (right - 1) \div 2 + (IF high < 0 THEN 1 ELSE 0)
<1>1. left \in Positive /\ right \in Positive /\ whole \in Positive /\ half \in Positive
  <2>1. Most(p.s, 0) \in Nat /\ Most(-p.s, 0) \in Nat
    BY DEF Most, Pair
  <2> QED
    BY <2>1, PowerType, IdentityType, WidthAssumption
<1>2. Requantize(v, p) = high \div right + (IF high % right > threshold THEN 1 ELSE 0)
  BY DEF Requantize
<1>3. p.m \in Int
  BY DEF Pair
<1> HIDE DEF left, right, whole, half
<1>4. /\ left \in Int /\ half \in Int /\ whole \in Nat /\ whole > 0
      /\ right \in Nat /\ right > 0
  BY <1>1 DEF Positive
<1>5. high \in Int
  <2>1. v * left \in Int
    BY <1>4
  <2>2. v * left * p.m \in Int
    BY <1>3, <2>1
  <2>3. v * left * p.m + half \in Int
    BY <1>4, <2>2
  <2> DEFINE w == v * left * p.m + half
  <2>4. w \in Int
    BY <2>3
  <2> HIDE DEF w
  <2>5. w \div whole \in Int
    BY <1>4, <2>4
  <2> QED
    BY <2>5 DEF w
<1> HIDE DEF high, threshold
<1>6. high \div right \in Int
  BY <1>4, <1>5
<1> QED
  BY <1>2, <1>6

\* A pair that stands for one half shifted left once changes nothing.
LEMMA IdentityIsExact ==
  ASSUME NEW v \in Int
  PROVE  Requantize(v, Identity) = v
<1> DEFINE half == Pow2(Frac - 1)
           high == (v * 2 * half + half) \div (2 * half)
<1>1. half \in Nat /\ half > 0
  BY IdentityType DEF Positive
<1>2. Pow2(0) = 1 /\ Pow2(1) = 2 /\ Pow2(Frac) = 2 * half
  <2>1. Pow2(0 + 1) = 2 * Pow2(0)
    BY PowerOfNext
  <2>2. Frac - 1 \in Nat /\ (Frac - 1) + 1 = Frac
    BY WidthAssumption
  <2>3. Pow2((Frac - 1) + 1) = 2 * half
    BY <2>2, PowerOfNext
  <2> QED
    BY <2>1, <2>2, <2>3, PowerOfZero
<1>3. Identity.m = half /\ Identity.s = 1 /\ Most(1, 0) = 1 /\ Most(-1, 0) = 0
  BY DEF Identity, Most
<1>4. Requantize(v, Identity) =
        LET threshold == (1 - 1) \div 2 + (IF high < 0 THEN 1 ELSE 0)
        IN  high \div 1 + (IF high % 1 > threshold THEN 1 ELSE 0)
  BY <1>2, <1>3 DEF Requantize
<1>5. high = v
  <2> HIDE DEF half
  <2>1. v * 2 * half = v * (2 * half) /\ v * (2 * half) \in Int
    BY <1>1
  <2> DEFINE w == 2 * half
             a == v * w + half
  <2>2. w \in Nat /\ w > 0 /\ half < w /\ half \in Nat
    BY <1>1
  <2>3. a \in Int /\ a = v * w + half /\ v * w \in Int
    BY <2>2
  <2> HIDE DEF w
  <2>4. a \div w = v
    <3>1. half \in 0..(w - 1)
      BY <2>2
    <3> QED
      BY <2>2, <3>1, Division
  <2> QED
    BY <2>1, <2>4 DEF w
<1> HIDE DEF high
<1>6. high % 1 = 0 /\ high \div 1 = v
  BY <1>5
<1> QED
  BY <1>4, <1>5, <1>6
-----------------------------------------------------------------------------
(* What the passes put into an instruction.                                 *)

IsQuantization(q) == q.z \in QMin..QMax /\ q.s[1] \in Positive /\ q.s[2] \in Positive

LEMMA QuantizationType ==
  ASSUME NEW p \in UNION Problems
  PROVE  IsQuantization(p.qx) /\ IsQuantization(p.qy) /\ IsQuantization(p.qo)
<1>1. {p.qx, p.qy, p.qo} \subseteq Quantization
  BY ProblemAssumption
<1>2. \A q \in Quantization : IsQuantization(q)
  BY DEF Quantization, IsQuantization
<1> QED
  BY <1>1, <1>2

LEMMA OverType ==
  ASSUME NEW a, NEW b, Ratio(a), b[1] \in Positive, b[2] \in Positive
  PROVE  Ratio(Over(a, b))
<1>1. Over(a, b)[1] = a[1] * b[2] /\ Over(a, b)[2] = a[2] * b[1]
  BY DEF Over
<1>2. a[1] * b[2] \in Int
  BY DEF Ratio, Positive
<1>3. a[2] * b[1] \in Positive
  BY PositiveProduct DEF Ratio
<1> QED
  BY <1>1, <1>2, <1>3 DEF Ratio

LEMMA TimesType ==
  ASSUME NEW a, NEW b, a[1] \in Positive, a[2] \in Positive,
         b[1] \in Positive, b[2] \in Positive
  PROVE  Times(a, b)[1] \in Positive /\ Times(a, b)[2] \in Positive
<1>1. Times(a, b)[1] = a[1] * b[1] /\ Times(a, b)[2] = a[2] * b[2]
  BY DEF Times
<1> QED
  BY <1>1, PositiveProduct

LEMMA WholeType ==
  ASSUME NEW n \in Positive
  PROVE  Whole(n)[1] \in Positive /\ Whole(n)[2] \in Positive
BY DEF Whole, Positive

LEMMA IsRatio ==
  ASSUME NEW a, a[1] \in Positive, a[2] \in Positive
  PROVE  Ratio(a)
BY DEF Ratio, Positive

LEMMA RequantPairType ==
  ASSUME NEW p \in UNION Problems
  PROVE  Pair(RequantPair(p.qx, p.qo))
<1>1. Ratio(Over(p.qx.s, p.qo.s))
  BY QuantizationType, IsRatio, OverType DEF IsQuantization
<1> QED
  BY <1>1, IdentityType, QuantizeMultiplierType DEF RequantPair

LEMMA SubInstruction ==
  ASSUME NEW p \in UNION Problems, p.op = "sub", Replacement(p) # Kept
  PROVE  LET r == Replacement(p)
         IN  /\ r.target = "sub" /\ r.min = QMin /\ r.max = QMax
             /\ r.zx = p.qx.z /\ r.zy = p.qy.z /\ r.zo = p.qo.z
             /\ Pair(r.px) /\ Pair(r.py) /\ Pair(r.po)
<1> DEFINE top == IF Below(p.qx.s, p.qy.s) THEN p.qy.s ELSE p.qx.s
           top2 == Times(Whole(2), top)
           r == Replacement(p)
<1>1. r = SubReplacement(p)
  BY DEF Replacement
<1>2. r = [target |-> "sub", zx |-> p.qx.z, zy |-> p.qy.z, zo |-> p.qo.z,
           px |-> QuantizeMultiplier(Over(p.qx.s, top2)),
           py |-> QuantizeMultiplier(Over(p.qy.s, top2)),
           po |-> QuantizeMultiplier(Over(top2, Times(p.qo.s, PowOf2(Left)))),
           min |-> QMin, max |-> QMax]
  BY <1>1 DEF SubReplacement
<1>3. IsQuantization(p.qx) /\ IsQuantization(p.qy) /\ IsQuantization(p.qo)
  BY QuantizationType
<1>4. top2[1] \in Positive /\ top2[2] \in Positive
  <2>1. top[1] \in Positive /\ top[2] \in Positive
    BY <1>3 DEF IsQuantization
  <2> HIDE DEF top
  <2>2. Whole(2)[1] \in Positive /\ Whole(2)[2] \in Positive
    BY WholeType DEF Positive
  <2> QED
    BY <2>1, <2>2, TimesType
<1> HIDE DEF top2
<1>5. Pair(QuantizeMultiplier(Over(p.qx.s, top2)))
  BY <1>3, <1>4, IsRatio, OverType, QuantizeMultiplierType DEF IsQuantization
<1>6. Pair(QuantizeMultiplier(Over(p.qy.s, top2)))
  BY <1>3, <1>4, IsRatio, OverType, QuantizeMultiplierType DEF IsQuantization
<1>7. Pair(QuantizeMultiplier(Over(top2, Times(p.qo.s, PowOf2(Left)))))
  <2>1. PowOf2(Left)[1] \in Positive /\ PowOf2(Left)[2] \in Positive
    BY PowOf2Type, WidthAssumption
  <2> DEFINE t == Times(p.qo.s, PowOf2(Left))
  <2>2. t[1] \in Positive /\ t[2] \in Positive
    BY <1>3, <2>1, TimesType DEF IsQuantization
  <2> HIDE DEF t
  <2>3. Pair(QuantizeMultiplier(Over(top2, t)))
    BY <1>4, <2>2, IsRatio, OverType, QuantizeMultiplierType
  <2> QED
    BY <2>3 DEF t
<1> HIDE DEF r
<1>8. /\ r.target = "sub" /\ r.min = QMin /\ r.max = QMax
      /\ r.zx = p.qx.z /\ r.zy = p.qy.z /\ r.zo = p.qo.z
      /\ Pair(r.px) /\ Pair(r.py) /\ Pair(r.po)
  BY <1>2, <1>5, <1>6, <1>7
<1> QED
  BY <1>8 DEF r

-----------------------------------------------------------------------------
(* Which ratios have a shift that fits.                                     *)

PositiveRatio(r) == r[1] \in Positive /\ r[2] \in Positive

\* What is below a power of two is below the next one.
LEMMA BelowNext ==
  ASSUME NEW r, PositiveRatio(r), NEW k \in Int, Below(r, PowOf2(k))
  PROVE  Below(r, PowOf2(k + 1))
<1> DEFINE a == r[1]
           b == r[2]
<1>1. a \in Nat /\ b \in Nat /\ a > 0 /\ b > 0
  BY DEF PositiveRatio, Positive
<1>2. a * PowOf2(k)[2] < PowOf2(k)[1] * b
  BY DEF Below
<1>3. SUFFICES a * PowOf2(k + 1)[2] < PowOf2(k + 1)[1] * b
  BY DEF Below
<1> HIDE DEF a, b
<1>4. CASE k >= 0
  <2>1. k \in Nat /\ Pow2(k) \in Nat /\ Pow2(k + 1) = 2 * Pow2(k)
    BY <1>4, PowerType, PowerOfNext DEF Positive
  <2>2. PowOf2(k) = <<Pow2(k), 1>> /\ PowOf2(k + 1) = <<Pow2(k + 1), 1>>
    BY <1>4 DEF PowOf2
  <2>3. a < Pow2(k) * b
    BY <1>1, <1>2, <2>1, <2>2
  <2>4. Pow2(k + 1) * b = 2 * (Pow2(k) * b)
    BY <1>1, <2>1
  <2>5. Pow2(k) * b \in Nat
    BY <1>1, <2>1
  <2>6. a * 1 < Pow2(k + 1) * b
    BY <1>1, <2>3, <2>4, <2>5
  <2> QED
    BY <2>2, <2>6
<1>5. CASE k + 1 = 0
  <2>1. Pow2(1) = 2 /\ Pow2(0) = 1
    BY PowerOfZero, PowerOfNext
  <2>2. PowOf2(k) = <<1, 2>> /\ PowOf2(k + 1) = <<1, 1>>
    <3>1. -k = 1 /\ ~(k >= 0)
      BY <1>5
    <3>2. PowOf2(k) = <<1, Pow2(-k)>> /\ PowOf2(0) = <<Pow2(0), 1>>
      BY <3>1 DEF PowOf2
    <3> QED
      BY <1>5, <2>1, <3>1, <3>2
  <2> QED
    BY <1>1, <1>2, <2>2
<1>6. CASE k + 1 < 0
  <2> DEFINE n == -(k + 1)
  <2>1. n \in Nat /\ -k = n + 1 /\ ~(k >= 0) /\ ~(k + 1 >= 0)
    BY <1>6
  <2>2. PowOf2(k) = <<1, Pow2(-k)>> /\ PowOf2(k + 1) = <<1, Pow2(n)>>
    BY <2>1 DEF PowOf2
  <2> HIDE DEF n
  <2>3. Pow2(n) \in Nat /\ Pow2(-k) = 2 * Pow2(n)
    BY <2>1, PowerType, PowerOfNext DEF Positive
  <2>4. a * (2 * Pow2(n)) < b
    BY <1>1, <1>2, <2>2, <2>3
  <2>5. a * Pow2(n) \in Nat /\ a * (2 * Pow2(n)) = 2 * (a * Pow2(n))
    BY <1>1, <2>3
  <2>6. a * Pow2(n) < 1 * b
    BY <1>1, <2>4, <2>5
  <2> QED
    BY <2>2, <2>6
<1> QED
  BY <1>4, <1>5, <1>6

\* The exponent counts the powers of two that are not above the ratio: these are the
\* first ones of Exponents.
LEMMA ExponentIs ==
  ASSUME NEW r, PositiveRatio(r)
  PROVE  \A k \in Exponents : k < Exponent(r) <=> ~Below(r, PowOf2(k))
<1> DEFINE L == MaxShift + 1
           last == MaxShift + L
           C == {x \in Nat : x = last + 1 \/ Below(r, PowOf2(x - L))}
           T == {e \in Exponents : ~Below(r, PowOf2(e))}
<1>1. MaxShift \in Nat /\ L \in Nat /\ last \in Nat /\ Exponents = -L..MaxShift
  BY WidthAssumption DEF Exponents
<1>2. PICK c \in C : \A x \in C : c <= x
  <2>1. C \subseteq Nat /\ last + 1 \in C
    BY <1>1
  <2> HIDE DEF C
  <2> QED
    BY <2>1, LeastNatural
<1>3. c \in Nat /\ c <= last + 1 /\ (c = last + 1 \/ Below(r, PowOf2(c - L)))
  <2>1. last + 1 \in C
    BY <1>1
  <2> QED
    BY <1>2, <2>1
<1>4. ASSUME NEW k \in Exponents, k < c - L
      PROVE  ~Below(r, PowOf2(k))
  <2>1. k \in Int /\ k + L \in Nat /\ (k + L) - L = k /\ ~(c <= k + L)
    BY <1>1, <1>3, <1>4
  <2>2. k + L \notin C
    BY <1>2, <2>1
  <2> QED
    BY <2>1, <2>2
<1>5. ASSUME NEW k \in Exponents, ~(k < c - L)
      PROVE  Below(r, PowOf2(k))
  <2> DEFINE base == c - L
             S == {y \in Nat : Below(r, PowOf2(base + y))}
  <2>1. base \in Int /\ Below(r, PowOf2(base))
    BY <1>1, <1>3, <1>5
  <2>2. k \in Int /\ k - base \in Nat /\ base + (k - base) = k
    BY <1>1, <1>5, <2>1
  <2> HIDE DEF base
  <2>3. 0 \in S
    BY <2>1
  <2>4. ASSUME NEW y \in Nat, y \in S
        PROVE  y + 1 \in S
    <3>1. base + y \in Int /\ Below(r, PowOf2(base + y)) /\ (base + y) + 1 = base + (y + 1)
      BY <2>1, <2>4
    <3>2. Below(r, PowOf2((base + y) + 1))
      BY <3>1, BelowNext
    <3> QED
      BY <3>1, <3>2
  <2> HIDE DEF S
  <2>5. k - base \in S
    BY <2>2, <2>3, <2>4, Induction
  <2> QED
    BY <2>2, <2>5 DEF S
<1>6. T = -L..(c - L - 1)
  BY <1>1, <1>3, <1>4, <1>5
<1>7. Cardinality(T) = c
  <2> HIDE DEF L, T
  <2>1. -L \in Int /\ c - L - 1 \in Int
    BY <1>1, <1>3
  <2>2. Cardinality(-L..(c - L - 1)) =
          IF -L > c - L - 1 THEN 0 ELSE (c - L - 1) - (-L) + 1
    BY <2>1, FS_Interval
  <2>3. -L > c - L - 1 <=> c = 0
    BY <1>1, <1>3
  <2>4. (c - L - 1) - (-L) + 1 = c
    BY <1>1, <1>3
  <2> QED
    BY <1>6, <2>2, <2>3, <2>4
<1>8. Exponent(r) = Cardinality(T) - L
  BY DEF Exponent
<1> HIDE DEF T, L, C
<1>9. Exponent(r) = c - L
  BY <1>7, <1>8
<1> QED
  BY <1>4, <1>5, <1>9

\* Ratios within the powers of two of the shifts, but the highest: the multiplier may
\* be rounded up to the next power.
LEMMA ShiftInBand ==
  ASSUME NEW r, PositiveRatio(r), ~Below(r, PowOf2(-MaxShift - 1)),
         Below(r, PowOf2(MaxShift - 1))
  PROVE  ShiftFits(QuantizeMultiplier(r))
<1>1. /\ MaxShift \in Nat /\ -MaxShift - 1 \in Exponents /\ MaxShift - 1 \in Exponents
      /\ Exponent(r) \in Int
  BY ExponentType, WidthAssumption DEF Exponents
<1>2. -MaxShift - 1 < Exponent(r) /\ ~(MaxShift - 1 < Exponent(r))
  BY <1>1, ExponentIs
<1>3. QuantizeMultiplier(r).s \in {Exponent(r), Exponent(r) + 1}
  BY DEF QuantizeMultiplier
<1> QED
  BY <1>1, <1>2, <1>3 DEF ShiftFits

\* An input of sub is scaled by at most a half, and by no less than the shifts reach
\* if the scales are not too far apart.
LEMMA InputShiftFits ==
  ASSUME NEW u, NEW t, PositiveRatio(u), PositiveRatio(t), ~Below(t, u),
         ~Below(Times(u, PowOf2(MaxShift)), t)
  PROVE  ShiftFits(QuantizeMultiplier(Over(u, Times(Whole(2), t))))
<1> DEFINE a == u[1]
           b == u[2]
           c == t[1]
           d == t[2]
           P == Pow2(MaxShift)
           r == Over(u, Times(Whole(2), t))
<1>1. a \in Positive /\ b \in Positive /\ c \in Positive /\ d \in Positive
  BY DEF PositiveRatio
<1>2. P \in Positive /\ MaxShift \in Nat /\ MaxShift - 1 \in Nat
  BY PowerType, WidthAssumption
<1>3. r[1] = a * (1 * d) /\ r[2] = b * (2 * c)
  BY DEF Over, Times, Whole
<1>4. ~(c * b < a * d)
  BY DEF Below
<1>5. ~((a * P) * d < c * (b * 1))
  <2>1. PowOf2(MaxShift) = <<P, 1>>
    BY <1>2 DEF PowOf2
  <2> HIDE DEF P
  <2> QED
    BY <2>1 DEF Below, Times
<1> HIDE DEF a, b, c, d, P, r
<1> DEFINE ad == a * d
           bc == b * c
<1>6. /\ ad \in Positive /\ bc \in Positive /\ r[1] = ad /\ r[2] = 2 * bc /\ c * b = bc
      /\ (a * P) * d = ad * P /\ c * (b * 1) = bc
  <2>1. ad \in Positive /\ bc \in Positive
    BY <1>1, PositiveProduct
  <2>2. 1 * d = d /\ b * (2 * c) = 2 * (b * c) /\ c * b = b * c /\ b * 1 = b
    BY <1>1 DEF Positive
  <2>3. (a * P) * d = (a * d) * P
    BY <1>1, <1>2 DEF Positive
  <2> QED
    BY <1>3, <2>1, <2>2, <2>3
<1>7. ~(bc < ad) /\ ~(ad * P < bc)
  <2>1. bc < ad <=> c * b < a * d
    BY <1>6
  <2>2. ad * P < bc <=> (a * P) * d < c * (b * 1)
    BY <1>6
  <2> QED
    BY <1>4, <1>5, <2>1, <2>2
<1> HIDE DEF ad, bc
<1>8. PositiveRatio(r)
  BY <1>6 DEF PositiveRatio, Positive
<1>9. ~Below(r, PowOf2(-MaxShift - 1))
  <2>1. Pow2(MaxShift + 1) = 2 * P
    BY <1>2, PowerOfNext DEF P
  <2>2. PowOf2(-MaxShift - 1) = <<1, Pow2(MaxShift + 1)>>
    <3>1. ~(-MaxShift - 1 >= 0) /\ -(-MaxShift - 1) = MaxShift + 1
      BY <1>2
    <3> QED
      BY <3>1 DEF PowOf2
  <2>3. Below(r, PowOf2(-MaxShift - 1)) <=> ad * (2 * P) < 1 * (2 * bc)
    BY <1>6, <2>1, <2>2 DEF Below
  <2>4. ad * (2 * P) = 2 * (ad * P) /\ ad * P \in Nat /\ bc \in Nat
    BY <1>2, <1>6 DEF Positive
  <2> QED
    BY <1>7, <2>3, <2>4
<1>10. Below(r, PowOf2(MaxShift - 1))
  <2> DEFINE H == Pow2(MaxShift - 1)
  <2>1. H \in Positive /\ PowOf2(MaxShift - 1) = <<H, 1>>
    BY <1>2, PowerType DEF PowOf2
  <2> HIDE DEF H
  <2>2. Below(r, PowOf2(MaxShift - 1)) <=> ad * 1 < H * (2 * bc)
    BY <1>6, <2>1 DEF Below
  <2>3. H * (2 * bc) >= 2 * bc
    <3>1. PICK h \in Nat : H = h + 1
      BY <2>1 DEF Positive
    <3>2. H * (2 * bc) = h * (2 * bc) + 2 * bc /\ h * (2 * bc) >= 0
      BY <1>6, <3>1 DEF Positive
    <3> QED
      BY <1>6, <3>1, <3>2 DEF Positive
  <2>4. H * (2 * bc) \in Nat
    BY <1>6, <2>1 DEF Positive
  <2> QED
    BY <1>6, <1>7, <2>2, <2>3, <2>4 DEF Positive
<1> QED
  BY <1>8, <1>9, <1>10, ShiftInBand DEF r

LEMMA SubShiftsFit ==
  ASSUME NEW p \in UNION Problems, p.op = "sub", ~ScalesApart(p), Replacement(p) # Kept
  PROVE  /\ ShiftFits(Replacement(p).px) /\ ShiftFits(Replacement(p).py)
         /\ ShiftFits(Replacement(p).po)
<1> DEFINE top == IF Below(p.qx.s, p.qy.s) THEN p.qy.s ELSE p.qx.s
           top2 == Times(Whole(2), top)
           result == Over(top2, Times(p.qo.s, PowOf2(Left)))
<1>1. /\ Replacement(p).px = QuantizeMultiplier(Over(p.qx.s, top2))
      /\ Replacement(p).py = QuantizeMultiplier(Over(p.qy.s, top2))
      /\ Replacement(p).po = QuantizeMultiplier(result)
  BY DEF Replacement, SubReplacement
<1>2. PositiveRatio(p.qx.s) /\ PositiveRatio(p.qy.s) /\ PositiveRatio(p.qo.s)
  BY QuantizationType DEF IsQuantization, PositiveRatio
<1>3. /\ ~Below(Times(p.qx.s, PowOf2(MaxShift)), p.qy.s)
      /\ ~Below(Times(p.qy.s, PowOf2(MaxShift)), p.qx.s)
      /\ ~Below(result, PowOf2(-MaxShift - 1)) /\ Below(result, PowOf2(MaxShift - 1))
  BY DEF ScalesApart
<1>4. ASSUME NEW u, PositiveRatio(u)
      PROVE  ~Below(u, u) /\ ~Below(Times(u, PowOf2(MaxShift)), u)
  <2>1. u[1] \in Positive /\ u[2] \in Positive /\ Pow2(MaxShift) \in Positive
    BY <1>4, PowerType, WidthAssumption DEF PositiveRatio
  <2>2. PowOf2(MaxShift) = <<Pow2(MaxShift), 1>>
    BY WidthAssumption DEF PowOf2
  <2>3. ~((u[1] * Pow2(MaxShift)) * u[2] < u[1] * (u[2] * 1))
    <3> DEFINE v == u[1] * u[2]
    <3>1. PICK h \in Nat : Pow2(MaxShift) = h + 1
      BY <2>1 DEF Positive
    <3>2. v \in Nat /\ u[1] * (u[2] * 1) = v
      BY <2>1 DEF Positive
    <3>3. (u[1] * (h + 1)) * u[2] = h * v + v
      <4>1. \A x, y \in Nat : (x * (h + 1)) * y = h * (x * y) + x * y
        BY <3>1
      <4>2. u[1] \in Nat /\ u[2] \in Nat
        BY <2>1 DEF Positive
      <4> QED
        BY <4>1, <4>2
    <3> HIDE DEF v
    <3>4. h * v \in Nat
      BY <3>1, <3>2
    <3> QED
      BY <3>1, <3>2, <3>3, <3>4
  <2>4. ~(u[1] * u[2] < u[1] * u[2])
    BY <2>1 DEF Positive
  <2> QED
    BY <2>2, <2>3, <2>4 DEF Below, Times
<1>5. /\ PositiveRatio(top) /\ ~Below(top, p.qx.s) /\ ~Below(top, p.qy.s)
      /\ ~Below(Times(p.qx.s, PowOf2(MaxShift)), top)
      /\ ~Below(Times(p.qy.s, PowOf2(MaxShift)), top)
  <2>1. CASE Below(p.qx.s, p.qy.s)
    <3>1. p.qx.s[1] * p.qy.s[2] < p.qy.s[1] * p.qx.s[2]
      BY <2>1 DEF Below
    <3>2. ~(p.qy.s[1] * p.qx.s[2] < p.qx.s[1] * p.qy.s[2])
      <4>1. p.qx.s[1] * p.qy.s[2] \in Int /\ p.qy.s[1] * p.qx.s[2] \in Int
        BY <1>2 DEF PositiveRatio, Positive
      <4> QED
        BY <3>1, <4>1
    <3>3. ~Below(p.qy.s, p.qx.s)
      BY <3>2 DEF Below
    <3> QED
      BY <1>2, <1>3, <1>4, <2>1, <3>3
  <2>2. CASE ~Below(p.qx.s, p.qy.s)
    BY <1>2, <1>3, <1>4, <2>2
  <2> QED
    BY <2>1, <2>2
<1> HIDE DEF top
<1>6. ShiftFits(QuantizeMultiplier(Over(p.qx.s, top2)))
  BY <1>2, <1>5, InputShiftFits
<1>7. ShiftFits(QuantizeMultiplier(Over(p.qy.s, top2)))
  BY <1>2, <1>5, InputShiftFits
<1>8. PositiveRatio(result)
  <2>1. top2[1] \in Positive /\ top2[2] \in Positive
    BY <1>5, WholeType, TimesType DEF PositiveRatio, Positive
  <2>2. PowOf2(Left)[1] \in Positive /\ PowOf2(Left)[2] \in Positive
    BY PowOf2Type, WidthAssumption
  <2> DEFINE t == Times(p.qo.s, PowOf2(Left))
  <2>3. t[1] \in Positive /\ t[2] \in Positive
    BY <1>2, <2>2, TimesType DEF PositiveRatio
  <2> HIDE DEF t, top2
  <2>4. Over(top2, t)[1] = top2[1] * t[2] /\ Over(top2, t)[2] = top2[2] * t[1]
    BY DEF Over
  <2>5. PositiveRatio(Over(top2, t))
    BY <2>1, <2>3, <2>4, PositiveProduct DEF PositiveRatio
  <2> QED
    BY <2>5 DEF t
<1> HIDE DEF result
<1>9. ShiftFits(QuantizeMultiplier(result))
  BY <1>3, <1>8, ShiftInBand
<1> QED
  BY <1>1, <1>6, <1>7, <1>9

-----------------------------------------------------------------------------
LEMMA HardswishInstruction ==
  ASSUME NEW p \in UNION Problems, p.op = "hardswish", Replacement(p) # Kept
  PROVE  LET r == Replacement(p)
         IN  /\ r.target = "hardswish" /\ r.zx = p.qx.z /\ r.zo = p.qo.z
             /\ Pair(r.po) /\ ShiftFits(r.po)
             /\ r.q3 \in Int /\ r.q6 \in 1..MaxQ6
<1> DEFINE q3 == Round(Over(Whole(3), p.qx.s))
           q6 == Round(Over(Whole(6), p.qx.s))
           pair == QuantizeMultiplier(Over(Times(p.qx.s, p.qx.s),
                                           Times(Whole(6), p.qo.s)))
           r == Replacement(p)
<1>1. r = HardswishReplacement(p)
  BY DEF Replacement
<1>2. /\ r = [target |-> "hardswish", zx |-> p.qx.z, zo |-> p.qo.z, po |-> pair,
              q3 |-> q3, q6 |-> q6]
      /\ q6 \in 1..MaxQ6 /\ ShiftFits(pair)
  BY <1>1 DEF HardswishReplacement, ReluQ6Qualifies, ShiftQualifies
<1>3. IsQuantization(p.qx) /\ IsQuantization(p.qo)
  BY QuantizationType
<1>4. q3 \in Int
  <2>1. Ratio(Whole(3))
    BY DEF Whole, Ratio, Positive
  <2>2. Ratio(Over(Whole(3), p.qx.s))
    BY <1>3, <2>1, OverType DEF IsQuantization
  <2> QED
    BY <2>2, RoundType DEF Ratio
<1>5. Pair(pair)
  <2>1. Whole(6)[1] \in Positive /\ Whole(6)[2] \in Positive
    BY WholeType DEF Positive
  <2> DEFINE square == Times(p.qx.s, p.qx.s)
             t == Times(Whole(6), p.qo.s)
  <2>2. /\ square[1] \in Positive /\ square[2] \in Positive
        /\ t[1] \in Positive /\ t[2] \in Positive
    BY <1>3, <2>1, TimesType DEF IsQuantization
  <2> HIDE DEF t, square
  <2>3. Pair(QuantizeMultiplier(Over(square, t)))
    BY <2>2, IsRatio, OverType, QuantizeMultiplierType
  <2> QED
    BY <2>3 DEF t, square
<1> HIDE DEF r, q3, q6, pair
<1>6. /\ r.target = "hardswish" /\ r.zx = p.qx.z /\ r.zo = p.qo.z
      /\ Pair(r.po) /\ ShiftFits(r.po)
      /\ r.q3 \in Int /\ r.q6 \in 1..MaxQ6
  BY <1>2, <1>4, <1>5
<1> QED
  BY <1>6 DEF r

LEMMA ReduceCountType ==
  ASSUME NEW p \in UNION Problems
  PROVE  ReduceCount(p) \in Nat
<1> DEFINE t == [k \in DOMAIN p.x |-> IF k - 1 \in ReduceDims(p) THEN p.x[k] ELSE 1]
<1>1. p.x \in Seq(Nat) /\ DOMAIN p.x = 1..Len(p.x) /\ Len(p.x) \in Nat
  BY ProblemAssumption
<1>2. \A k \in 1..Len(p.x) : p.x[k] \in Nat
  BY <1>1
<1>3. t \in [1..Len(p.x) -> Nat]
  BY <1>1, <1>2
<1>4. ReduceCount(p) = Numel(t)
  BY DEF ReduceCount
<1> HIDE DEF t
<1>5. t \in Seq(Nat)
  BY <1>1, <1>3
<1> QED
  BY <1>4, <1>5, NumelType

LEMMA MeanInstruction ==
  ASSUME NEW p \in UNION Problems, p.op = "mean", Replacement(p) # Kept
  PROVE  LET r == Replacement(p)
         IN  /\ r.target = "mean" /\ r.zx = p.qx.z /\ r.zo = p.qo.z
             /\ Pair(r.po) /\ ShiftFits(r.po)
             /\ Len(p.x) <= 4 /\ ~p.channelsLast
             /\ r.mask = [i \in 1..4 |-> i - Padding(p) - 1 \in ReduceDims(p)]
<1> DEFINE count == ReduceCount(p)
           pair == QuantizeMultiplier(Over(p.qx.s, Times(p.qo.s, Whole(count))))
           r == Replacement(p)
<1>1. r = MeanReplacement(p)
  BY DEF Replacement
<1>2. /\ ~(Len(p.x) > 4) /\ ~p.channelsLast /\ ~(count < 1) /\ ShiftFits(pair)
      /\ r = [target |-> "mean", zx |-> p.qx.z, zo |-> p.qo.z, po |-> pair,
              mask |-> [i \in 1..4 |-> i - Padding(p) - 1 \in ReduceDims(p)]]
  BY <1>1 DEF MeanReplacement, ShiftQualifies
<1>3. IsQuantization(p.qx) /\ IsQuantization(p.qo)
  BY QuantizationType
<1>4. count \in Positive
  <2>1. count \in Nat
    BY ReduceCountType
  <2> HIDE DEF count
  <2> QED
    BY <1>2, <2>1 DEF Positive
<1>5. Pair(pair)
  <2> HIDE DEF count
  <2> DEFINE t == Times(p.qo.s, Whole(count))
  <2>1. t[1] \in Positive /\ t[2] \in Positive
    BY <1>3, <1>4, WholeType, TimesType DEF IsQuantization
  <2> HIDE DEF t
  <2>2. Pair(QuantizeMultiplier(Over(p.qx.s, t)))
    BY <1>3, <2>1, IsRatio, OverType, QuantizeMultiplierType DEF IsQuantization
  <2> QED
    BY <2>2 DEF t
<1>6. Len(p.x) <= 4
  <2>1. p.x \in Seq(Nat)
    BY ProblemAssumption
  <2>2. Len(p.x) \in Nat
    BY <2>1
  <2> QED
    BY <1>2, <2>2
<1> HIDE DEF r, pair, count
<1>7. /\ r.target = "mean" /\ r.zx = p.qx.z /\ r.zo = p.qo.z
      /\ Pair(r.po) /\ ShiftFits(r.po)
      /\ r.mask = [i \in 1..4 |-> i - Padding(p) - 1 \in ReduceDims(p)]
  BY <1>2, <1>5
<1> QED
  BY <1>2, <1>6, <1>7 DEF r

LEMMA LeakyReluInstruction ==
  ASSUME NEW p \in UNION Problems, p.op = "leaky_relu", Replacement(p) # Kept
  PROVE  LET r == Replacement(p)
         IN  /\ r.target = "leaky_relu" /\ r.zx = p.qx.z /\ r.zo = p.qo.z
             /\ Pair(r.po) /\ ShiftFits(r.po) /\ Pair(r.pa) /\ ShiftFits(r.pa)
<1> DEFINE pa == QuantizeMultiplier(Over(Times(p.qx.s, p.slope), p.qo.s))
           pi == RequantPair(p.qx, p.qo)
           r == Replacement(p)
<1>1. r = LeakyReluReplacement(p)
  BY DEF Replacement
<1>2. /\ ~(p.slope[1] <= 0) /\ ShiftFits(pa) /\ ShiftFits(pi)
      /\ r = [target |-> "leaky_relu", zx |-> p.qx.z, zo |-> p.qo.z, pa |-> pa,
              po |-> pi]
  BY <1>1 DEF LeakyReluReplacement, ShiftQualifies
<1>3. IsQuantization(p.qx) /\ IsQuantization(p.qo)
  BY QuantizationType
<1>4. p.slope[1] \in Positive /\ p.slope[2] \in Positive
  <2>1. p.slope \in Rational
    BY ProblemAssumption
  <2> QED
    BY <1>2, <2>1 DEF Rational, Positive
<1>5. Pair(pa)
  <2> DEFINE t == Times(p.qx.s, p.slope)
  <2>1. t[1] \in Positive /\ t[2] \in Positive
    BY <1>3, <1>4, TimesType DEF IsQuantization
  <2> HIDE DEF t
  <2>2. Pair(QuantizeMultiplier(Over(t, p.qo.s)))
    BY <1>3, <2>1, IsRatio, OverType, QuantizeMultiplierType DEF IsQuantization
  <2> QED
    BY <2>2 DEF t
<1>6. Pair(pi)
  BY RequantPairType
<1> HIDE DEF r, pa, pi
<1>7. /\ r.target = "leaky_relu" /\ r.zx = p.qx.z /\ r.zo = p.qo.z
      /\ Pair(r.po) /\ ShiftFits(r.po) /\ Pair(r.pa) /\ ShiftFits(r.pa)
  BY <1>2, <1>5, <1>6
<1> QED
  BY <1>7 DEF r

LEMMA ClipType ==
  ASSUME NEW v \in Int, NEW lo \in Int, NEW hi \in Int, lo <= hi
  PROVE  Clip(v, lo, hi) \in lo..hi
BY DEF Clip

LEMMA QuantizeValType ==
  ASSUME NEW b \in Rational, NEW q, IsQuantization(q)
  PROVE  QuantizeVal(b, q) \in QMin..QMax
<1>1. Ratio(b)
  BY DEF Rational, Ratio
<1>2. Ratio(Over(b, q.s))
  BY <1>1, OverType DEF IsQuantization
<1>3. Round(Over(b, q.s)) \in Int
  BY <1>2, RoundType DEF Ratio
<1>4. q.z \in Int /\ QMin \in Int /\ QMax \in Int /\ QMin <= QMax
  BY WidthAssumption DEF IsQuantization
<1> DEFINE v == Round(Over(b, q.s)) + q.z
<1>5. v \in Int
  BY <1>3, <1>4
<1> HIDE DEF v
<1>6. Clip(v, QMin, QMax) \in QMin..QMax
  BY <1>4, <1>5, ClipType
<1> QED
  BY <1>6 DEF QuantizeVal, v

LEMMA ReluInstruction ==
  ASSUME NEW p \in UNION Problems, p.op = "relu", Replacement(p) # Kept
  PROVE  LET r == Replacement(p)
         IN  /\ r.target = "relu" /\ r.zx = p.qx.z /\ r.zo = p.qo.z
             /\ Pair(r.po) /\ ShiftFits(r.po)
             /\ r.min \in QMin..QMax /\ r.max \in QMin..QMax
<1> DEFINE pair == RequantPair(p.qx, p.qo)
           Bound(b, limit) == IF b = <<>> THEN limit ELSE QuantizeVal(b, p.qo)
           min == Bound(p.lo, QMin)
           max == Bound(p.hi, QMax)
           r == Replacement(p)
<1>1. r = ActivationReplacement(p)
  BY DEF Replacement
<1>2. /\ ShiftFits(pair)
      /\ r = [target |-> "relu", zx |-> p.qx.z, zo |-> p.qo.z, po |-> pair,
              min |-> min, max |-> max]
  BY <1>1 DEF ActivationReplacement, ShiftQualifies
<1>3. Pair(pair)
  BY RequantPairType
<1>4. min \in QMin..QMax /\ max \in QMin..QMax
  <2>1. {p.lo, p.hi} \subseteq {<<>>} \cup Rational
    BY ProblemAssumption
  <2>2. IsQuantization(p.qo)
    BY QuantizationType
  <2>3. QMin \in QMin..QMax /\ QMax \in QMin..QMax
    BY WidthAssumption
  <2>4. p.lo \in Rational => QuantizeVal(p.lo, p.qo) \in QMin..QMax
    BY <2>2, QuantizeValType
  <2>5. p.hi \in Rational => QuantizeVal(p.hi, p.qo) \in QMin..QMax
    BY <2>2, QuantizeValType
  <2> QED
    BY <2>1, <2>3, <2>4, <2>5
<1> HIDE DEF r, pair, min, max
<1>5. /\ r.target = "relu" /\ r.zx = p.qx.z /\ r.zo = p.qo.z
      /\ Pair(r.po) /\ ShiftFits(r.po)
      /\ r.min \in QMin..QMax /\ r.max \in QMin..QMax
  BY <1>2, <1>3, <1>4
<1> QED
  BY <1>5 DEF r
-----------------------------------------------------------------------------
(* mean: aligning a shape to the right changes neither its size nor the     *)
(* coordinates of an offset.                                                *)

ReduceShape(p) == Reduced(p.x, ReduceDims(p))

LEMMA Element == ASSUME NEW s \in Seq(Nat), NEW i \in 1..Len(s) PROVE s[i] \in Nat
OBVIOUS

LEMMA AsSequence ==
  ASSUME NEW n \in Nat, NEW s \in [1..n -> Nat]
  PROVE  s \in Seq(Nat) /\ Len(s) = n
OBVIOUS

LEMMA MeanShape ==
  ASSUME NEW p \in UNION Problems, p.op = "mean", Replacement(p) # Kept
  PROVE  /\ Len(p.x) \in 1..4 /\ p.x \in Seq(Nat) /\ DOMAIN p.x = 1..Len(p.x)
         /\ ReduceDims(p) \subseteq 0..(Len(p.x) - 1)
         /\ ReduceShape(p) \in Seq(Nat) /\ Len(ReduceShape(p)) = Len(p.x)
         /\ Padding(p) \in 0..3 /\ Padding(p) + Len(p.x) = 4
<1>1. p.x \in Seq(Nat) /\ Len(p.x) > 0 /\ p.dims \subseteq Int
  BY ProblemAssumption
<1>2. Len(p.x) \in Nat /\ DOMAIN p.x = 1..Len(p.x) /\ \A k \in 1..Len(p.x) : p.x[k] \in Nat
  BY <1>1
<1>3. Len(p.x) <= 4
  BY MeanInstruction
<1>4. ReduceDims(p) \subseteq 0..(Len(p.x) - 1)
  <2>1. ASSUME NEW d \in p.dims
        PROVE  d % Len(p.x) \in 0..(Len(p.x) - 1)
    <3>1. d \in Int
      BY <1>1
    <3> QED
      BY <1>1, <1>2, <3>1
  <2> QED
    BY <2>1 DEF ReduceDims
<1> DEFINE t == ReduceShape(p)
<1>5. t = [k \in 1..Len(p.x) |-> IF k - 1 \in ReduceDims(p) THEN 1 ELSE p.x[k]]
  BY <1>2 DEF ReduceShape, Reduced
<1> HIDE DEF t
<1>6. t \in [1..Len(p.x) -> Nat]
  BY <1>2, <1>5
<1>7. t \in Seq(Nat) /\ Len(t) = Len(p.x)
  BY <1>2, <1>6
<1>8. Padding(p) \in 0..3 /\ Padding(p) + Len(p.x) = 4 /\ Len(p.x) \in 1..4
  <2> DEFINE l == Len(p.x)
  <2>1. l \in Nat /\ l > 0 /\ l <= 4
    BY <1>1, <1>2, <1>3
  <2>2. Padding(p) = 4 - l
    BY DEF Padding
  <2> HIDE DEF l
  <2>3. Padding(p) \in 0..3 /\ Padding(p) + l = 4 /\ l \in 1..4
    BY <2>1, <2>2
  <2> QED
    BY <2>3 DEF l
<1>9. ReduceShape(p) \in Seq(Nat) /\ Len(ReduceShape(p)) = Len(p.x)
  BY <1>7 DEF t
<1> QED
  BY <1>1, <1>2, <1>4, <1>8, <1>9

\* A shape and its right-aligned form.
Aligned(s, t) == /\ t \in Seq(Nat) /\ Len(t) = 4
                 /\ \A i \in 1..(4 - Len(s)) : t[i] = 1
                 /\ \A k \in 1..Len(s) : t[4 - Len(s) + k] = s[k]

LEMMA AlignedNumel ==
  ASSUME NEW s \in Seq(Nat), Len(s) \in 1..4, NEW t, Aligned(s, t)
  PROVE  Numel(t) = Numel(s)
<1>1. /\ t \in Seq(Nat) /\ Len(t) = 4
      /\ \A i \in 1..(4 - Len(s)) : t[i] = 1
      /\ \A k \in 1..Len(s) : t[4 - Len(s) + k] = s[k]
  BY DEF Aligned
<1>2. Numel(t) = t[4] * (t[3] * (t[2] * t[1]))
  BY <1>1, NumelOfFour
<1>3. \A k \in 1..Len(s) : s[k] \in Nat
  OBVIOUS
<1>4. CASE Len(s) = 1
  <2>1. t[4] = s[1] /\ t[3] = 1 /\ t[2] = 1 /\ t[1] = 1 /\ s[1] \in Nat
    BY <1>1, <1>3, <1>4
  <2>2. Numel(s) = s[1]
    BY <1>4, NumelOf
  <2> QED
    BY <1>2, <2>1, <2>2
<1>5. CASE Len(s) = 2
  <2>1. t[4] = s[2] /\ t[3] = s[1] /\ t[2] = 1 /\ t[1] = 1 /\ s[1] \in Nat
    BY <1>1, <1>3, <1>5
  <2>2. Numel(s) = s[2] * s[1]
    BY <1>5, NumelOf
  <2>3. s[1] * (1 * 1) = s[1]
    BY <2>1
  <2> QED
    BY <1>2, <2>1, <2>2, <2>3
<1>6. CASE Len(s) = 3
  <2>1. t[4] = s[3] /\ t[3] = s[2] /\ t[2] = s[1] /\ t[1] = 1 /\ s[1] \in Nat
    BY <1>1, <1>3, <1>6
  <2>2. Numel(s) = s[3] * (s[2] * s[1])
    BY <1>6, NumelOf
  <2>3. s[1] * 1 = s[1]
    BY <2>1
  <2> QED
    BY <1>2, <2>1, <2>2, <2>3
<1>7. CASE Len(s) = 4
  <2>1. t[4] = s[4] /\ t[3] = s[3] /\ t[2] = s[2] /\ t[1] = s[1]
    BY <1>1, <1>7
  <2> QED
    BY <1>2, <1>7, <2>1, NumelOfFour
<1> QED
  BY <1>4, <1>5, <1>6, <1>7

\* The coordinates of an offset in the dimensions a shape has.
LEMMA AlignedCoord ==
  ASSUME NEW s \in Seq(Nat), Len(s) \in 1..4, NEW t, Aligned(s, t), NEW q,
         NEW k \in 1..Len(s)
  PROVE  Coord(t, q, 4 - Len(s) + k) = Coord(s, q, k)
<1> DEFINE n == Len(s)
           i == 4 - Len(s) + k
           u == SubSeq(t, i + 1, 4)
           v == SubSeq(s, k + 1, n)
<1>1. /\ t \in Seq(Nat) /\ Len(t) = 4 /\ \A j \in 1..n : t[4 - n + j] = s[j]
  BY DEF Aligned
<1>2. n \in 1..4 /\ k \in 1..n /\ i = 4 - n + k
  OBVIOUS
<1>3. /\ v \in Seq(Nat) /\ Len(v) = (IF k + 1 <= n THEN n - (k + 1) + 1 ELSE 0)
      /\ \A j \in 1..(n - (k + 1) + 1) : v[j] = s[k + 1 + j - 1]
  <2>1. \A j \in (k + 1)..n : s[j] \in Nat
    OBVIOUS
  <2> QED
    BY <2>1, SubSeqProperties
<1> HIDE DEF n, i
<1>4. i \in 1..4
  BY <1>2
<1>5. /\ u \in Seq(Nat) /\ Len(u) = (IF i + 1 <= 4 THEN 4 - (i + 1) + 1 ELSE 0)
      /\ \A j \in 1..(4 - (i + 1) + 1) : u[j] = t[i + 1 + j - 1]
  <2>1. t \in Seq(Nat) /\ Len(t) = 4
    BY <1>1
  <2>3. ASSUME NEW j \in (i + 1)..4
        PROVE  t[j] \in Nat
    <3>1. j \in 1..Len(t)
      BY <1>4, <2>1
    <3> QED
      BY <2>1, <3>1, Element
  <2>4. i + 1 \in Int
    BY <1>4
  <2> QED
    BY <2>3, <2>4, SubSeqProperties
<1> HIDE DEF u, v
<1>6. Len(u) = Len(v)
  BY <1>2, <1>3, <1>5
<1>7. ASSUME NEW j \in 1..Len(u)
      PROVE  u[j] = v[j]
  <2>1. k + j \in 1..n /\ j \in 1..(n - (k + 1) + 1) /\ j \in 1..(4 - (i + 1) + 1)
    BY <1>2, <1>5
  <2>2. u[j] = t[i + 1 + j - 1] /\ v[j] = s[k + 1 + j - 1]
    BY <1>3, <1>5, <2>1
  <2>3. i + 1 + j - 1 = 4 - n + (k + j) /\ k + 1 + j - 1 = k + j
    BY <1>2, <2>1
  <2> QED
    BY <1>1, <2>1, <2>2, <2>3
<1>8. u = v
  BY <1>3, <1>5, <1>6, <1>7, SeqEqual
<1>9. t[i] = s[k]
  BY <1>1, <1>2
<1>10. Coord(t, q, i) = (q \div Numel(u)) % t[i] /\ Coord(s, q, k) = (q \div Numel(v)) % s[k]
  BY <1>1 DEF Coord, u, v, n
<1> QED
  BY <1>8, <1>9, <1>10 DEF i

\* And in those added on its left.
LEMMA PaddedCoord ==
  ASSUME NEW s \in Seq(Positive), Len(s) \in 1..4, NEW t, Aligned(s, t), NEW q \in Nat,
         NEW i \in 1..(4 - Len(s))
  PROVE  Coord(t, q, i) = 0
<1> DEFINE u == SubSeq(t, i + 1, 4)
<1>1. /\ t \in Seq(Nat) /\ Len(t) = 4 /\ t[i] = 1
      /\ \A j \in 1..(4 - Len(s)) : t[j] = 1
      /\ \A k \in 1..Len(s) : t[4 - Len(s) + k] = s[k]
  BY DEF Aligned
<1>2. \A k \in 1..Len(s) : s[k] \in Positive
  OBVIOUS
<1>3. \A j \in (i + 1)..4 : t[j] \in Positive
  <2> SUFFICES ASSUME NEW j \in (i + 1)..4 PROVE t[j] \in Positive
    OBVIOUS
  <2>1. CASE j \in 1..(4 - Len(s))
    BY <1>1, <2>1 DEF Positive
  <2>2. CASE j \notin 1..(4 - Len(s))
    <3>1. j - (4 - Len(s)) \in 1..Len(s) /\ 4 - Len(s) + (j - (4 - Len(s))) = j
      BY <2>2
    <3> QED
      BY <1>1, <1>2, <3>1
  <2> QED
    BY <2>1, <2>2
<1>4. u \in Seq(Positive)
  <2>1. i + 1 \in Int
    OBVIOUS
  <2> QED
    BY <1>3, <2>1, SubSeqProperties
<1>5. Coord(t, q, i) = (q \div Numel(u)) % 1
  BY <1>1 DEF Coord
<1> HIDE DEF u
<1>6. Numel(u) \in Positive
  BY <1>4, PositiveNumel
<1> DEFINE m == Numel(u)
<1>7. m \in Nat /\ m > 0
  BY <1>6 DEF Positive
<1> HIDE DEF m
<1>8. q \div m \in Int
  BY <1>7
<1> DEFINE w == q \div m
<1> HIDE DEF w
<1>9. w % 1 = 0
  BY <1>8 DEF w
<1> QED
  BY <1>5, <1>9 DEF w, m

\* What the kernel sums for an element is what the reference sums: the mask keeps
\* the dimensions the lowering meant.
MeanPart(p, i, r) ==
  {q \in DOMAIN p.xs : \A d \in 1..4 : ~r.mask[d] =>
     Coord(Dims(p), q, d) = Coord([j \in 1..4 |-> IF r.mask[j] THEN 1 ELSE Dims(p)[j]], i, d)}

LEMMA MeanAligned ==
  ASSUME NEW p \in UNION Problems, p.op = "mean", Replacement(p) # Kept
  PROVE  LET r == Replacement(p)
         IN  /\ Aligned(p.x, Dims(p))
             /\ Aligned(ReduceShape(p), [j \in 1..4 |-> IF r.mask[j] THEN 1 ELSE Dims(p)[j]])
<1> DEFINE r == Replacement(p)
           n == Len(p.x)
           D == ReduceDims(p)
           pad == Padding(p)
           t == Dims(p)
           u == [j \in 1..4 |-> IF r.mask[j] THEN 1 ELSE t[j]]
           red == ReduceShape(p)
<1>1. /\ n \in 1..4 /\ p.x \in Seq(Nat) /\ D \subseteq 0..(n - 1) /\ DOMAIN p.x = 1..n
      /\ red \in Seq(Nat) /\ Len(red) = n
      /\ pad \in 0..3 /\ pad + n = 4
  BY MeanShape
<1>2. r.mask = [i \in 1..4 |-> i - pad - 1 \in D]
  BY MeanInstruction
<1>3. red = [k \in 1..n |-> IF k - 1 \in D THEN 1 ELSE p.x[k]]
  BY <1>1 DEF ReduceShape, Reduced
<1>4. t = [i \in 1..4 |-> IF i <= pad THEN 1 ELSE p.x[i - pad]]
  BY DEF Dims
<1>5. \A k \in 1..n : p.x[k] \in Nat
  BY <1>1, Element
<1> HIDE DEF n, r, D, pad, t, red
<1>6. t \in [1..4 -> Nat]
  <2>1. ASSUME NEW i \in 1..4
        PROVE  (IF i <= pad THEN 1 ELSE p.x[i - pad]) \in Nat
    <3>1. CASE i <= pad
      BY <3>1
    <3>2. CASE ~(i <= pad)
      <4>1. i - pad \in 1..n
        BY <1>1, <3>2
      <4> QED
        BY <1>5, <3>2, <4>1
    <3> QED
      BY <3>1, <3>2
  <2> QED
    BY <1>4, <2>1
<1>7. u \in [1..4 -> Nat]
  BY <1>6
<1>8. \A i \in 1..4 : r.mask[i] <=> i - pad - 1 \in D
  BY <1>2
<1>9. \A i \in 1..4 : u[i] = IF r.mask[i] THEN 1 ELSE t[i]
  OBVIOUS
<1> HIDE DEF u
<1>10. ASSUME NEW i \in 1..pad
       PROVE  t[i] = 1 /\ u[i] = 1
  <2>1. i \in 1..4 /\ i <= pad /\ i - pad - 1 \notin 0..(n - 1)
    BY <1>1
  <2> QED
    BY <1>1, <1>4, <1>8, <1>9, <2>1
<1>11. ASSUME NEW k \in 1..n
       PROVE  t[pad + k] = p.x[k] /\ u[pad + k] = red[k]
  <2>1. /\ pad + k \in 1..4 /\ ~(pad + k <= pad) /\ (pad + k) - pad = k
        /\ (pad + k) - pad - 1 = k - 1
    BY <1>1
  <2>2. t[pad + k] = p.x[k]
    BY <1>4, <2>1
  <2>3. r.mask[pad + k] <=> k - 1 \in D
    BY <1>8, <2>1
  <2>4. u[pad + k] = IF k - 1 \in D THEN 1 ELSE p.x[k]
    BY <1>9, <2>1, <2>2, <2>3
  <2> QED
    BY <1>3, <2>2, <2>4
<1>12. t \in Seq(Nat) /\ Len(t) = 4 /\ u \in Seq(Nat) /\ Len(u) = 4
  <2>1. t \in Seq(Nat) /\ Len(t) = 4
    BY <1>6, AsSequence
  <2>2. u \in Seq(Nat) /\ Len(u) = 4
    BY <1>7, AsSequence
  <2> QED
    BY <2>1, <2>2
<1>13. 4 - n = pad
  BY <1>1
<1>14. Aligned(p.x, t)
  BY <1>10, <1>11, <1>12, <1>13 DEF Aligned, n
<1>15. Aligned(red, u)
  BY <1>1, <1>10, <1>11, <1>12, <1>13 DEF Aligned
<1> QED
  BY <1>14, <1>15 DEF r, t, u, red

LEMMA MeanPartIsSummed ==
  ASSUME NEW p \in UNION Problems, p.op = "mean", Replacement(p) # Kept, NEW o \in Nat
  PROVE  MeanPart(p, o, Replacement(p)) = Summed(p, ReduceDims(p), o)
<1> DEFINE r == Replacement(p)
           n == Len(p.x)
           D == ReduceDims(p)
           pad == Padding(p)
           t == Dims(p)
           u == [j \in 1..4 |-> IF r.mask[j] THEN 1 ELSE t[j]]
           red == ReduceShape(p)
<1>1. /\ n \in 1..4 /\ p.x \in Seq(Nat) /\ D \subseteq 0..(n - 1) /\ DOMAIN p.x = 1..n
      /\ red \in Seq(Nat) /\ Len(red) = n
      /\ pad \in 0..3 /\ pad + n = 4
  BY MeanShape
<1>2. r.mask = [i \in 1..4 |-> i - pad - 1 \in D]
  BY MeanInstruction
<1>3. Aligned(p.x, t) /\ Aligned(red, u)
  BY MeanAligned
<1>4. MeanPart(p, o, r) =
        {q \in DOMAIN p.xs : \A d \in 1..4 : ~r.mask[d] => Coord(t, q, d) = Coord(u, o, d)}
  BY DEF MeanPart
<1>5. Summed(p, D, o) =
        {q \in DOMAIN p.xs : \A k \in 1..n : k - 1 \notin D => Coord(p.x, q, k) = Coord(red, o, k)}
  BY <1>1 DEF Summed, ReduceShape
<1>6. DOMAIN p.xs = 0..(Numel(p.x) - 1)
  BY ProblemAssumption DEF Offsets
<1> HIDE DEF n, r, D, pad, t, u, red
<1>7. \A i \in 1..4 : r.mask[i] <=> i - pad - 1 \in D
  BY <1>2
<1>8. 4 - n = pad
  BY <1>1
<1>9. ASSUME NEW q \in DOMAIN p.xs
      PROVE  (\A d \in 1..4 : ~r.mask[d] => Coord(t, q, d) = Coord(u, o, d))
             <=> (\A k \in 1..n : k - 1 \notin D => Coord(p.x, q, k) = Coord(red, o, k))
  <2>1. q \in Nat /\ p.x \in Seq(Positive) /\ red \in Seq(Positive)
    <3>1. Numel(p.x) \in Nat
      BY <1>1, NumelType
    <3>2. q \in Nat /\ Numel(p.x) > 0
      BY <1>6, <3>1
    <3>3. p.x \in Seq(Positive)
      BY <1>1, <3>2, NumelPositive
    <3>4. \A k \in 1..n : p.x[k] \in Positive
      BY <3>3 DEF n
    <3>5. red = [k \in 1..n |-> IF k - 1 \in D THEN 1 ELSE p.x[k]]
      BY <1>1 DEF ReduceShape, Reduced, red, D
    <3>6. red \in [1..n -> Positive]
      BY <3>4, <3>5 DEF Positive
    <3>7. n \in Nat
      BY <1>1
    <3>8. red \in Seq(Positive)
      BY <3>6, <3>7
    <3> QED
      BY <3>2, <3>3, <3>8
  <2>2. ASSUME NEW k \in 1..n
        PROVE  /\ Coord(t, q, pad + k) = Coord(p.x, q, k)
               /\ Coord(u, o, pad + k) = Coord(red, o, k)
    <3>1. Coord(t, q, 4 - n + k) = Coord(p.x, q, k)
      BY <1>1, <1>3, AlignedCoord DEF n
    <3>2. k \in 1..Len(red) /\ Len(red) \in 1..4 /\ red \in Seq(Nat)
      BY <1>1
    <3>3. Coord(u, o, 4 - Len(red) + k) = Coord(red, o, k)
      BY <1>3, <3>2, AlignedCoord
    <3> QED
      BY <1>1, <1>8, <3>1, <3>3
  <2>3. ASSUME NEW i \in 1..pad
        PROVE  Coord(t, q, i) = 0 /\ Coord(u, o, i) = 0
    <3>1. Coord(t, q, i) = 0
      <4>1. i \in 1..(4 - Len(p.x)) /\ Len(p.x) \in 1..4
        BY <1>1, <1>8 DEF n
      <4> QED
        BY <1>3, <2>1, <4>1, PaddedCoord
    <3>2. i \in 1..(4 - Len(red)) /\ Len(red) \in 1..4
      BY <1>1, <1>8
    <3>3. Coord(u, o, i) = 0
      BY <1>3, <2>1, <3>2, PaddedCoord
    <3> QED
      BY <3>1, <3>3
  <2>4. ASSUME \A d \in 1..4 : ~r.mask[d] => Coord(t, q, d) = Coord(u, o, d),
               NEW k \in 1..n, k - 1 \notin D
        PROVE  Coord(p.x, q, k) = Coord(red, o, k)
    <3>1. pad + k \in 1..4 /\ (pad + k) - pad - 1 = k - 1
      BY <1>1
    <3>2. ~r.mask[pad + k]
      BY <1>7, <2>4, <3>1
    <3> QED
      BY <2>2, <2>4, <3>1, <3>2
  <2>5. ASSUME \A k \in 1..n : k - 1 \notin D => Coord(p.x, q, k) = Coord(red, o, k),
               NEW d \in 1..4, ~r.mask[d]
        PROVE  Coord(t, q, d) = Coord(u, o, d)
    <3>1. CASE d <= pad
      <4>1. d \in 1..pad
        BY <1>1, <3>1
      <4> QED
        BY <2>3, <4>1
    <3>2. CASE ~(d <= pad)
      <4>1. PICK k \in 1..n : d = pad + k
        <5>1. d - pad \in 1..n /\ d = pad + (d - pad)
          BY <1>1, <3>2
        <5> QED
          BY <5>1
      <4>2. d - pad - 1 = k - 1
        BY <1>1, <4>1
      <4>3. k - 1 \notin D
        BY <1>7, <2>5, <4>2
      <4> QED
        BY <2>2, <2>5, <4>1, <4>3
    <3> QED
      BY <3>1, <3>2
  <2> QED
    BY <2>4, <2>5
<1>10. MeanPart(p, o, r) = Summed(p, D, o)
  BY <1>4, <1>5, <1>9
<1> QED
  BY <1>10 DEF r, D

\* The dimensions the reference reads back from the mask.
LEMMA MaskIsReduceDims ==
  ASSUME NEW p \in UNION Problems, p.op = "mean", Replacement(p) # Kept
  PROVE  ReduceDims(p) = {i - Padding(p) - 1 :
           i \in {j \in 1..4 : Replacement(p).mask[j] /\ j > Padding(p)}}
<1> DEFINE n == Len(p.x)
           D == ReduceDims(p)
           pad == Padding(p)
           mask == Replacement(p).mask
<1>1. n \in 1..4 /\ D \subseteq 0..(n - 1) /\ pad \in 0..3 /\ pad + n = 4
  BY MeanShape
<1>2. mask = [i \in 1..4 |-> i - pad - 1 \in D]
  BY MeanInstruction
<1> HIDE DEF n, D, pad, mask
<1>3. \A i \in 1..4 : mask[i] <=> i - pad - 1 \in D
  BY <1>2
<1>4. ASSUME NEW d \in D
      PROVE  d \in {i - pad - 1 : i \in {j \in 1..4 : mask[j] /\ j > pad}}
  <2>1. d \in 0..(n - 1)
    BY <1>1
  <2>2. d + pad + 1 \in 1..4 /\ d + pad + 1 > pad /\ (d + pad + 1) - pad - 1 = d
    BY <1>1, <2>1
  <2>3. mask[d + pad + 1]
    BY <1>3, <2>2
  <2> QED
    BY <2>2, <2>3
<1>5. {i - pad - 1 : i \in {j \in 1..4 : mask[j] /\ j > pad}} \subseteq D
  BY <1>3
<1>6. D = {i - pad - 1 : i \in {j \in 1..4 : mask[j] /\ j > pad}}
  BY <1>4, <1>5
<1> QED
  BY <1>6 DEF D, pad, mask
-----------------------------------------------------------------------------
(* sub: the blocks of the broadcast loop.                                   *)

LEMMA BlockFits ==
  ASSUME NEW n \in Nat, NEW k \in Nat, NEW m \in Nat, k * n < m * n
  PROVE  k * n + n <= m * n
<1>1. k < m
  <2>1. ASSUME m <= k
        PROVE  m * n <= k * n
    <3>1. PICK d \in Nat : k = m + d
      BY <2>1
    <3>2. k * n = m * n + d * n /\ d * n >= 0 /\ m * n \in Int
      BY <3>1
    <3> QED
      BY <3>2
  <2>2. m * n \in Int /\ k * n \in Int
    OBVIOUS
  <2> QED
    BY <2>1, <2>2
<1>2. PICK d \in Nat : m = k + 1 + d
  BY <1>1
<1>3. m * n = k * n + n + d * n /\ d * n >= 0
  BY <1>2
<1> QED
  BY <1>3

\* The shape of a tensor that is broadcast against c channels is c times something.
LEMMA ManyChannels ==
  ASSUME NEW s \in Seq(Nat), Len(s) = 4
  PROVE  s[2] \in Nat /\ \E m \in Nat : Numel(s) = m * s[2]
<1>1. s[1] \in Nat /\ s[2] \in Nat /\ s[3] \in Nat /\ s[4] \in Nat
  <2>1. \A r \in Seq(Nat) : \A i \in 1..Len(r) : r[i] \in Nat
    OBVIOUS
  <2>2. \A i \in 1..4 : s[i] \in Nat
    BY <2>1
  <2> QED
    BY <2>2
<1> DEFINE m == s[4] * (s[3] * s[1])
<1>2. m \in Nat
  BY <1>1
<1>3. s[4] * (s[3] * (s[2] * s[1])) = m * s[2]
  BY <1>1
<1> QED
  BY <1>1, <1>2, <1>3, NumelOfFour

\* What the check of the kernel lets through.
Shaped(p) == p.x = p.y \/ IsChannelBroadcast(p)

\* The result is a number of blocks, the operand that advances too, and the other is one.
LEMMA BlocksOf ==
  ASSUME NEW p \in UNION Problems, p.op = "sub", Shaped(p)
  PROVE  LET n == SubsPerLoop(p)
         IN  /\ n \in Nat
             /\ \E m \in Nat :
                  /\ Numel(OutShape(p)) = m * n
                  /\ Advances(p).x => Numel(p.x) = m * n
                  /\ ~Advances(p).x => Numel(p.x) = n
                  /\ Advances(p).y => Numel(p.y) = m * n
                  /\ ~Advances(p).y => Numel(p.y) = n
<1> DEFINE n == SubsPerLoop(p)
           nx == Numel(p.x)
           ny == Numel(p.y)
<1>1. /\ p.x \in Seq(Nat) /\ p.y \in Seq(Nat) /\ nx \in Nat /\ ny \in Nat
      /\ nx = 0 <=> ny = 0
  BY ProblemAssumption, NumelType
<1>2. OutShape(p) = IF nx > ny THEN p.x ELSE p.y
  BY DEF OutShape
<1>3. CASE ~IsChannelBroadcast(p)
  <2>1. nx = ny /\ OutShape(p) = p.x
    BY <1>1, <1>2, <1>3 DEF Shaped
  <2>2. n = nx /\ Advances(p).x /\ Advances(p).y
    BY <1>3, <2>1 DEF SubsPerLoop, Advances
  <2>3. nx = 1 * n
    BY <1>1, <2>2
  <2> QED
    BY <1>1, <2>1, <2>2, <2>3
<1>4. CASE IsChannelBroadcast(p)
  <2>1. /\ Len(p.x) = 4 /\ Len(p.y) = 4 /\ n = p.x[2] /\ n = p.y[2]
        /\ nx = n \/ ny = n
        /\ Advances(p).x <=> nx # n
        /\ Advances(p).y <=> ny # n
    BY <1>4 DEF IsChannelBroadcast, SubsPerLoop, Advances, ChannelsOnly
  <2> HIDE DEF n, nx, ny
  <2>2. n \in Nat /\ \E m \in Nat : nx = m * n
    BY <1>1, <2>1, ManyChannels DEF nx
  <2>3. \E m \in Nat : ny = m * n
    BY <1>1, <2>1, ManyChannels DEF ny
  <2>4. Numel(OutShape(p)) = IF nx > ny THEN nx ELSE ny
    BY <1>2 DEF nx, ny
  <2>5. ASSUME NEW a \in Nat, NEW m \in Nat, a = m * n, a # n, a = 0 <=> n = 0
        PROVE  a > n
    <3>1. m # 0 /\ m # 1
      BY <2>2, <2>5
    <3>2. PICK d \in Nat : m = 2 + d
      BY <3>1
    <3>3. a = n + n + d * n /\ d * n >= 0
      BY <2>2, <2>5, <3>2
    <3>4. n # 0
      BY <2>2, <2>5
    <3> QED
      BY <2>2, <3>3, <3>4
  <2>6. CASE nx # n
    <3>1. ny = n
      BY <2>1, <2>6
    <3>2. PICK m \in Nat : nx = m * n
      BY <2>2
    <3>3. nx > n
      BY <1>1, <2>5, <2>6, <3>1, <3>2 DEF nx, ny
    <3>4. Numel(OutShape(p)) = m * n
      BY <2>4, <3>1, <3>2, <3>3
    <3> QED
      BY <2>1, <2>2, <2>6, <3>1, <3>2, <3>4 DEF n, nx, ny
  <2>7. CASE nx = n /\ ny # n
    <3>1. PICK m \in Nat : ny = m * n
      BY <2>3
    <3>2. ny > n
      BY <1>1, <2>5, <2>7, <3>1 DEF nx, ny
    <3>3. Numel(OutShape(p)) = m * n
      BY <1>1, <2>2, <2>4, <2>7, <3>1, <3>2
    <3> QED
      BY <2>1, <2>2, <2>7, <3>1, <3>3 DEF n, nx, ny
  <2>8. CASE nx = n /\ ny = n
    <3>1. Numel(OutShape(p)) = 1 * n
      BY <2>2, <2>4, <2>8
    <3> QED
      BY <2>1, <2>2, <2>8, <3>1 DEF n, nx, ny
  <2> QED
    BY <2>6, <2>7, <2>8
<1> QED
  BY <1>3, <1>4
-----------------------------------------------------------------------------
(* The broadcast loop.  `Looping' says where it is: at the start of a      *)
(* block, having written the blocks before.                                *)

Subtracting == inst.target = "sub"
WrittenBefore(n) ==
  \A i \in DOMAIN out : IF i < n THEN out[i] = SubReference(prob, i)
                                 ELSE out[i] = Unwritten
Typed == /\ pc \in {"lower", "check", "run", "portable", "aborted", "failed", "done"}
         /\ prob \in UNION Problems
         /\ touched \in [x : SUBSET DOMAIN prob.xs, y : SUBSET DOMAIN prob.ys]
         /\ Subtracting => /\ prob.op = "sub"
                           /\ inst.zx = prob.qx.z /\ inst.zy = prob.qy.z
         /\ pc \notin {"lower", "portable"} /\ prob.op = "sub" => Subtracting
Fresh == pc \in {"lower", "check", "portable", "aborted"} =>
           /\ offset = 0 /\ DOMAIN out = Offsets(OutShape(prob))
           /\ \A i \in DOMAIN out : out[i] = Unwritten
Looping == pc \in {"run", "failed", "done"} /\ Subtracting =>
             /\ Shaped(prob) /\ DOMAIN out = Offsets(OutShape(prob))
             /\ \E k \in Nat : offset = k * SubsPerLoop(prob)
             /\ WrittenBefore(offset)
             /\ pc = "done" => offset >= Numel(OutShape(prob))
IInv == Typed /\ Fresh /\ Looping

\* Only sub becomes a sub.
LEMMA OnlySub ==
  ASSUME NEW p \in UNION Problems, Replacement(p).target = "sub"
  PROVE  /\ p.op = "sub"
         /\ Replacement(p).zx = p.qx.z /\ Replacement(p).zy = p.qy.z
<1>1. Replacement(p) # Kept
  BY DEF Kept
<1>2. p.op \in {"sub", "hardswish", "mean", "leaky_relu", "relu"}
  BY ProblemAssumption
<1>3. p.op = "sub"
  BY <1>1, <1>2, HardswishInstruction, MeanInstruction, LeakyReluInstruction,
     ReluInstruction
<1> QED
  BY <1>1, <1>3, SubInstruction

Multiple(a, n) == \E k \in Nat : a = k * n

\* The element of one operand that a block uses is the one that is broadcast there.
LEMMA OperandIndex ==
  ASSUME NEW n \in Nat, NEW o \in Nat, NEW t \in Nat, NEW i \in o..(o + n - 1),
         Multiple(o, n), Multiple(t, n), o < t
  PROVE  /\ i \in 0..(t - 1)
         /\ i - o \in 0..(n - 1) /\ i - o = i % n
         /\ o..(o + n - 1) \subseteq 0..(t - 1)
<1>1. PICK k \in Nat, m \in Nat : o = k * n /\ t = m * n
  BY DEF Multiple
<1>2. o + n <= t
  BY <1>1, BlockFits
<1>3. PICK r \in 0..(n - 1) : i = o + r
  <2>1. i - o \in 0..(n - 1) /\ i = o + (i - o)
    OBVIOUS
  <2> QED
    BY <2>1
<1>4. i % n = r
  <2>1. k \in Int
    OBVIOUS
  <2>2. (k * n + r) % n = r
    BY <2>1, Division
  <2> QED
    BY <1>1, <1>3, <2>2
<1> QED
  BY <1>2, <1>3, <1>4

LEMMA BlockIndex ==
  ASSUME NEW p \in UNION Problems, p.op = "sub", Shaped(p),
         NEW n \in Nat, n = SubsPerLoop(p), NEW k \in Nat, NEW o \in Nat, o = k * n,
         o < Numel(OutShape(p)), NEW i \in o..(o + n - 1)
  PROVE  LET ax == IF Advances(p).x THEN o ELSE 0
             ay == IF Advances(p).y THEN o ELSE 0
         IN  /\ ax + i - o = Broadcast(p, p.x, i) /\ ax + i - o \in Offsets(p.x)
             /\ ay + i - o = Broadcast(p, p.y, i) /\ ay + i - o \in Offsets(p.y)
             /\ ax..(ax + n - 1) \subseteq Offsets(p.x)
             /\ ay..(ay + n - 1) \subseteq Offsets(p.y)
<1>0. PICK m \in Nat : /\ Numel(OutShape(p)) = m * n
                       /\ Advances(p).x => Numel(p.x) = m * n
                       /\ ~Advances(p).x => Numel(p.x) = n
                       /\ Advances(p).y => Numel(p.y) = m * n
                       /\ ~Advances(p).y => Numel(p.y) = n
  BY BlocksOf
<1> DEFINE size == m * n
<1>1. /\ Advances(p).x => Numel(p.x) = size
      /\ ~Advances(p).x => Numel(p.x) = n
      /\ Advances(p).y => Numel(p.y) = size
      /\ ~Advances(p).y => Numel(p.y) = n
      /\ o < size
  <2>1. size = Numel(OutShape(p))
    BY <1>0
  <2> HIDE DEF size
  <2>2. o < size
    BY <2>1
  <2> QED
    BY <1>0, <2>1, <2>2, Zenon
<1>9. size \in Nat /\ size = m * n
  OBVIOUS
<1> HIDE DEF size
<1>2. /\ i \in 0..(size - 1) /\ i \in Int
      /\ i - o \in 0..(n - 1) /\ i - o = i % n
      /\ o..(o + n - 1) \subseteq 0..(size - 1)
  <2>1. /\ i \in 0..(size - 1)
        /\ i - o \in 0..(n - 1) /\ i - o = i % n
        /\ o..(o + n - 1) \subseteq 0..(size - 1)
    <3>1. o < size /\ size \in Nat /\ Multiple(size, n) /\ Multiple(o, n)
      BY <1>1, <1>9 DEF Multiple
    <3>2. i \in 0..(size - 1)
      BY <3>1, OperandIndex
    <3>3. i - o \in 0..(n - 1)
      BY <3>1, OperandIndex
    <3>4. i - o = i % n
      BY <3>1, OperandIndex
    <3>5. o..(o + n - 1) \subseteq 0..(size - 1)
      BY <3>1, OperandIndex
    <3> QED
      BY <3>2, <3>3, <3>4, <3>5
  <2>2. i \in Int
    OBVIOUS
  <2> QED
    BY <2>1, <2>2
<1>3. /\ Advances(p).x <=> ~(IsChannelBroadcast(p) /\ ChannelsOnly(p.x))
      /\ Advances(p).y <=> ~(IsChannelBroadcast(p) /\ ChannelsOnly(p.y))
      /\ IsChannelBroadcast(p) => n = p.x[2]
  BY DEF Advances, SubsPerLoop
<1>4. ASSUME Advances(p).x
      PROVE  /\ o + i - o = Broadcast(p, p.x, i) /\ o + i - o \in Offsets(p.x)
             /\ o..(o + n - 1) \subseteq Offsets(p.x)
  <2>1. Broadcast(p, p.x, i) = i
    BY <1>3, <1>4 DEF Broadcast
  <2>2. Offsets(p.x) = 0..(size - 1)
    BY <1>1, <1>4 DEF Offsets
  <2>3. o + i - o = i
    BY <1>2
  <2> QED
    BY <1>2, <2>1, <2>2, <2>3
<1>5. ASSUME ~Advances(p).x
      PROVE  /\ 0 + i - o = Broadcast(p, p.x, i) /\ 0 + i - o \in Offsets(p.x)
             /\ 0..(0 + n - 1) \subseteq Offsets(p.x)
  <2>1. Broadcast(p, p.x, i) = i % n
    BY <1>3, <1>5 DEF Broadcast
  <2>2. Offsets(p.x) = 0..(n - 1)
    BY <1>1, <1>5 DEF Offsets
  <2>3. 0 + i - o = i - o /\ 0 + n - 1 = n - 1
    BY <1>2
  <2> QED
    BY <1>2, <2>1, <2>2, <2>3
<1>6. ASSUME Advances(p).y
      PROVE  /\ o + i - o = Broadcast(p, p.y, i) /\ o + i - o \in Offsets(p.y)
             /\ o..(o + n - 1) \subseteq Offsets(p.y)
  <2>1. Broadcast(p, p.y, i) = i
    BY <1>3, <1>6 DEF Broadcast
  <2>2. Offsets(p.y) = 0..(size - 1)
    BY <1>1, <1>6 DEF Offsets
  <2>3. o + i - o = i
    BY <1>2
  <2> QED
    BY <1>2, <2>1, <2>2, <2>3
<1>7. ASSUME ~Advances(p).y
      PROVE  /\ 0 + i - o = Broadcast(p, p.y, i) /\ 0 + i - o \in Offsets(p.y)
             /\ 0..(0 + n - 1) \subseteq Offsets(p.y)
  <2>1. Broadcast(p, p.y, i) = i % n
    BY <1>3, <1>7 DEF Broadcast
  <2>2. Offsets(p.y) = 0..(n - 1)
    BY <1>1, <1>7 DEF Offsets
  <2>3. 0 + i - o = i - o /\ 0 + n - 1 = n - 1
    BY <1>2
  <2> QED
    BY <1>2, <2>1, <2>2, <2>3
<1> QED
  BY <1>4, <1>5, <1>6, <1>7

LEMMA SubBlockStep == ASSUME IInv, SubBlock
                      PROVE  IInv'
<1> DEFINE n == SubsPerLoop(prob)
           ax == IF Advances(prob).x THEN offset ELSE 0
           ay == IF Advances(prob).y THEN offset ELSE 0
<1>1. /\ prob \in UNION Problems /\ prob.op = "sub" /\ Shaped(prob) /\ pc = "run"
      /\ offset < Numel(OutShape(prob)) /\ WrittenBefore(offset)
      /\ inst.zx = prob.qx.z /\ inst.zy = prob.qy.z
      /\ DOMAIN out = Offsets(OutShape(prob))
  BY DEF IInv, SubBlock, Typed, Looping, Subtracting
<1>2. PICK k \in Nat : offset = k * n
  BY <1>1 DEF IInv, SubBlock, Looping, Subtracting
<1>3. n \in Nat /\ offset \in Nat
  BY <1>1, <1>2, BlocksOf
<1>4. /\ UNCHANGED <<pc, prob, inst>> /\ offset' = offset + n
      /\ touched' = [x |-> touched.x \cup ax..(ax + n - 1),
                     y |-> touched.y \cup ay..(ay + n - 1)]
      /\ out' = [i \in DOMAIN out |->
                   IF i \in offset..(offset + n - 1)
                   THEN SubElement(At(prob.xs, ax + i - offset),
                                   At(prob.ys, ay + i - offset), NegatedOffsets)
                   ELSE out[i]]
  BY DEF SubBlock
<1>5. ASSUME NEW i \in offset..(offset + n - 1)
      PROVE  /\ ax + i - offset = Broadcast(prob, prob.x, i)
             /\ ay + i - offset = Broadcast(prob, prob.y, i)
             /\ ax + i - offset \in Offsets(prob.x) /\ ay + i - offset \in Offsets(prob.y)
  BY <1>1, <1>2, <1>3, <1>5, BlockIndex
<1>6. /\ DOMAIN prob.xs = Offsets(prob.x) /\ DOMAIN prob.ys = Offsets(prob.y)
      /\ inst.zx \in Int /\ inst.zy \in Int
      /\ \A i \in DOMAIN prob.xs : prob.xs[i] \in Int
      /\ \A i \in DOMAIN prob.ys : prob.ys[i] \in Int
  <2>1. /\ prob.xs \in [Offsets(prob.x) -> QMin..QMax]
        /\ prob.ys \in [Offsets(prob.y) -> QMin..QMax]
    BY <1>1, ProblemAssumption
  <2>2. prob.qx.z \in Int /\ prob.qy.z \in Int
    BY <1>1, QuantizationType DEF IsQuantization
  <2> QED
    BY <1>1, <2>1, <2>2
<1>7. ASSUME NEW i \in offset..(offset + n - 1)
      PROVE  SubElement(At(prob.xs, ax + i - offset), At(prob.ys, ay + i - offset),
                        NegatedOffsets) = SubReference(prob, i)
  <2> DEFINE a == prob.xs[Broadcast(prob, prob.x, i)]
             b == prob.ys[Broadcast(prob, prob.y, i)]
  <2>1. /\ At(prob.xs, ax + i - offset) = a /\ At(prob.ys, ay + i - offset) = b
        /\ a \in Int /\ b \in Int
    BY <1>5, <1>6 DEF At
  <2>2. a + NegatedOffsets.x = a - inst.zx /\ b + NegatedOffsets.y = b - inst.zy
    BY <1>6, <2>1 DEF NegatedOffsets
  <2> QED
    BY <2>1, <2>2 DEF SubElement, SubReference
<1>8. \A i \in DOMAIN out' : IF i < offset' THEN out'[i] = SubReference(prob, i)'
                                           ELSE out'[i] = Unwritten
  <2> SUFFICES ASSUME NEW i \in DOMAIN out
               PROVE  IF i < offset + n THEN out'[i] = SubReference(prob, i)
                                        ELSE out'[i] = Unwritten
    <3>1. \A i \in DOMAIN out : SubReference(prob, i)' = SubReference(prob, i)
      BY <1>4 DEF SubReference
    <3>2. DOMAIN out' = DOMAIN out
      BY <1>4
    <3> QED
      BY <1>4, <3>1, <3>2
  <2>1. i \in Int
    BY <1>1 DEF Offsets
  <2>2. CASE i \in offset..(offset + n - 1)
    BY <1>3, <1>4, <1>7, <2>2
  <2>3. CASE i \notin offset..(offset + n - 1)
    <3>1. i < offset + n <=> i < offset
      BY <1>3, <2>1, <2>3
    <3> QED
      BY <1>1, <1>4, <2>3, <3>1 DEF WrittenBefore
  <2> QED
    BY <2>2, <2>3
<1>9. touched' \in [x : SUBSET DOMAIN prob.xs, y : SUBSET DOMAIN prob.ys]
  <2>1. /\ touched.x \subseteq DOMAIN prob.xs /\ touched.y \subseteq DOMAIN prob.ys
    BY DEF IInv, Typed
  <2>2. CASE n = 0
    <3>1. ax..(ax + n - 1) = {} /\ ay..(ay + n - 1) = {}
      BY <1>3, <2>2
    <3> QED
      BY <1>4, <2>1, <3>1
  <2>3. CASE n # 0
    <3>1. offset \in offset..(offset + n - 1)
      BY <1>3, <2>3
    <3>2. ax..(ax + n - 1) \subseteq Offsets(prob.x) /\ ay..(ay + n - 1) \subseteq Offsets(prob.y)
      BY <1>1, <1>2, <1>3, <3>1, BlockIndex
    <3> QED
      BY <1>4, <1>6, <2>1, <3>2
  <2> QED
    BY <2>2, <2>3
<1>10. \E j \in Nat : offset' = j * n
  <2>1. offset' = (k + 1) * n
    BY <1>2, <1>3, <1>4
  <2> QED
    BY <2>1
<1>11. Typed'
  <2>1. Subtracting /\ inst' = inst /\ prob' = prob /\ pc' = "run"
    BY <1>1, <1>4 DEF SubBlock, Subtracting
  <2> QED
    BY <1>1, <2>1, <1>9 DEF Typed, Subtracting
<1>12. Looping'
  BY <1>1, <1>4, <1>8, <1>10 DEF Looping, Subtracting, WrittenBefore, Unwritten
<1> QED
  BY <1>1, <1>4, <1>11, <1>12 DEF IInv, Fresh

LEMMA InitStep == Init => IInv
<1> SUFFICES ASSUME Init
             PROVE  IInv
  OBVIOUS
<1>1. ~Subtracting
  BY DEF Init, Kept, Subtracting
<1>2. Typed
  BY <1>1 DEF Init, Typed
<1>3. Fresh
  BY DEF Init, Fresh
<1>4. Looping
  BY <1>1 DEF Looping
<1> QED
  BY <1>2, <1>3, <1>4 DEF IInv

LEMMA LowerStep == ASSUME IInv, Lower
                   PROVE  IInv'
<1>1. /\ prob \in UNION Problems /\ inst' = Replacement(prob)
      /\ UNCHANGED <<prob, offset, out, touched>>
      /\ pc' \in {"portable", "check"} /\ (inst' = Kept <=> pc' = "portable")
  BY DEF IInv, Typed, Lower
<1>2. Subtracting' => /\ prob.op = "sub"
                      /\ inst'.zx = prob.qx.z /\ inst'.zy = prob.qy.z
  BY <1>1, OnlySub DEF Subtracting
<1>3. pc' # "portable" /\ prob.op = "sub" => Subtracting'
  BY <1>1, SubInstruction DEF Subtracting
<1>4. Typed'
  BY <1>1, <1>2, <1>3 DEF IInv, Typed, Lower
<1>5. Fresh'
  BY <1>1 DEF IInv, Fresh, Lower, Unwritten
<1>6. Looping'
  BY <1>1 DEF Looping
<1> QED
  BY <1>4, <1>5, <1>6 DEF IInv

LEMMA CheckStep == ASSUME IInv, Check
                   PROVE  IInv'
<1>1. /\ prob \in UNION Problems /\ UNCHANGED <<prob, inst, offset, out, touched>>
      /\ pc' = IF Accepted(prob) THEN "run" ELSE "aborted"
      /\ offset = 0 /\ DOMAIN out = Offsets(OutShape(prob))
      /\ \A i \in DOMAIN out : out[i] = Unwritten
  BY DEF IInv, Typed, Fresh, Check
<1>2. Typed'
  BY <1>1 DEF IInv, Typed, Check, Subtracting
<1>3. Fresh'
  BY <1>1 DEF Fresh, Unwritten
<1>4. ASSUME pc' = "run", Subtracting
      PROVE  /\ Shaped(prob) /\ \E k \in Nat : offset = k * SubsPerLoop(prob)
             /\ WrittenBefore(offset)
  <2>1. prob.op = "sub" /\ Shaped(prob)
    BY <1>1, <1>4 DEF IInv, Typed, Accepted, Shaped, Subtracting
  <2>2. SubsPerLoop(prob) \in Nat
    BY <1>1, <2>1, BlocksOf
  <2>3. offset = 0 * SubsPerLoop(prob)
    BY <1>1, <2>2
  <2>4. \A i \in DOMAIN out : ~(i < offset)
    BY <1>1 DEF Offsets
  <2> QED
    BY <1>1, <2>1, <2>3, <2>4 DEF WrittenBefore
<1>5. Looping'
  BY <1>1, <1>4 DEF Looping, Subtracting, WrittenBefore, Unwritten, SubReference
<1> QED
  BY <1>2, <1>3, <1>5 DEF IInv

LEMMA SubDoneStep == ASSUME IInv, SubDone
                     PROVE  IInv'
<1>1. UNCHANGED <<prob, inst, offset, out, touched>> /\ pc = "run" /\ pc' = "done"
      /\ offset >= Numel(OutShape(prob))
  BY DEF SubDone
<1>2. Typed'
  BY <1>1 DEF IInv, Typed, Subtracting
<1>3. Fresh'
  BY <1>1 DEF Fresh
<1>4. Looping'
  BY <1>1 DEF IInv, Looping, Subtracting, WrittenBefore, Unwritten, SubReference
<1> QED
  BY <1>2, <1>3, <1>4 DEF IInv

LEMMA SingleCallStep == ASSUME IInv, SingleCall
                        PROVE  IInv'
<1>1. /\ UNCHANGED <<prob, inst, offset>> /\ pc = "run" /\ pc' = "done"
      /\ touched' = [touched EXCEPT !.x = DOMAIN prob.xs]
      /\ ~Subtracting /\ ~Subtracting'
  BY DEF SingleCall, Subtracting
<1>2. touched' \in [x : SUBSET DOMAIN prob.xs, y : SUBSET DOMAIN prob.ys]
  BY <1>1 DEF IInv, Typed
<1>3. Typed'
  BY <1>1, <1>2 DEF IInv, Typed
<1>4. Fresh'
  BY <1>1 DEF Fresh
<1>5. Looping'
  BY <1>1 DEF Looping
<1> QED
  BY <1>3, <1>4, <1>5 DEF IInv

LEMMA CallFailsStep == ASSUME IInv, CallFails
                       PROVE  IInv'
<1>1. UNCHANGED <<prob, inst, offset, out, touched>> /\ pc = "run" /\ pc' = "failed"
  BY DEF CallFails
<1>2. Typed'
  BY <1>1 DEF IInv, Typed, Subtracting
<1>3. Fresh'
  BY <1>1 DEF Fresh
<1>4. Looping'
  BY <1>1 DEF IInv, Looping, Subtracting, WrittenBefore, Unwritten, SubReference
<1> QED
  BY <1>2, <1>3, <1>4 DEF IInv

LEMMA StutterStep == ASSUME IInv, UNCHANGED vars
                     PROVE  IInv'
<1>1. UNCHANGED <<pc, prob, inst, offset, out, touched>>
  BY DEF vars
<1>2. Typed'
  BY <1>1 DEF IInv, Typed, Subtracting
<1>3. Fresh'
  BY <1>1 DEF IInv, Fresh, Unwritten
<1>4. Looping'
  BY <1>1 DEF IInv, Looping, Subtracting, WrittenBefore, Unwritten, SubReference
<1> QED
  BY <1>2, <1>3, <1>4 DEF IInv

LEMMA Invariance == Spec => []IInv
<1>1. IInv /\ [Next]_vars => IInv'
  BY SubBlockStep, LowerStep, CheckStep, SubDoneStep, SingleCallStep, CallFailsStep,
     StutterStep DEF Next
<1> QED
  BY InitStep, <1>1, PTL DEF Spec
-----------------------------------------------------------------------------
(* The instruction is the one the pass made, accepted when it runs.         *)

Lowered == /\ pc = "lower" => inst = Kept
           /\ pc # "lower" => inst = Replacement(prob)
           /\ pc \notin {"lower", "portable"} => inst # Kept
           /\ pc \in {"run", "failed", "done"} => Accepted(prob)
           /\ pc = "aborted" => ~Accepted(prob)

LEMMA SameAccepted ==
  ASSUME UNCHANGED <<prob, inst>>
  PROVE  Accepted(prob)' <=> Accepted(prob)
BY DEF Accepted, OutDims

LEMMA LoweredStep == ASSUME IInv, Lowered, [Next]_vars
                     PROVE  Lowered'
<1>1. CASE Lower
  <2>1. /\ pc = "lower" /\ prob' = prob /\ inst' = Replacement(prob)
        /\ pc' = IF inst' = Kept THEN "portable" ELSE "check"
    BY <1>1 DEF Lower
  <2> QED
    BY <2>1 DEF Lowered
<1>2. CASE Check
  <2>1. /\ pc = "check" /\ UNCHANGED <<prob, inst>>
        /\ pc' = IF Accepted(prob) THEN "run" ELSE "aborted"
    BY <1>2 DEF Check
  <2>2. Accepted(prob)' <=> Accepted(prob)
    BY <2>1, SameAccepted
  <2> QED
    BY <2>1, <2>2 DEF Lowered
<1>3. CASE SubBlock \/ SubDone \/ SingleCall \/ CallFails
  <2>1. /\ pc = "run" /\ UNCHANGED <<prob, inst>> /\ pc' \in {"run", "failed", "done"}
    BY <1>3 DEF SubBlock, SubDone, SingleCall, CallFails
  <2>2. Accepted(prob)' <=> Accepted(prob)
    BY <2>1, SameAccepted
  <2> QED
    BY <2>1, <2>2 DEF Lowered
<1>4. CASE UNCHANGED vars
  <2>1. UNCHANGED <<pc, prob, inst>>
    BY <1>4 DEF vars
  <2>2. Accepted(prob)' <=> Accepted(prob)
    BY <2>1, SameAccepted
  <2> QED
    BY <2>1, <2>2 DEF Lowered
<1> QED
  BY <1>1, <1>2, <1>3, <1>4 DEF Next

LEMMA LoweredInvariance == Spec => [](IInv /\ Lowered)
<1>1. Init => Lowered
  BY DEF Init, Lowered
<1>2. Lowered /\ IInv /\ [Next]_vars => Lowered'
  BY LoweredStep
<1> QED
  BY Invariance, <1>1, <1>2, PTL DEF Spec

\* The checks of a kernel ask for nothing the pass has not ensured.
LEMMA Promised ==
  ASSUME NEW p \in UNION Problems, p.op # "sub", Replacement(p) # Kept, inst = Replacement(p)
  PROVE  Accepted(p)
<1>0. IsInt8(inst.zx) /\ IsInt8(inst.zo)
  <2>1. inst.zx = p.qx.z /\ inst.zo = p.qo.z
    BY HardswishInstruction, LeakyReluInstruction, ReluInstruction, MeanInstruction,
       ProblemAssumption
  <2> QED
    BY <2>1, QuantizationType DEF IsInt8, IsQuantization
<1>1. CASE p.op = "hardswish"
  <2>1. inst.target = "hardswish" /\ ShiftFits(inst.po)
    BY <1>1, HardswishInstruction
  <2> QED
    BY <1>0, <2>1 DEF Accepted
<1>2. CASE p.op = "leaky_relu"
  <2>1. inst.target = "leaky_relu" /\ ShiftFits(inst.po) /\ ShiftFits(inst.pa)
    BY <1>2, LeakyReluInstruction
  <2> QED
    BY <1>0, <2>1 DEF Accepted
<1>3. CASE p.op = "relu"
  <2>1. inst.target = "relu" /\ ShiftFits(inst.po)
    BY <1>3, ReluInstruction
  <2> QED
    BY <1>0, <2>1 DEF Accepted
<1>4. CASE p.op = "mean"
  <2>1. /\ inst.target = "mean" /\ ShiftFits(inst.po)
        /\ Len(p.x) <= 4 /\ ~p.channelsLast
    BY <1>4, MeanInstruction
  <2>2. Aligned(ReduceShape(p), OutDims(p))
    BY <1>4, MeanAligned DEF OutDims
  <2>3. ReduceShape(p) \in Seq(Nat) /\ Len(ReduceShape(p)) \in 1..4
    BY <1>4, MeanShape
  <2>4. Numel(OutDims(p)) = Numel(ReduceShape(p))
    BY <2>2, <2>3, AlignedNumel
  <2>5. OutShape(p) = ReduceShape(p)
    BY <1>4 DEF OutShape, ReduceShape
  <2> QED
    BY <1>0, <2>1, <2>4, <2>5 DEF Accepted
<1> QED
  BY <1>1, <1>2, <1>3, <1>4, ProblemAssumption

\* Magnitudes.
LEMMA ProductBound ==
  ASSUME NEW x \in Int, NEW y \in Int, NEW a \in Nat, NEW b \in Nat,
         -a <= x, x <= a, 0 <= y, y <= b
  PROVE  Abs(x * y) <= a * b
<1>1. a * y <= a * b
  <2>1. PICK d \in Nat : b = y + d
    <3>1. b - y \in Nat /\ b = y + (b - y)
      OBVIOUS
    <3> QED
      BY <3>1
  <2>2. a * b = a * y + a * d /\ a * d >= 0 /\ a * y \in Int
    BY <2>1
  <2> QED
    BY <2>2
<1>2. x * y <= a * y /\ -(a * y) <= x * y /\ x * y \in Int /\ a * y \in Int /\ a * b \in Int
  <2>1. PICK d \in Nat : a = x + d
    <3>1. a - x \in Nat /\ a = x + (a - x)
      OBVIOUS
    <3> QED
      BY <3>1
  <2>2. a * y = x * y + d * y /\ d * y >= 0
    BY <2>1
  <2>3. PICK e \in Nat : x = e - a
    <3>1. x + a \in Nat /\ x = (x + a) - a
      OBVIOUS
    <3> QED
      BY <3>1
  <2>4. x * y = e * y - a * y /\ e * y >= 0
    BY <2>3
  <2>5. x * y \in Int /\ a * y \in Int /\ d * y \in Int /\ e * y \in Int /\ a * b \in Int
    OBVIOUS
  <2> QED
    BY <2>2, <2>4, <2>5
<1> DEFINE v == x * y
           w == a * y
           u == a * b
<1> HIDE DEF v, w, u
<1>3. v <= w /\ -w <= v /\ w <= u /\ v \in Int /\ w \in Int /\ u \in Int
  BY <1>1, <1>2 DEF v, w, u
<1>4. Abs(v) <= u
  BY <1>3 DEF Abs, Most
<1> QED
  BY <1>4 DEF v, u

LEMMA Difference ==
  ASSUME NEW a \in QMin..QMax, NEW z \in QMin..QMax
  PROVE  /\ a - z \in Int /\ -(QMax - QMin) <= a - z /\ a - z <= QMax - QMin
         /\ QMax - QMin \in Nat
BY WidthAssumption

LEMMA HardswishBound ==
  ASSUME NEW p \in UNION Problems, p.op = "hardswish", Replacement(p) # Kept,
         inst = Replacement(p), NEW i \in DOMAIN p.xs
  PROVE  HardswishProduct(p.xs[i]) \in Int /\ Abs(HardswishProduct(p.xs[i])) <= IntMax
<1> DEFINE x == p.xs[i] - inst.zx
           y == Clip(x + inst.q3, 0, inst.q6)
           a == QMax - QMin
<1>1. p.xs[i] \in QMin..QMax /\ inst.zx \in QMin..QMax
  BY QuantizationType, HardswishInstruction, ProblemAssumption DEF IsQuantization
<1>2. x \in Int /\ -a <= x /\ x <= a /\ a \in Nat
  BY <1>1, Difference
<1>3. inst.q3 \in Int /\ inst.q6 \in 1..MaxQ6 /\ MaxQ6 \in Nat
  BY HardswishInstruction, WidthAssumption
<1>4. HardswishProduct(p.xs[i]) = x * y
  BY DEF HardswishProduct
<1>5. a * MaxQ6 <= IntMax /\ IntMax \in Nat
  BY WidthAssumption
<1> HIDE DEF x, a
<1>6. y \in Int /\ 0 <= y /\ y <= MaxQ6
  BY <1>2, <1>3 DEF Clip
<1> HIDE DEF y
<1>7. Abs(x * y) <= a * MaxQ6
  BY <1>2, <1>3, <1>6, ProductBound
<1>8. x * y \in Int /\ a * MaxQ6 \in Int
  BY <1>2, <1>3, <1>6
<1> DEFINE v == x * y
           w == a * MaxQ6
<1>9. v \in Int /\ w \in Int /\ Abs(v) <= w /\ w <= IntMax
  BY <1>5, <1>7, <1>8
<1> HIDE DEF v, w
<1>10. Abs(v) <= IntMax
  BY <1>5, <1>9 DEF Abs, Most
<1> QED
  BY <1>4, <1>9, <1>10 DEF v

LEMMA ShiftBound ==
  ASSUME NEW a \in QMin..QMax, NEW z \in QMin..QMax
  PROVE  (a - z) * Pow2(Left) \in Int /\ Abs((a - z) * Pow2(Left)) <= IntMax
<1> DEFINE x == a - z
           y == Pow2(Left)
           m == QMax - QMin
<1>1. x \in Int /\ -m <= x /\ x <= m /\ m \in Nat
  BY Difference
<1>2. y \in Nat
  BY PowerType, WidthAssumption DEF Positive
<1>3. m * y <= IntMax /\ IntMax \in Nat
  BY WidthAssumption
<1> HIDE DEF x, y, m
<1>4. 0 <= y /\ y <= y /\ y \in Int
  BY <1>2
<1>5. Abs(x * y) <= m * y
  BY <1>1, <1>2, <1>4, ProductBound
<1>6. x * y \in Int /\ m * y \in Int
  BY <1>1, <1>2
<1> DEFINE v == x * y
           w == m * y
<1>7. v \in Int /\ w \in Int /\ Abs(v) <= w /\ w <= IntMax
  BY <1>3, <1>5, <1>6
<1> HIDE DEF v, w
<1>8. Abs(v) <= IntMax
  BY <1>3, <1>7 DEF Abs, Most
<1> QED
  BY <1>7, <1>8 DEF v, x, y
-----------------------------------------------------------------------------
(* What a kernel that makes a single call writes.                           *)

Int8 == QMin..QMax

Written == prob.op # "sub" =>
             /\ DOMAIN out = Offsets(OutShape(prob))
             /\ pc # "done" => \A i \in DOMAIN out : out[i] = Unwritten
             /\ pc = "done" => \A i \in DOMAIN out : /\ out[i] = Reference(prob, i)
                                                     /\ out[i] \in Int8

LEMMA ClipIsInt8 ==
  ASSUME NEW v \in Int, NEW lo \in Int8, NEW hi \in Int8
  PROVE  Clip(v, lo, hi) \in Int8
BY WidthAssumption DEF Clip, Int8

LEMMA Ends == QMin \in Int8 /\ QMax \in Int8 /\ Unwritten \notin Int8
BY WidthAssumption DEF Int8, Unwritten

\* A requantized value put around a zero point.
LEMMA Requantized ==
  ASSUME NEW v \in Int, NEW r, Pair(r), NEW z \in Int8, NEW lo \in Int8, NEW hi \in Int8
  PROVE  Clip(Requantize(v, r) + z, lo, hi) \in Int8
<1>1. Requantize(v, r) \in Int
  BY RequantizeType
<1> DEFINE w == Requantize(v, r) + z
<1>2. w \in Int
  BY <1>1, WidthAssumption DEF Int8
<1> HIDE DEF w
<1>3. Clip(w, lo, hi) \in Int8
  BY <1>2, ClipIsInt8
<1> QED
  BY <1>3 DEF w

LEMMA ElementType ==
  ASSUME NEW p \in UNION Problems, NEW i \in DOMAIN p.xs
  PROVE  p.xs[i] \in Int8 /\ p.xs[i] \in Int /\ DOMAIN p.xs = Offsets(p.x)
<1>1. p.xs \in [Offsets(p.x) -> QMin..QMax]
  BY ProblemAssumption
<1> QED
  BY <1>1, WidthAssumption DEF Int8

\* The shortcut of quantized_relu_out computes what the full kernel would.
LEMMA ReluWritten ==
  ASSUME NEW p \in UNION Problems, p.op = "relu", Replacement(p) # Kept,
         inst = Replacement(p), NEW i \in DOMAIN p.xs
  PROVE  /\ ReluReference(p, i) \in Int8
         /\ ReluElement(p.xs[i]) = ReluReference(p, i)
         /\ IdentityRequant => ClampElement(p.xs[i]) = ReluReference(p, i)
<1> DEFINE a == p.xs[i]
<1>1. a \in Int
  BY ElementType
<1>2. /\ inst.zx \in Int /\ inst.zo \in Int8 /\ Pair(inst.po)
      /\ inst.min \in Int8 /\ inst.max \in Int8
  BY ReluInstruction, QuantizationType, WidthAssumption DEF IsQuantization, Int8
<1>3. Most(QMin, inst.min) = inst.min /\ Least(QMax, inst.max) = inst.max
  BY <1>2, WidthAssumption DEF Most, Least, Int8
<1>4. ReluReference(p, i) = Clip(Requantize(a - inst.zx, inst.po) + inst.zo, inst.min, inst.max)
  BY <1>3 DEF ReluReference
<1>5. ReluElement(a) = Clip(Requantize(a - inst.zx, inst.po) + inst.zo, inst.min, inst.max)
  BY DEF ReluElement
<1> HIDE DEF a
<1>6. a - inst.zx \in Int
  BY <1>1, <1>2
<1>7. Clip(Requantize(a - inst.zx, inst.po) + inst.zo, inst.min, inst.max) \in Int8
  BY <1>2, <1>6, Requantized
<1>8. ASSUME IdentityRequant
      PROVE  ClampElement(a) = ReluReference(p, i)
  <2>1. inst.zx = inst.zo /\ inst.po = Identity
    BY <1>8 DEF IdentityRequant
  <2>2. Requantize(a - inst.zx, inst.po) = a - inst.zx
    BY <1>6, <2>1, IdentityIsExact
  <2>3. a - inst.zx + inst.zo = a
    BY <1>1, <1>2, <2>1
  <2> QED
    BY <1>4, <2>2, <2>3 DEF ClampElement
<1> QED
  BY <1>4, <1>5, <1>7, <1>8 DEF a

LEMMA LeakyReluWritten ==
  ASSUME NEW p \in UNION Problems, p.op = "leaky_relu", Replacement(p) # Kept,
         inst = Replacement(p), NEW i \in DOMAIN p.xs
  PROVE  LeakyReluElement(p.xs[i]) \in Int8
<1> DEFINE x == p.xs[i] - inst.zx
           r == IF x >= 0 THEN inst.po ELSE inst.pa
<1>1. inst.zx \in Int /\ inst.zo \in Int8 /\ Pair(inst.po) /\ Pair(inst.pa)
  BY LeakyReluInstruction, QuantizationType, WidthAssumption DEF IsQuantization, Int8
<1>2. x \in Int /\ Pair(r)
  BY <1>1, ElementType
<1>3. LeakyReluElement(p.xs[i]) = Clip(Requantize(x, r) + inst.zo, QMin, QMax)
  BY DEF LeakyReluElement
<1> HIDE DEF x, r
<1> QED
  BY <1>1, <1>2, <1>3, Requantized, Ends

LEMMA HardswishWritten ==
  ASSUME NEW p \in UNION Problems, p.op = "hardswish", Replacement(p) # Kept,
         inst = Replacement(p), NEW i \in DOMAIN p.xs
  PROVE  HardswishElement(p.xs[i]) \in Int8
<1>1. inst.zo \in Int8 /\ Pair(inst.po)
  BY HardswishInstruction, QuantizationType DEF IsQuantization, Int8
<1>2. HardswishProduct(p.xs[i]) \in Int
  BY HardswishBound
<1> QED
  BY <1>1, <1>2, Requantized, Ends DEF HardswishElement

LEMMA MeanWritten ==
  ASSUME NEW p \in UNION Problems, p.op = "mean", Replacement(p) # Kept,
         inst = Replacement(p), NEW o \in Nat
  PROVE  /\ MeanReference(p, o) \in Int8
         /\ MeanElement(CenteredSum(p, inst.zx, MeanPart(p, o, inst))) = MeanReference(p, o)
<1>1. MeanPart(p, o, inst) = Summed(p, ReduceDims(p), o)
  BY MeanPartIsSummed
<1>2. MaskDims(p) = ReduceDims(p)
  BY MaskIsReduceDims DEF MaskDims
<1> DEFINE sum == CenteredSum(p, inst.zx, Summed(p, ReduceDims(p), o))
<1>3. MeanReference(p, o) = Clip(Requantize(sum, inst.po) + inst.zo, QMin, QMax)
  BY <1>2 DEF MeanReference
<1>4. MeanElement(CenteredSum(p, inst.zx, MeanPart(p, o, inst)))
        = Clip(Requantize(sum, inst.po) + inst.zo, QMin, QMax)
  BY <1>1 DEF MeanElement
<1>5. inst.zx \in Int /\ inst.zo \in Int8 /\ Pair(inst.po)
  <2>1. inst.zx = p.qx.z /\ inst.zo = p.qo.z /\ Pair(inst.po)
    BY MeanInstruction
  <2>2. p.qx.z \in Int8 /\ p.qo.z \in Int8
    BY QuantizationType DEF IsQuantization, Int8
  <2> QED
    BY <2>1, <2>2, WidthAssumption DEF Int8
<1>6. sum \in Int
  <2>1. p.xs \in [Offsets(p.x) -> QMin..QMax] /\ p.x \in Seq(Nat)
    BY ProblemAssumption
  <2>2. \A i \in Offsets(p.x) : p.xs[i] \in Int
    BY <2>1
  <2>3. Numel(p.x) \in Nat
    BY <2>1, NumelType
  <2> QED
    BY <1>5, <2>2, <2>3, SumType
<1> HIDE DEF sum
<1>7. Clip(Requantize(sum, inst.po) + inst.zo, QMin, QMax) \in Int8
  BY <1>5, <1>6, Requantized, Ends
<1> QED
  BY <1>3, <1>4, <1>7

LEMMA SubWritten ==
  ASSUME NEW p \in UNION Problems, p.op = "sub", Replacement(p) # Kept,
         inst = Replacement(p), NEW i,
         Broadcast(p, p.x, i) \in Offsets(p.x), Broadcast(p, p.y, i) \in Offsets(p.y)
  PROVE  SubReference(p, i) \in Int8
<1> DEFINE j == Broadcast(p, p.x, i)
           k == Broadcast(p, p.y, i)
           a == p.xs[j] - inst.zx
           b == p.ys[k] - inst.zy
           ra == Requantize(a * Pow2(Left), inst.px)
           rb == Requantize(b * Pow2(Left), inst.py)
<1>1. p.xs[j] \in Int8 /\ p.ys[k] \in Int8
  <2>1. /\ p.xs \in [Offsets(p.x) -> QMin..QMax]
        /\ p.ys \in [Offsets(p.y) -> QMin..QMax]
    BY ProblemAssumption
  <2> QED
    BY <2>1 DEF Int8
<1>2. /\ inst.zx \in Int8 /\ inst.zy \in Int8 /\ inst.zo \in Int8
      /\ Pair(inst.px) /\ Pair(inst.py) /\ Pair(inst.po)
      /\ inst.min = QMin /\ inst.max = QMax
  BY SubInstruction, QuantizationType DEF IsQuantization, Int8
<1>3. a * Pow2(Left) \in Int /\ b * Pow2(Left) \in Int
  BY <1>1, <1>2, ShiftBound DEF Int8
<1>4. SubReference(p, i) = Clip(Requantize(ra - rb, inst.po) + inst.zo, QMin, QMax)
  BY <1>2 DEF SubReference
<1> HIDE DEF a, b
<1>5. ra \in Int /\ rb \in Int
  BY <1>2, <1>3, RequantizeType
<1> HIDE DEF ra, rb
<1> DEFINE d == ra - rb
<1>6. d \in Int
  BY <1>5
<1> HIDE DEF d
<1>7. Clip(Requantize(d, inst.po) + inst.zo, QMin, QMax) \in Int8
  BY <1>2, <1>6, Requantized, Ends
<1> QED
  BY <1>4, <1>7 DEF d

LEMMA SameReference ==
  ASSUME UNCHANGED <<prob, inst>>, NEW i
  PROVE  Reference(prob, i)' = Reference(prob, i)
BY DEF Reference, SubReference, MeanReference, MaskDims, ReluReference, LeakyReluElement,
       HardswishElement, HardswishProduct

LEMMA SingleCallWritten ==
  ASSUME IInv, Lowered, Written, SingleCall
  PROVE  Written'
<1>1. /\ pc = "run" /\ inst.target # "sub" /\ pc' = "done" /\ UNCHANGED <<prob, inst>>
      /\ prob \in UNION Problems /\ inst = Replacement(prob) /\ inst # Kept
  BY DEF SingleCall, IInv, Typed, Lowered
<1>2. prob.op # "sub"
  BY <1>1, SubInstruction
<1>3. DOMAIN out = Offsets(OutShape(prob))
  BY <1>2 DEF Written
<1>4. prob.op # "mean" => DOMAIN out = DOMAIN prob.xs
  <2>1. prob.op # "mean" => OutShape(prob) = prob.x
    BY <1>2 DEF OutShape
  <2>2. DOMAIN prob.xs = Offsets(prob.x)
    BY <1>1, ProblemAssumption
  <2> QED
    BY <1>3, <2>1, <2>2
<1>5. /\ DOMAIN out' = DOMAIN out
      /\ \A i \in DOMAIN out : out'[i] = Reference(prob, i) /\ out'[i] \in Int8
  <2>1. CASE prob.op = "relu"
    <3>1. inst.target = "relu"
      BY <1>1, <2>1, ReluInstruction
    <3>2. out' = ReluRun
      BY <3>1 DEF SingleCall
    <3>3. out' = IF IdentityRequant THEN [i \in DOMAIN out |-> ClampElement(prob.xs[i])]
                 ELSE [i \in DOMAIN out |-> ReluElement(prob.xs[i])]
      BY <3>2 DEF ReluRun, Each
    <3>4. ASSUME NEW i \in DOMAIN out
          PROVE  out'[i] = ReluReference(prob, i) /\ ReluReference(prob, i) \in Int8
      BY <1>1, <1>4, <2>1, <3>3, ReluWritten
    <3>5. \A i : Reference(prob, i) = ReluReference(prob, i)
      BY <2>1 DEF Reference
    <3> QED
      BY <3>3, <3>4, <3>5
  <2>2. CASE prob.op = "leaky_relu"
    <3>1. inst.target = "leaky_relu"
      BY <1>1, <2>2, LeakyReluInstruction
    <3>2. out' = LeakyReluRun
      BY <3>1 DEF SingleCall
    <3>3. out' = [i \in DOMAIN out |-> LeakyReluElement(prob.xs[i])]
      BY <3>2 DEF LeakyReluRun, Each
    <3>4. ASSUME NEW i \in DOMAIN out
          PROVE  LeakyReluElement(prob.xs[i]) \in Int8
      BY <1>1, <1>4, <2>2, LeakyReluWritten
    <3>5. \A i : Reference(prob, i) = LeakyReluElement(prob.xs[i])
      BY <2>2 DEF Reference
    <3> QED
      BY <3>3, <3>4, <3>5
  <2>3. CASE prob.op = "hardswish"
    <3>1. inst.target = "hardswish"
      BY <1>1, <2>3, HardswishInstruction
    <3>2. out' = HardswishRun
      BY <3>1 DEF SingleCall
    <3>3. out' = [i \in DOMAIN out |-> HardswishElement(prob.xs[i])]
      BY <3>2 DEF HardswishRun, Each
    <3>4. ASSUME NEW i \in DOMAIN out
          PROVE  HardswishElement(prob.xs[i]) \in Int8
      BY <1>1, <1>4, <2>3, HardswishWritten
    <3>5. \A i : Reference(prob, i) = HardswishElement(prob.xs[i])
      BY <2>3 DEF Reference
    <3> QED
      BY <3>3, <3>4, <3>5
  <2>4. CASE prob.op = "mean"
    <3>1. inst.target = "mean"
      BY <1>1, <2>4, MeanInstruction
    <3>2. out' = MeanRun
      BY <3>1 DEF SingleCall
    <3>3. out' = [o \in DOMAIN out |->
                    MeanElement(CenteredSum(prob, inst.zx, MeanPart(prob, o, inst)))]
      BY <3>2 DEF MeanRun, MeanPart, OutDims
    <3>4. ASSUME NEW i \in DOMAIN out
          PROVE  out'[i] = MeanReference(prob, i) /\ MeanReference(prob, i) \in Int8
      <4>1. i \in Nat
        BY <1>3 DEF Offsets
      <4> QED
        BY <1>1, <2>4, <3>3, <4>1, MeanWritten
    <3>5. \A i : Reference(prob, i) = MeanReference(prob, i)
      BY <2>4 DEF Reference
    <3> QED
      BY <3>3, <3>4, <3>5
  <2> QED
    BY <1>1, <1>2, <2>1, <2>2, <2>3, <2>4, ProblemAssumption
<1>6. \A i : Reference(prob, i)' = Reference(prob, i)
  BY <1>1, SameReference
<1> QED
  BY <1>1, <1>3, <1>5, <1>6 DEF Written, Int8

LEMMA WrittenStep == ASSUME IInv, Lowered, Written, [Next]_vars
                     PROVE  Written'
<1>1. CASE Lower \/ Check \/ CallFails
  <2>1. pc' # "done" /\ pc # "done" /\ UNCHANGED <<prob, out>>
    BY <1>1 DEF Lower, Check, CallFails
  <2> QED
    BY <2>1 DEF Written, Unwritten
<1>2. CASE SubBlock \/ SubDone
  <2>1. Subtracting /\ prob' = prob
    BY <1>2 DEF SubBlock, SubDone, Subtracting
  <2>2. prob'.op = "sub"
    BY <2>1 DEF IInv, Typed
  <2> QED
    BY <2>2 DEF Written
<1>3. CASE SingleCall
  BY <1>3, SingleCallWritten
<1>4. CASE UNCHANGED vars
  <2>1. UNCHANGED <<pc, prob, inst, out>>
    BY <1>4 DEF vars
  <2>2. \A i : Reference(prob, i)' = Reference(prob, i)
    BY <2>1, SameReference
  <2> QED
    BY <2>1, <2>2 DEF Written, Int8, Unwritten
<1> QED
  BY <1>1, <1>2, <1>3, <1>4 DEF Next

LEMMA WrittenInvariance == Spec => [](IInv /\ Lowered /\ Written)
<1>1. Init => Written
  BY DEF Init, Written
<1>2. IInv /\ Lowered /\ Written /\ [Next]_vars => Written'
  BY WrittenStep
<1> QED
  BY LoweredInvariance, <1>1, <1>2, PTL DEF Spec
-----------------------------------------------------------------------------
(* Theorems.                                                               *)

\* No kernel call reaches past the end of an operand, whatever the shapes and
\* the values: the blocks of quantized_sub_out's broadcast loop fit the operand
\* that advances and the one that stays, the last block included.
THEOREM BoundsCorrect == Spec => []InBounds
<1>1. IInv => InBounds
  BY DEF IInv, Typed, InBounds
<1> QED
  BY Invariance, <1>1, PTL

\* An instruction the passes made is refused on the target only if it is a sub and
\* its float scales are further apart than the shifts reach: the kernels' checks, the
\* size of mean's result among them, ask for what the qualifiers and, for the sub
\* that has none, ordinary scales ensure.
THEOREM AcceptanceCorrect == Spec => []LoweredIsAccepted
<1>1. IInv /\ Lowered => LoweredIsAccepted
  <2> SUFFICES ASSUME IInv, Lowered, pc = "aborted"
               PROVE  prob.op = "sub" /\ ScalesApart(prob)
    BY DEF LoweredIsAccepted
  <2>1. /\ prob \in UNION Problems /\ inst = Replacement(prob) /\ inst # Kept
        /\ ~Accepted(prob)
    BY DEF IInv, Typed, Lowered
  <2>2. prob.op = "sub"
    BY <2>1, Promised
  <2> SUFFICES ASSUME ~ScalesApart(prob)
               PROVE  FALSE
    BY <2>2
  <2>3. ShiftFits(inst.px) /\ ShiftFits(inst.py) /\ ShiftFits(inst.po)
    BY <2>1, <2>2, SubShiftsFit
  <2>4. /\ inst.target = "sub"
        /\ IsInt8(inst.zx) /\ IsInt8(inst.zy) /\ IsInt8(inst.zo)
    BY <2>1, <2>2, SubInstruction, QuantizationType DEF IsInt8, IsQuantization
  <2>5. /\ prob.x = prob.y \/ IsChannelBroadcast(prob)
        /\ IsChannelBroadcast(prob) => prob.channelsLast
    BY <2>1, <2>2, ProblemAssumption
  <2> QED
    BY <2>1, <2>3, <2>4, <2>5 DEF Accepted
<1> QED
  BY LoweredInvariance, <1>1, PTL

\* The products of hardswish and the shifted differences of sub fit an int32 for
\* every scale, zero point and element: _HARDSWISH_MAX_RELU_Q6 and SHIFT_INT8 are
\* small enough for the widest difference of two int8.
THEOREM WidthsCorrect == Spec => []NoInt32Overflow
<1>1. IInv /\ Lowered => NoInt32Overflow
  <2> SUFFICES ASSUME IInv, Lowered, pc = "run"
               PROVE  /\ inst.target = "hardswish" =>
                           \A i \in DOMAIN prob.xs :
                             Abs(HardswishProduct(prob.xs[i])) <= IntMax
                      /\ inst.target = "sub" =>
                           /\ \A i \in DOMAIN prob.xs :
                                Abs((prob.xs[i] - inst.zx) * Pow2(Left)) <= IntMax
                           /\ \A i \in DOMAIN prob.ys :
                                Abs((prob.ys[i] - inst.zy) * Pow2(Left)) <= IntMax
    BY DEF NoInt32Overflow
  <2>1. prob \in UNION Problems /\ inst = Replacement(prob) /\ inst # Kept
    BY DEF IInv, Typed, Lowered
  <2>2. prob.op \in {"sub", "hardswish", "mean", "leaky_relu", "relu"}
    BY <2>1, ProblemAssumption
  <2>3. CASE inst.target = "hardswish"
    <3>1. prob.op = "hardswish"
      BY <2>1, <2>2, <2>3, SubInstruction, MeanInstruction, LeakyReluInstruction,
         ReluInstruction
    <3> QED
      BY <2>1, <2>3, <3>1, HardswishBound
  <2>4. CASE inst.target = "sub"
    <3>1. prob.op = "sub" /\ inst.zx = prob.qx.z /\ inst.zy = prob.qy.z
      BY <2>1, <2>4, OnlySub
    <3>2. inst.zx \in QMin..QMax /\ inst.zy \in QMin..QMax
      BY <2>1, <3>1, QuantizationType DEF IsQuantization
    <3>3. /\ prob.xs \in [Offsets(prob.x) -> QMin..QMax]
          /\ prob.ys \in [Offsets(prob.y) -> QMin..QMax]
      BY <2>1, <3>1, ProblemAssumption
    <3>4. ASSUME NEW i \in DOMAIN prob.xs
          PROVE  Abs((prob.xs[i] - inst.zx) * Pow2(Left)) <= IntMax
      <4>1. prob.xs[i] \in QMin..QMax
        BY <3>3
      <4> QED
        BY <3>2, <4>1, ShiftBound
    <3>5. ASSUME NEW i \in DOMAIN prob.ys
          PROVE  Abs((prob.ys[i] - inst.zy) * Pow2(Left)) <= IntMax
      <4>1. prob.ys[i] \in QMin..QMax
        BY <3>3
      <4> QED
        BY <3>2, <4>1, ShiftBound
    <3> QED
      BY <2>4, <3>4, <3>5
  <2> QED
    BY <2>3, <2>4
<1> QED
  BY LoweredInvariance, <1>1, PTL

\* Whatever the kernels have written, wherever a call failed, is what the Python
\* reference computes for that element, and a finished operator has written all of
\* them: the loop of sub skips none and takes of each operand the element that
\* broadcasting gives, the axis mask of mean selects the dimensions the pass meant,
\* and relu's shortcut is the full computation.
THEOREM ReferenceCorrect == Spec => []MatchesReference
<1>1. IInv /\ Lowered /\ Written => MatchesReference
  <2> SUFFICES ASSUME IInv, Lowered, Written, NEW i \in DOMAIN out
               PROVE  /\ out[i] # Unwritten => out[i] = Reference(prob, i)
                      /\ pc = "done" => out[i] # Unwritten
    BY DEF MatchesReference
  <2>1. CASE prob.op # "sub"
    BY <2>1, Ends DEF Written
  <2>2. CASE prob.op = "sub"
    <3> SUFFICES ASSUME out[i] # Unwritten \/ pc = "done"
                 PROVE  out[i] = Reference(prob, i) /\ out[i] # Unwritten
      OBVIOUS
    <3>1. pc \in {"run", "failed", "done"} /\ Subtracting
      BY <2>2 DEF IInv, Typed, Fresh
    <3>2. /\ Shaped(prob) /\ DOMAIN out = Offsets(OutShape(prob)) /\ WrittenBefore(offset)
          /\ pc = "done" => offset >= Numel(OutShape(prob))
      BY <3>1 DEF IInv, Looping
    <3>3. /\ prob \in UNION Problems /\ inst = Replacement(prob) /\ inst # Kept
      BY <3>1 DEF IInv, Typed, Lowered
    <3> DEFINE n == SubsPerLoop(prob)
               size == Numel(OutShape(prob))
    <3>4. PICK k \in Nat : offset = k * n
      BY <3>1 DEF IInv, Looping
    <3>5. n \in Nat /\ size \in Nat /\ \E m \in Nat : size = m * n
      BY <2>2, <3>2, <3>3, BlocksOf
    <3>6. i \in 0..(size - 1)
      BY <3>2 DEF Offsets
    <3> HIDE DEF size
    <3>7. offset \in Nat
      BY <3>4, <3>5
    <3>8. i < offset
      BY <3>2, <3>5, <3>6, <3>7 DEF WrittenBefore, size
    <3>9. out[i] = SubReference(prob, i)
      BY <3>2, <3>8 DEF WrittenBefore
    <3>10. SubReference(prob, i) \in Int8
      <4>1. n > 0
        <5>1. n = 0 => offset = 0
          BY <3>4, <3>5
        <5> QED
          BY <3>5, <3>6, <3>7, <3>8, <5>1
      <4>2. PICK j \in Nat : i \in (j * n)..(j * n + n - 1)
        <5> DEFINE q == i \div n
                   r == i % n
        <5>1. q = i \div n /\ r = i % n
          OBVIOUS
        <5> HIDE DEF q, r
        <5>2. q \in Int /\ r \in 0..(n - 1) /\ i = n * q + r /\ i \in Nat
          <6>1. n \in Nat /\ n > 0 /\ i \in Nat
            BY <3>5, <3>6, <4>1
          <6> HIDE DEF n
          <6> QED
            BY <5>1, <6>1, DivMod
        <5>3. q \in Nat
          <6> SUFFICES ASSUME q < 0 PROVE FALSE
            BY <5>2
          <6>1. PICK e \in Nat : q = -1 - e
            <7>1. -1 - q \in Nat /\ q = -1 - (-1 - q)
              BY <5>2
            <7> QED
              BY <7>1
          <6>2. n * q = -n - n * e /\ n * e >= 0 /\ n * e \in Int
            BY <3>5, <6>1
          <6> QED
            BY <3>5, <5>2, <6>2
        <5>4. n * q = q * n /\ q * n \in Nat
          BY <3>5, <5>3
        <5>5. i \in (q * n)..(q * n + n - 1)
          BY <3>5, <5>2, <5>3, <5>4
        <5> QED
          BY <5>3, <5>5
      <4>3. j * n \in Nat /\ j * n < size
        BY <3>5, <3>6, <4>2
      <4> DEFINE o == j * n
      <4>4. /\ Broadcast(prob, prob.x, i) \in Offsets(prob.x)
            /\ Broadcast(prob, prob.y, i) \in Offsets(prob.y)
        <5>1. o \in Nat /\ o = j * n /\ o < Numel(OutShape(prob)) /\ i \in o..(o + n - 1)
          BY <4>2, <4>3 DEF size
        <5> HIDE DEF o
        <5> QED
          BY <2>2, <3>2, <3>3, <3>5, <5>1, BlockIndex
      <4> QED
        BY <2>2, <3>3, <4>4, SubWritten
    <3>11. Reference(prob, i) = SubReference(prob, i)
      BY <2>2 DEF Reference
    <3> QED
      BY <3>9, <3>10, <3>11, Ends
  <2> QED
    BY <2>1, <2>2
<1> QED
  BY WrittenInvariance, <1>1, PTL
==============================================================================
