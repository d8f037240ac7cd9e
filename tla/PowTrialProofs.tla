--------------------------- MODULE PowTrialProofs ---------------------------
(***************************************************************************)
(* Proofs about FieldDot and PowTrial: products are folded in time, the    *)
(* words of the CPU and of the kernels are the exact ones for every shape  *)
(* and every matrix, the gate compares sigma with the scaled target, and   *)
(* both sides accept the same nonces.                                      *)
(***************************************************************************)
EXTENDS PowTrial, FieldDot, NaturalLemmas

-----------------------------------------------------------------------------
(* Arithmetic modulo Modulus, Mersenne number or not *)

\* Quotient and remainder by Base.
LEMMA Division ==
    ASSUME NEW x \in Nat
    PROVE  /\ x \div Base \in Nat
           /\ x % Base \in 0 .. Modulus
           /\ x = Base * (x \div Base) + (x % Base)
<1>1. Base \in Nat /\ Base > 0
  BY ModulusAssumption DEF Base
<1>2. /\ x \div Base \in Nat
      /\ x % Base \in 0 .. Base - 1
      /\ x = Base * (x \div Base) + (x % Base)
  BY <1>1, SMT
<1>. QED
  BY <1>2, ModulusAssumption DEF Base

\* Equal modulo Modulus.
Congruent(x, y) == \E k \in Int : x - y = k * Modulus

LEMMA CongruentTransitive ==
    ASSUME NEW x \in Int, NEW y \in Int, NEW z \in Int,
           Congruent(x, y), Congruent(y, z)
    PROVE  Congruent(x, z)
<1>1. PICK j \in Int : x - y = j * Modulus
  BY DEF Congruent
<1>2. PICK k \in Int : y - z = k * Modulus
  BY DEF Congruent
<1>3. x - z = (j + k) * Modulus
  BY <1>1, <1>2, ModulusAssumption
<1>. QED
  BY <1>3 DEF Congruent

LEMMA CongruentSymmetric ==
    ASSUME NEW x \in Int, NEW y \in Int, Congruent(x, y)
    PROVE  Congruent(y, x)
<1>1. PICK k \in Int : x - y = k * Modulus
  BY DEF Congruent
<1>2. y - x = (-k) * Modulus
  BY <1>1, ModulusAssumption
<1>. QED
  BY <1>2 DEF Congruent

LEMMA CongruentSum ==
    ASSUME NEW x \in Int, NEW y \in Int, NEW z \in Int, Congruent(x, y)
    PROVE  Congruent(x + z, y + z)
<1>1. PICK k \in Int : x - y = k * Modulus
  BY DEF Congruent
<1>2. (x + z) - (y + z) = k * Modulus
  BY <1>1, ModulusAssumption
<1>. QED
  BY <1>2 DEF Congruent

\* Two elements that are congruent are the same.
LEMMA CongruentElements ==
    ASSUME NEW x \in Elements, NEW y \in Elements, Congruent(x, y)
    PROVE  x = y
<1>1. PICK k \in Int : x - y = k * Modulus
  BY DEF Congruent
<1>2. x \in Nat /\ y \in Nat /\ x < Modulus /\ y < Modulus
  BY ModulusAssumption DEF Elements
<1>3. ~ k >= 1
  <2>1. k >= 1 => k * Modulus >= Modulus
    BY ModulusAssumption
  <2>. QED
    BY <1>1, <1>2, <2>1, ModulusAssumption
<1>4. ~ k <= -1
  <2>1. k <= -1 => k * Modulus <= -Modulus
    BY ModulusAssumption
  <2>. QED
    BY <1>1, <1>2, <2>1, ModulusAssumption
<1>5. k = 0
  BY <1>3, <1>4
<1>. QED
  BY <1>1, <1>2, <1>5, ModulusAssumption

\* Folding changes a number by a multiple of the modulus.
LEMMA FoldCongruent ==
    ASSUME NEW x \in Nat
    PROVE  Fold(x) \in Nat /\ Congruent(x, Fold(x))
<1>. DEFINE q == x \div Base
            r == x % Base
<1>1. q \in Nat /\ r \in Nat /\ x = Base * q + r
  BY Division, ModulusAssumption
<1>. HIDE DEF q, r
<1>2. x - (r + q) = q * Modulus
  BY <1>1, ModulusAssumption DEF Base
<1>3. Fold(x) = r + q
  BY DEF Fold, q, r
<1>. QED
  BY <1>1, <1>2, <1>3 DEF Congruent

\* After two folds little more than an element is left of a 64-bit word.
LEMMA TwoFoldsBounded ==
    ASSUME NEW x \in 0 .. Wide - 1
    PROVE  /\ TwoFolds(x) \in 0 .. Modulus + 4
           /\ Congruent(x, TwoFolds(x))
<1>. DEFINE q == x \div Base
            y == Fold(x)
<1>1. x \in Nat /\ Base \in Nat /\ Base > 0 /\ x < 4 * Base * Base
  BY ModulusAssumption DEF Base, Wide
<1>2. q \in Nat /\ Base * q <= x
  BY <1>1, Division DEF Base
<1>3. q < 4 * Base
  <2>1. q >= 4 * Base => Base * q >= 4 * Base * Base
    BY <1>1, <1>2
  <2>. QED
    BY <1>1, <1>2, <2>1
<1>4. y \in Nat /\ y <= 5 * Modulus + 3
  BY <1>1, <1>3, Division, ModulusAssumption DEF Fold, Base
<1>5. y \div Base \in Nat /\ y \div Base <= 4
  <2>. HIDE DEF y
  <2>1. y \div Base \in Nat /\ Base * (y \div Base) <= y
    BY <1>1, <1>4, SMT
  <2>2. y \div Base >= 5 => Base * (y \div Base) >= 5 * Base
    BY <1>1, <2>1
  <2>. QED
    BY <1>4, <2>1, <2>2, ModulusAssumption DEF Base
<1>6. Fold(y) \in 0 .. Modulus + 4
  BY <1>4, <1>5, Division, ModulusAssumption DEF Fold
<1>7. Congruent(x, y) /\ Congruent(y, Fold(y)) /\ Fold(y) \in Nat
  BY <1>1, <1>4, FoldCongruent
<1>8. Congruent(x, Fold(y))
  BY <1>1, <1>4, <1>7, CongruentTransitive
<1>. QED
  BY <1>6, <1>8 DEF TwoFolds

\* "Double Mersenne fold reduction ... Safe for all uint64 inputs."
LEMMA Reduce64Correct ==
    ASSUME NEW x \in 0 .. Wide - 1
    PROVE  Reduce64(x) \in Elements /\ Congruent(x, Reduce64(x))
<1>. DEFINE t == TwoFolds(x)
<1>1. x \in Int /\ t \in 0 .. Modulus + 4 /\ Congruent(x, t)
  BY TwoFoldsBounded
<1>2. CASE t >= Modulus
  <2>1. Reduce64(x) = t - Modulus
    BY <1>2 DEF Reduce64
  <2>2. t - Modulus \in Elements
    BY <1>1, <1>2, ModulusAssumption DEF Elements
  <2>3. Congruent(t, t - Modulus)
    <3>1. t - (t - Modulus) = 1 * Modulus
      BY <1>1, ModulusAssumption
    <3>. QED
      BY <3>1 DEF Congruent
  <2>4. Congruent(x, t - Modulus)
    BY <1>1, <2>2, <2>3, CongruentTransitive, ModulusAssumption DEF Elements
  <2>. QED
    BY <2>1, <2>2, <2>4
<1>3. CASE ~ t >= Modulus
  <2>1. Reduce64(x) = t
    BY <1>3 DEF Reduce64
  <2>2. t \in Elements
    BY <1>1, <1>3, ModulusAssumption DEF Elements
  <2>. QED
    BY <1>1, <2>1, <2>2
<1>. QED
  BY <1>2, <1>3
-----------------------------------------------------------------------------
\* The numbers that are multiplied are at most Modulus and Modulus + 1: what the
\* kernels multiply need not be elements.
LargestProduct == Modulus * (Modulus + 1)
Bound(p) == p * LargestProduct + Modulus + 4

\* What holds of an accumulator beside a number of pending terms and the sum.
Accumulated(a, p, sum) ==
    /\ a \in Nat
    /\ a <= Bound(p)
    /\ Congruent(a, sum)

\* The inductive invariant: the size of an accumulator goes with pending.
DotInv ==
    /\ pending \in 0 .. ReduceInterval - 1
    /\ exact \in Elements
    /\ Accumulated(acc, pending, exact)
    /\ Accumulated(gpuAcc, pending, exact)

\* Four products and what a fold leaves fit the word.
LEMMA BoundFits ==
    ASSUME NEW p \in 0 .. ReduceInterval - 1
    PROVE  /\ Bound(p) \in Nat
           /\ Bound(p + 1) = Bound(p) + LargestProduct
           /\ Bound(p + 1) < Wide
<1>. DEFINE s == LargestProduct
<1>1. s \in Nat /\ Wide = 4 * s + 4 * Modulus + 4 /\ Wide \in Nat
  BY ModulusAssumption DEF Wide, Base, LargestProduct
<1>2. p \in Nat /\ p <= 3
  BY DEF ReduceInterval
<1>. HIDE DEF s
<1>3. p * s \in Nat /\ (p + 1) * s = p * s + s /\ p * s + s <= 4 * s
  BY <1>1, <1>2
<1>4. Bound(p) = p * s + Modulus + 4 /\ Bound(p + 1) = (p + 1) * s + Modulus + 4
  BY DEF Bound, s
<1>5. /\ Bound(p) \in Nat
      /\ Bound(p + 1) = Bound(p) + s
      /\ Bound(p + 1) < Wide
  BY <1>1, <1>3, <1>4, ModulusAssumption
<1>. QED
  BY <1>5 DEF s

LEMMA ProductBounded ==
    ASSUME NEW a \in 0 .. Modulus, NEW b \in 0 .. Modulus + 1
    PROVE  a * b \in Nat /\ a * b <= LargestProduct
<1>1. a * b \in Nat /\ a * b <= Modulus * b
  BY ModulusAssumption
<1>2. Modulus * b <= Modulus * (Modulus + 1)
  BY ModulusAssumption
<1>. QED
  BY <1>1, <1>2, ModulusAssumption DEF LargestProduct

LEMMA ExactStep ==
    ASSUME NEW sum \in Elements, NEW p \in Nat
    PROVE  /\ (sum + p) % Modulus \in Elements
           /\ Congruent(sum + p, (sum + p) % Modulus)
<1>. DEFINE x == sum + p
<1>1. x \in Nat
  BY ModulusAssumption DEF Elements
<1>. HIDE DEF x
<1>2. /\ x % Modulus \in 0 .. Modulus - 1
      /\ x \div Modulus \in Nat
      /\ x = Modulus * (x \div Modulus) + (x % Modulus)
  BY <1>1, ModulusAssumption, SMT
<1>3. x - (x % Modulus) = (x \div Modulus) * Modulus
  BY <1>1, <1>2, ModulusAssumption
<1>4. x % Modulus \in Elements /\ Congruent(x, x % Modulus)
  BY <1>2, <1>3 DEF Congruent, Elements
<1>. QED
  BY <1>4 DEF x

\* One term more: the sum fits, and so does what the fold makes of it.
LEMMA AddTerm ==
    ASSUME NEW a, NEW p \in 0 .. ReduceInterval - 1, NEW sum \in Elements,
           NEW product \in Nat, product <= LargestProduct,
           Accumulated(a, p, sum)
    PROVE  /\ (a + product) % Wide = a + product
           /\ a + product \in 0 .. Wide - 1
           /\ Accumulated(a + product, p + 1, (sum + product) % Modulus)
<1>. DEFINE x == a + product
            e == (sum + product) % Modulus
<1>1. a \in Nat /\ a <= Bound(p) /\ Congruent(a, sum)
  BY DEF Accumulated
<1>2. LargestProduct \in Nat /\ Wide \in Nat
  BY ModulusAssumption DEF Wide, Base, LargestProduct
<1>3. x \in Nat /\ x <= Bound(p + 1) /\ Bound(p + 1) < Wide
  BY <1>1, <1>2, BoundFits
<1>4. x \in 0 .. Wide - 1
  BY <1>2, <1>3, BoundFits
<1>5. x % Wide = x
  <2>. HIDE DEF x
  <2>. QED
    BY <1>2, <1>3, <1>4, SMT
<1>6. sum + product \in Int /\ sum \in Int /\ e \in Elements /\ e \in Int
  BY ExactStep, ModulusAssumption DEF Elements
<1>7. Congruent(x, sum + product) /\ Congruent(sum + product, e)
  <2>1. Congruent(a + product, sum + product)
    <3>1. PICK k \in Int : a - sum = k * Modulus
      BY <1>1 DEF Congruent
    <3>2. (a + product) - (sum + product) = k * Modulus
      BY <1>1, <1>6, <3>1, ModulusAssumption
    <3>. QED
      BY <3>2 DEF Congruent
  <2>2. Congruent(sum + product, (sum + product) % Modulus)
    BY ExactStep
  <2>. QED
    BY <2>1, <2>2
<1>8. Congruent(x, e)
  BY <1>3, <1>6, <1>7, CongruentTransitive
<1>. QED
  BY <1>3, <1>4, <1>5, <1>8 DEF Accumulated

LEMMA CpuStepAccumulates ==
    ASSUME NEW a, NEW p \in 0 .. ReduceInterval - 1, NEW sum \in Elements,
           NEW product \in Nat, product <= LargestProduct,
           Accumulated(a, p, sum)
    PROVE  Accumulated(CpuStep(a, product, p + 1), (p + 1) % ReduceInterval,
                       (sum + product) % Modulus)
<1>. DEFINE x == a + product
            e == (sum + product) % Modulus
<1>1. x % Wide = x /\ x \in 0 .. Wide - 1 /\ Accumulated(x, p + 1, e)
  BY AddTerm
<1>2. CASE p = 3
  <2>1. CpuStep(a, product, p + 1) = Reduce64(x) /\ (p + 1) % ReduceInterval = 0
    BY <1>1, <1>2 DEF CpuStep, Due, ReduceInterval
  <2>2. Reduce64(x) \in Elements /\ Congruent(x, Reduce64(x))
    BY <1>1, Reduce64Correct
  <2>3. x \in Int /\ e \in Int /\ Reduce64(x) \in Int /\ Congruent(x, e)
    BY <1>1, <2>2, ExactStep, ModulusAssumption DEF Accumulated, Elements
  <2>4. Congruent(Reduce64(x), e)
    BY <2>2, <2>3, CongruentSymmetric, CongruentTransitive
  <2>5. Reduce64(x) \in Nat /\ Reduce64(x) <= Bound(0)
    BY <2>2, ModulusAssumption DEF Elements, Bound, LargestProduct
  <2>. QED
    BY <2>1, <2>4, <2>5 DEF Accumulated
<1>3. CASE p # 3
  <2>1. CpuStep(a, product, p + 1) = x /\ (p + 1) % ReduceInterval = p + 1
    BY <1>1, <1>3 DEF CpuStep, Due, ReduceInterval
  <2>. QED
    BY <1>1, <2>1
<1>. QED
  BY <1>2, <1>3

LEMMA GpuStepAccumulates ==
    ASSUME NEW a, NEW p \in 0 .. ReduceInterval - 1, NEW sum \in Elements,
           NEW product \in Nat, product <= LargestProduct,
           Accumulated(a, p, sum)
    PROVE  Accumulated(GpuStep(a, product, p + 1), (p + 1) % ReduceInterval,
                       (sum + product) % Modulus)
<1>. DEFINE x == a + product
            e == (sum + product) % Modulus
<1>1. x % Wide = x /\ x \in 0 .. Wide - 1 /\ Accumulated(x, p + 1, e)
  BY AddTerm
<1>2. CASE p = 3
  <2>1. GpuStep(a, product, p + 1) = TwoFolds(x) /\ (p + 1) % ReduceInterval = 0
    BY <1>1, <1>2 DEF GpuStep, Due, ReduceInterval
  <2>2. TwoFolds(x) \in 0 .. Modulus + 4 /\ Congruent(x, TwoFolds(x))
    BY <1>1, TwoFoldsBounded
  <2>3. x \in Int /\ e \in Int /\ TwoFolds(x) \in Int /\ Congruent(x, e)
    BY <1>1, <2>2, ExactStep, ModulusAssumption DEF Accumulated, Elements
  <2>4. Congruent(TwoFolds(x), e)
    BY <2>2, <2>3, CongruentSymmetric, CongruentTransitive
  <2>5. TwoFolds(x) \in Nat /\ TwoFolds(x) <= Bound(0)
    BY <2>2, ModulusAssumption DEF Bound, LargestProduct
  <2>. QED
    BY <2>1, <2>4, <2>5 DEF Accumulated
<1>3. CASE p # 3
  <2>1. GpuStep(a, product, p + 1) = x /\ (p + 1) % ReduceInterval = p + 1
    BY <1>1, <1>3 DEF GpuStep, Due, ReduceInterval
  <2>. QED
    BY <1>1, <2>1
<1>. QED
  BY <1>2, <1>3

-----------------------------------------------------------------------------
LEMMA DotInvariant == DotSpec => []DotInv
<1>1. DotInit => DotInv
  <2>1. SUFFICES ASSUME DotInit PROVE DotInv
    OBVIOUS
  <2>2. acc = 0 /\ gpuAcc = 0 /\ pending = 0 /\ exact = 0
    BY <2>1 DEF DotInit
  <2>3. 0 - 0 = 0 * Modulus
    BY ModulusAssumption
  <2>4. Congruent(0, 0)
    BY <2>3 DEF Congruent
  <2>5. 0 <= Bound(0) /\ 0 \in Elements
    BY ModulusAssumption DEF Bound, Elements, LargestProduct
  <2>. QED
    BY <2>2, <2>4, <2>5 DEF DotInv, Accumulated, ReduceInterval
<1>2. DotInv /\ [Accumulate]_dotVars => DotInv'
  <2>1. SUFFICES ASSUME DotInv, Accumulate PROVE DotInv'
    BY DEF DotInv, Accumulated, Congruent, Bound, dotVars
  <2>2. PICK a \in Samples, b \in Samples :
          /\ acc' = CpuStep(acc, a * b, pending + 1)
          /\ gpuAcc' = GpuStep(gpuAcc, a * b, pending + 1)
          /\ pending' = (pending + 1) % ReduceInterval
          /\ exact' = (exact + a * b) % Modulus
    BY <2>1 DEF Accumulate
  <2>3. a * b \in Nat /\ a * b <= LargestProduct
    BY SamplesAssumption, ProductBounded, ModulusAssumption DEF Elements
  <2>4. pending \in 0 .. ReduceInterval - 1 /\ exact \in Elements
    BY <2>1 DEF DotInv
  <2>5. pending' \in 0 .. ReduceInterval - 1 /\ exact' \in Elements
    BY <2>2, <2>3, <2>4, ExactStep DEF ReduceInterval
  <2>6. Accumulated(acc', pending', exact')
    BY <2>1, <2>2, <2>3, <2>4, CpuStepAccumulates DEF DotInv
  <2>7. Accumulated(gpuAcc', pending', exact')
    BY <2>1, <2>2, <2>3, <2>4, GpuStepAccumulates DEF DotInv
  <2>. QED
    BY <2>5, <2>6, <2>7 DEF DotInv, Accumulated, Congruent, Bound
<1>. QED
  BY <1>1, <1>2, PTL DEF DotSpec

\* An accumulator of the invariant leaves room for a product and is a word.
LEMMA AccumulatedFits ==
    ASSUME NEW a, NEW p \in 0 .. ReduceInterval - 1, NEW sum,
           Accumulated(a, p, sum)
    PROVE  /\ a \in 0 .. Wide - 1
           /\ a + (Modulus - 1) * (Modulus - 1) < Wide
<1>1. /\ (Modulus - 1) * (Modulus - 1) \in Nat /\ LargestProduct \in Nat
      /\ (Modulus - 1) * (Modulus - 1) <= LargestProduct /\ Wide \in Nat
  BY ModulusAssumption DEF Wide, Base, LargestProduct
<1>. QED
  BY <1>1, BoundFits DEF Accumulated

\* No sum of products wraps the 64-bit word, in rows of any length and for any
\* modulus: REDUCE_INTERVAL (field.cpp:33, matmul_kernel.cu:801) is small enough
\* for folds that leave a little more than an element.
THEOREM NoDotProductWraps == DotSpec => []ProductStillFits
<1>1. DotInv => ProductStillFits
  BY AccumulatedFits DEF DotInv, ProductStillFits
<1>. QED
  BY <1>1, DotInvariant, PTL

\* ScalarDot and d_dot return the dot product, for rows of any length.
THEOREM DotProductsExact == DotSpec => []DotIsExact
<1>1. ASSUME NEW a, Accumulated(a, pending, exact), DotInv
      PROVE  Reduce64(a) = exact
  <2>1. pending \in 0 .. ReduceInterval - 1 /\ exact \in Elements
    BY <1>1 DEF DotInv
  <2>2. a \in 0 .. Wide - 1 /\ a \in Int
    BY <1>1, <2>1, AccumulatedFits DEF Accumulated
  <2>3. Reduce64(a) \in Elements /\ Congruent(a, Reduce64(a))
    BY <2>2, Reduce64Correct
  <2>4. Reduce64(a) \in Int /\ exact \in Int
    BY <2>1, <2>3, ModulusAssumption DEF Elements
  <2>5. Congruent(Reduce64(a), exact)
    BY <1>1, <2>2, <2>3, <2>4, CongruentSymmetric, CongruentTransitive
       DEF Accumulated
  <2>. QED
    BY <2>1, <2>3, <2>5, CongruentElements
<1>2. DotInv => DotIsExact
  BY <1>1 DEF DotInv, DotIsExact
<1>. QED
  BY <1>2, DotInvariant, PTL

-----------------------------------------------------------------------------
(* Sums *)

IsTotal(h, f, m) == h = [i \in 0 .. m |-> IF i = 0 THEN 0 ELSE h[i - 1] + f[i - 1]]
Terms(f, n) == \A i \in 0 .. n - 1 : f[i] \in Int

LEMMA TotalSolves ==
    ASSUME NEW n \in Nat, NEW f, Terms(f, n), NEW step,
           step = [k \in 1 .. n |-> [v \in Int |-> v + f[k - 1]]], NEW m \in 0 .. n
    PROVE  \E h : Solves(h, m, Int, 0, step) /\ Total(f, m) = h[m]
<1>1. step \in [1 .. n -> [Int -> Int]]
  BY DEF Terms
<1>2. PICK g \in [0 .. m -> Int] : Iterates(g, m, 0, step)
  <2> DEFINE S == Int
  <2>1. 0 \in S /\ step \in [1 .. n -> [S -> S]]
    BY <1>1
  <2> HIDE DEF S
  <2>2. \E g \in [0 .. m -> S] : Iterates(g, m, 0, step)
    BY <2>1, ShorterIterationExists
  <2> QED
    BY <2>2 DEF S
<1>3. \A i \in 0 .. m : g[i] = IF i = 0 THEN 0 ELSE g[i - 1] + f[i - 1]
  <2>1. \A i \in 0 .. m : g[i] = IF i = 0 THEN 0 ELSE step[i][g[i - 1]]
    BY <1>2 DEF Iterates
  <2>2. \A i \in 1 .. m : step[i][g[i - 1]] = g[i - 1] + f[i - 1]
    <3> SUFFICES ASSUME NEW i \in 1 .. m PROVE step[i][g[i - 1]] = g[i - 1] + f[i - 1]
      OBVIOUS
    <3>1. g[i - 1] \in Int /\ i \in 1 .. n
      BY <1>2
    <3> QED
      BY <3>1
  <2>3. \A i \in 0 .. m : i # 0 => i \in 1 .. m
    OBVIOUS
  <2> QED
    BY <2>1, <2>2, <2>3, Zenon
<1>4. IsTotal(g, f, m)
  BY <1>2, <1>3 DEF IsTotal
<1> DEFINE h == CHOOSE k : IsTotal(k, f, m)
<1>5. IsTotal(h, f, m)
  BY <1>4, Zenon
<1>6. Total(f, m) = h[m]
  BY DEF Total, IsTotal
<1> HIDE DEF h
<1>7. h[0] = 0 /\ \A i \in 1 .. m : h[i] = h[i - 1] + f[i - 1]
  BY <1>5 DEF IsTotal
<1>8. \A i \in 1 .. m : h[i - 1] \in Int => h[i] = step[i][h[i - 1]]
  <2> SUFFICES ASSUME NEW i \in 1 .. m, h[i - 1] \in Int
               PROVE  h[i] = step[i][h[i - 1]]
    OBVIOUS
  <2>1. i \in 1 .. n
    OBVIOUS
  <2> QED
    BY <1>7, <2>1
<1> QED
  BY <1>6, <1>7, <1>8 DEF Solves

LEMMA TotalUnfolds ==
    ASSUME NEW n \in Nat, NEW f, Terms(f, n)
    PROVE  /\ Total(f, 0) = 0
           /\ \A k \in 0 .. n : Total(f, k) \in Int
           /\ \A k \in 1 .. n : Total(f, k) = Total(f, k - 1) + f[k - 1]
<1> DEFINE step == [k \in 1 .. n |-> [v \in Int |-> v + f[k - 1]]]
           value == [k \in 0 .. n |-> Total(f, k)]
<1>1. step \in [1 .. n -> [Int -> Int]]
  BY DEF Terms
<1>2. ASSUME NEW m \in 0 .. n
      PROVE  \E h : Solves(h, m, Int, 0, step) /\ value[m] = h[m]
  <2>1. step = [k \in 1 .. n |-> [v \in Int |-> v + f[k - 1]]]
    OBVIOUS
  <2>2. value[m] = Total(f, m)
    OBVIOUS
  <2> HIDE DEF step, value
  <2>3. \E h : Solves(h, m, Int, 0, step) /\ Total(f, m) = h[m]
    BY <2>1, TotalSolves
  <2> QED
    BY <2>2, <2>3
<1>3. /\ value[0] = 0 /\ \A k \in 0 .. n : value[k] \in Int
      /\ \A k \in 1 .. n : value[k] = step[k][value[k - 1]]
  <2> DEFINE S == Int
  <2> HIDE DEF step, value
  <2>1. 0 \in S /\ step \in [1 .. n -> [S -> S]]
    BY <1>1
  <2>2. \A m \in 0 .. n : \E h : Solves(h, m, S, 0, step) /\ value[m] = h[m]
    BY <1>2
  <2> HIDE DEF S
  <2>3. /\ value[0] = 0 /\ \A k \in 0 .. n : value[k] \in S
        /\ \A k \in 1 .. n : value[k] = step[k][value[k - 1]]
    BY <2>1, <2>2, RecursionUnfolds
  <2> QED
    BY <2>3 DEF S
<1>4. \A k \in 0 .. n : value[k] = Total(f, k)
  OBVIOUS
<1>5. \A k \in 1 .. n : step[k][value[k - 1]] = value[k - 1] + f[k - 1]
  <2> SUFFICES ASSUME NEW k \in 1 .. n PROVE step[k][value[k - 1]] = value[k - 1] + f[k - 1]
    OBVIOUS
  <2>1. value[k - 1] \in Int
    BY <1>3
  <2> HIDE DEF value
  <2> QED
    BY <2>1
<1> HIDE DEF value, step
<1>6. \A k \in 1 .. n : k - 1 \in 0 .. n
  OBVIOUS
<1> QED
  BY <1>3, <1>4, <1>5, <1>6

LEMMA TotalOfNaturals ==
    ASSUME NEW n \in Nat, NEW f, \A i \in 0 .. n - 1 : f[i] \in Nat
    PROVE  \A k \in 0 .. n : Total(f, k) \in Nat
<1> DEFINE R == {k \in 0 .. n : Total(f, k) \in Nat}
<1>1. Terms(f, n)
  BY DEF Terms
<1>2. 0 \in R
  BY <1>1, TotalUnfolds
<1>3. ASSUME NEW k \in 1 .. n, k - 1 \in R PROVE k \in R
  <2>1. Total(f, k) = Total(f, k - 1) + f[k - 1] /\ f[k - 1] \in Nat
    BY <1>1, TotalUnfolds
  <2> QED
    BY <1>3, <2>1
<1> HIDE DEF R
<1>4. 0 .. n \subseteq R
  BY <1>2, <1>3, InductionOverTurns
<1> QED
  BY <1>4 DEF R

\* Terms that are equal have the same sum.
LEMMA TotalDepends ==
    ASSUME NEW n \in Nat, NEW f, NEW g, Terms(f, n), \A i \in 0 .. n - 1 : f[i] = g[i]
    PROVE  Total(f, n) = Total(g, n)
<1> DEFINE R == {k \in 0 .. n : Total(f, k) = Total(g, k)}
<1>1. Terms(g, n)
  BY DEF Terms
<1>2. 0 \in R
  BY <1>1, TotalUnfolds
<1>3. ASSUME NEW k \in 1 .. n, k - 1 \in R PROVE k \in R
  <2>1. /\ Total(f, k) = Total(f, k - 1) + f[k - 1]
        /\ Total(g, k) = Total(g, k - 1) + g[k - 1]
    BY <1>1, TotalUnfolds
  <2>2. f[k - 1] = g[k - 1]
    OBVIOUS
  <2> QED
    BY <1>3, <2>1, <2>2
<1> HIDE DEF R
<1>4. 0 .. n \subseteq R
  BY <1>2, <1>3, InductionOverTurns
<1> QED
  BY <1>4 DEF R

-----------------------------------------------------------------------------
(* Congruent numbers *)

LEMMA CongruentReflexive ==
    ASSUME NEW x \in Int
    PROVE  Congruent(x, x)
<1>1. x - x = 0 * Modulus
  BY ModulusAssumption
<1> QED
  BY <1>1 DEF Congruent

LEMMA CongruentSums ==
    ASSUME NEW x \in Int, NEW y \in Int, NEW u \in Int, NEW v \in Int,
           Congruent(x, y), Congruent(u, v)
    PROVE  Congruent(x + u, y + v)
<1>1. PICK j \in Int : x - y = j * Modulus
  BY DEF Congruent
<1>2. PICK k \in Int : u - v = k * Modulus
  BY DEF Congruent
<1>3. (x + u) - (y + v) = (j + k) * Modulus
  BY <1>1, <1>2, ModulusAssumption
<1> QED
  BY <1>3 DEF Congruent

LEMMA CongruentProducts ==
    ASSUME NEW x \in Int, NEW y \in Int, NEW u \in Int, NEW v \in Int,
           Congruent(x, y), Congruent(u, v)
    PROVE  Congruent(x * u, y * v)
<1>1. PICK j \in Int : x - y = j * Modulus
  BY DEF Congruent
<1>2. PICK k \in Int : u - v = k * Modulus
  BY DEF Congruent
<1>3. x * u - y * u = (j * u) * Modulus
  <2>1. x * u - y * u = (x - y) * u
    OBVIOUS
  <2>2. (x - y) * u = (j * Modulus) * u
    BY <1>1
  <2>3. (j * Modulus) * u = (j * u) * Modulus
    BY ModulusAssumption
  <2> QED
    BY <2>1, <2>2, <2>3
<1>4. y * u - y * v = (y * k) * Modulus
  <2>1. y * u - y * v = y * (u - v)
    OBVIOUS
  <2>2. y * (u - v) = y * (k * Modulus)
    BY <1>2
  <2>3. y * (k * Modulus) = (y * k) * Modulus
    BY ModulusAssumption
  <2> QED
    BY <2>1, <2>2, <2>3
<1>5. Congruent(x * u, y * u) /\ Congruent(y * u, y * v)
  BY <1>3, <1>4 DEF Congruent
<1> QED
  BY <1>5, CongruentTransitive

LEMMA Remainder ==
    ASSUME NEW x \in Int
    PROVE  /\ x % Modulus \in Elements /\ x % Modulus \in Nat
           /\ Congruent(x, x % Modulus) /\ Congruent(x % Modulus, x)
<1>1. /\ x % Modulus \in 0 .. Modulus - 1
      /\ x \div Modulus \in Int
      /\ x = Modulus * (x \div Modulus) + (x % Modulus)
  BY ModulusAssumption, SMT
<1>2. x - (x % Modulus) = (x \div Modulus) * Modulus
  BY <1>1, ModulusAssumption
<1>3. x % Modulus \in Elements /\ Congruent(x, x % Modulus) /\ x % Modulus \in Nat
  BY <1>1, <1>2 DEF Congruent, Elements
<1> QED
  BY <1>3, CongruentSymmetric

\* Whatever is congruent to a number and an element is its remainder.
LEMMA RemainderUnique ==
    ASSUME NEW x \in Int, NEW y \in Elements, Congruent(x, y)
    PROVE  x % Modulus = y
<1>1. x % Modulus \in Elements /\ Congruent(x % Modulus, x) /\ x % Modulus \in Int /\ y \in Int
  BY Remainder, ModulusAssumption DEF Elements
<1>2. Congruent(x % Modulus, y)
  BY <1>1, CongruentTransitive
<1> QED
  BY <1>1, <1>2, CongruentElements

LEMMA ElementsAreNumbers == \A x \in Elements : x \in Nat /\ x \in Int
BY ModulusAssumption DEF Elements

LEMMA AddCorrect ==
    ASSUME NEW x \in Elements, NEW y \in Elements
    PROVE  Add(x, y) \in Elements /\ Congruent(Add(x, y), x + y)
<1>1. CASE x + y >= Modulus
  <2>1. Add(x, y) = x + y - Modulus /\ x + y - Modulus \in Elements
    BY <1>1, ModulusAssumption DEF Add, Elements
  <2>2. (x + y - Modulus) - (x + y) = (-1) * Modulus
    BY ModulusAssumption DEF Elements
  <2> QED
    BY <2>1, <2>2 DEF Congruent
<1>2. CASE ~ x + y >= Modulus
  <2>1. Add(x, y) = x + y /\ x + y \in Elements /\ x + y \in Int
    BY <1>2, ModulusAssumption DEF Add, Elements
  <2> QED
    BY <2>1, CongruentReflexive
<1> QED
  BY <1>1, <1>2

\* Congruent terms have congruent sums.
LEMMA TotalCongruent ==
    ASSUME NEW n \in Nat, NEW f, NEW g, Terms(f, n), Terms(g, n),
           \A i \in 0 .. n - 1 : Congruent(f[i], g[i])
    PROVE  Congruent(Total(f, n), Total(g, n))
<1> DEFINE R == {k \in 0 .. n : Congruent(Total(f, k), Total(g, k))}
<1>1. 0 \in R
  <2>1. Total(f, 0) = 0 /\ Total(g, 0) = 0 /\ 0 \in 0 .. n
    BY TotalUnfolds
  <2> QED
    BY <2>1, CongruentReflexive
<1>2. ASSUME NEW k \in 1 .. n, k - 1 \in R PROVE k \in R
  <2>1. /\ Total(f, k) = Total(f, k - 1) + f[k - 1]
        /\ Total(g, k) = Total(g, k - 1) + g[k - 1]
    BY TotalUnfolds
  <2>2. /\ f[k - 1] \in Int /\ g[k - 1] \in Int /\ k - 1 \in 0 .. n - 1
        /\ k - 1 \in 0 .. n /\ k \in 0 .. n
    BY DEF Terms
  <2>3. Total(f, k - 1) \in Int /\ Total(g, k - 1) \in Int
    BY <2>2, TotalUnfolds
  <2>4. Congruent(Total(f, k - 1), Total(g, k - 1)) /\ Congruent(f[k - 1], g[k - 1])
    BY <1>2, <2>2
  <2>5. Congruent(Total(f, k - 1) + f[k - 1], Total(g, k - 1) + g[k - 1])
    BY <2>2, <2>3, <2>4, CongruentSums
  <2> QED
    BY <2>1, <2>2, <2>5
<1> HIDE DEF R
<1>3. 0 .. n \subseteq R
  BY <1>1, <1>2, InductionOverTurns
<1> QED
  BY <1>3 DEF R

-----------------------------------------------------------------------------
(* The sums of field elements, and the accumulators of the dot products *)

IsFieldTotal(h, f, m) ==
    h = [i \in 0 .. m |-> IF i = 0 THEN 0 ELSE Add(h[i - 1], f[i - 1])]

LEMMA FieldTotalRecursion ==
    ASSUME NEW n \in Nat, NEW f, \A i \in 0 .. n - 1 : f[i] \in Elements
    PROVE  \E h : /\ FieldTotal(f, n) = h[n] /\ h[0] = 0
                  /\ \A i \in 1 .. n : h[i] = Add(h[i - 1], f[i - 1])
<1> DEFINE step == [k \in 1 .. n |-> [v \in Elements |-> Add(v, f[k - 1])]]
<1>1. step \in [1 .. n -> [Elements -> Elements]] /\ 0 \in Elements
  <2>1. \A k \in 1 .. n : k - 1 \in 0 .. n - 1
    OBVIOUS
  <2>2. \A k \in 1 .. n : \A v \in Elements : Add(v, f[k - 1]) \in Elements
    BY <2>1, AddCorrect
  <2>3. 0 \in Elements
    BY ModulusAssumption DEF Elements
  <2> QED
    BY <2>2, <2>3
<1>2. PICK g \in [0 .. n -> Elements] : Iterates(g, n, 0, step)
  <2> DEFINE S == Elements
  <2>1. 0 \in S /\ step \in [1 .. n -> [S -> S]]
    BY <1>1
  <2> HIDE DEF S, step
  <2>2. \E g \in [0 .. n -> S] : Iterates(g, n, 0, step)
    BY <2>1, IterationExists
  <2> QED
    BY <2>2 DEF S
<1>3. \A i \in 0 .. n : g[i] = IF i = 0 THEN 0 ELSE Add(g[i - 1], f[i - 1])
  <2>1. \A i \in 0 .. n : g[i] = IF i = 0 THEN 0 ELSE step[i][g[i - 1]]
    BY <1>2 DEF Iterates
  <2>2. ASSUME NEW i \in 1 .. n PROVE step[i][g[i - 1]] = Add(g[i - 1], f[i - 1])
    <3>1. g[i - 1] \in Elements
      BY <1>2
    <3> QED
      BY <3>1
  <2>3. \A i \in 0 .. n : i # 0 => i \in 1 .. n
    OBVIOUS
  <2> HIDE DEF step
  <2> QED
    BY <2>1, <2>2, <2>3, Zenon
<1>4. IsFieldTotal(g, f, n)
  BY <1>2, <1>3 DEF IsFieldTotal
<1> DEFINE h == CHOOSE k : IsFieldTotal(k, f, n)
<1>5. IsFieldTotal(h, f, n)
  BY <1>4, Zenon
<1>6. FieldTotal(f, n) = h[n]
  BY DEF FieldTotal, IsFieldTotal
<1> HIDE DEF h
<1>7. h[0] = 0 /\ \A i \in 1 .. n : h[i] = Add(h[i - 1], f[i - 1])
  BY <1>5 DEF IsFieldTotal
<1> QED
  BY <1>6, <1>7

\* field::add, again and again, gives the sum as an element.
LEMMA FieldTotalCorrect ==
    ASSUME NEW n \in Nat, NEW f, \A i \in 0 .. n - 1 : f[i] \in Elements
    PROVE  /\ FieldTotal(f, n) \in Elements
           /\ Congruent(FieldTotal(f, n), Total(f, n))
<1>1. PICK h : /\ FieldTotal(f, n) = h[n] /\ h[0] = 0
               /\ \A i \in 1 .. n : h[i] = Add(h[i - 1], f[i - 1])
  BY FieldTotalRecursion
<1>2. Terms(f, n)
  BY ElementsAreNumbers DEF Terms
<1> DEFINE R == {k \in 0 .. n : h[k] \in Elements /\ Congruent(h[k], Total(f, k))}
<1>3. 0 \in R
  <2>1. Total(f, 0) = 0 /\ 0 \in Elements /\ 0 \in 0 .. n
    BY <1>2, TotalUnfolds, ModulusAssumption DEF Elements
  <2> QED
    BY <1>1, <2>1, CongruentReflexive
<1>4. ASSUME NEW k \in 1 .. n, k - 1 \in R PROVE k \in R
  <2>1. /\ k - 1 \in 0 .. n /\ k - 1 \in 0 .. n - 1 /\ k \in 0 .. n
        /\ h[k - 1] \in Elements /\ Congruent(h[k - 1], Total(f, k - 1))
    BY <1>4
  <2>2. f[k - 1] \in Elements /\ h[k] = Add(h[k - 1], f[k - 1])
    BY <1>1, <2>1
  <2>3. Total(f, k) = Total(f, k - 1) + f[k - 1] /\ Total(f, k - 1) \in Int
    BY <1>2, <2>1, TotalUnfolds
  <2>4. h[k] \in Elements /\ Congruent(h[k], h[k - 1] + f[k - 1])
    BY <2>1, <2>2, AddCorrect
  <2>5. h[k] \in Int /\ h[k - 1] \in Int /\ f[k - 1] \in Int
    BY <2>1, <2>2, <2>4, ElementsAreNumbers
  <2>6. Congruent(h[k - 1] + f[k - 1], Total(f, k - 1) + f[k - 1])
    BY <2>1, <2>3, <2>5, CongruentSum
  <2>7. Congruent(h[k], Total(f, k - 1) + f[k - 1])
    BY <2>3, <2>4, <2>5, <2>6, CongruentTransitive
  <2> QED
    BY <2>1, <2>3, <2>4, <2>7
<1> HIDE DEF R
<1>5. 0 .. n \subseteq R
  BY <1>3, <1>4, InductionOverTurns
<1> QED
  BY <1>1, <1>5 DEF R

LEMMA CpuStepType == \A a, p, i \in Nat : CpuStep(a, p, i) \in Nat
<1> SUFFICES ASSUME NEW a \in Nat, NEW p \in Nat, NEW i \in Nat
             PROVE  CpuStep(a, p, i) \in Nat
  OBVIOUS
<1>1. (a + p) % Wide \in 0 .. Wide - 1
  <2>1. a + p \in Nat /\ Wide \in Nat /\ Wide > 0
    BY ModulusAssumption DEF Wide, Base
  <2> QED
    BY <2>1, SMT
<1>2. Reduce64((a + p) % Wide) \in Nat
  BY <1>1, Reduce64Correct, ModulusAssumption DEF Elements
<1> QED
  BY <1>1, <1>2 DEF CpuStep

IsCpuAcc(h, f, m) ==
    h = [i \in 0 .. m |-> IF i = 0 THEN 0 ELSE CpuStep(h[i - 1], f[i - 1], i)]

LEMMA CpuAccRecursion ==
    ASSUME NEW n \in Nat, NEW f, \A i \in 0 .. n - 1 : f[i] \in Nat
    PROVE  \E h : /\ CpuAcc(f, n) = h[n] /\ h[0] = 0
                  /\ \A i \in 1 .. n : h[i] = CpuStep(h[i - 1], f[i - 1], i)
<1> DEFINE step == [k \in 1 .. n |-> [v \in Nat |-> CpuStep(v, f[k - 1], k)]]
<1>1. step \in [1 .. n -> [Nat -> Nat]] /\ 0 \in Nat
  <2>1. \A k \in 1 .. n : k - 1 \in 0 .. n - 1
    OBVIOUS
  <2>2. \A k \in 1 .. n : \A v \in Nat : CpuStep(v, f[k - 1], k) \in Nat
    <3>1. \A k \in 1 .. n : k \in Nat /\ f[k - 1] \in Nat
      BY <2>1
    <3> QED
      BY <3>1, CpuStepType
  <2>3. 0 \in Nat
    BY ModulusAssumption DEF Elements
  <2> QED
    BY <2>2, <2>3
<1>2. PICK g \in [0 .. n -> Nat] : Iterates(g, n, 0, step)
  <2> DEFINE S == Nat
  <2>1. 0 \in S /\ step \in [1 .. n -> [S -> S]]
    BY <1>1
  <2> HIDE DEF S, step
  <2>2. \E g \in [0 .. n -> S] : Iterates(g, n, 0, step)
    BY <2>1, IterationExists
  <2> QED
    BY <2>2 DEF S
<1>3. \A i \in 0 .. n : g[i] = IF i = 0 THEN 0 ELSE CpuStep(g[i - 1], f[i - 1], i)
  <2>1. \A i \in 0 .. n : g[i] = IF i = 0 THEN 0 ELSE step[i][g[i - 1]]
    BY <1>2 DEF Iterates
  <2>2. ASSUME NEW i \in 1 .. n PROVE step[i][g[i - 1]] = CpuStep(g[i - 1], f[i - 1], i)
    <3>1. g[i - 1] \in Nat
      BY <1>2
    <3> QED
      BY <3>1
  <2>3. \A i \in 0 .. n : i # 0 => i \in 1 .. n
    OBVIOUS
  <2> HIDE DEF step
  <2> QED
    BY <2>1, <2>2, <2>3, Zenon
<1>4. IsCpuAcc(g, f, n)
  BY <1>2, <1>3 DEF IsCpuAcc
<1> DEFINE h == CHOOSE k : IsCpuAcc(k, f, n)
<1>5. IsCpuAcc(h, f, n)
  BY <1>4, Zenon
<1>6. CpuAcc(f, n) = h[n]
  BY DEF CpuAcc, IsCpuAcc
<1> HIDE DEF h
<1>7. h[0] = 0 /\ \A i \in 1 .. n : h[i] = CpuStep(h[i - 1], f[i - 1], i)
  BY <1>5 DEF IsCpuAcc
<1> QED
  BY <1>6, <1>7

\* The accumulator of len products: the sum, of the size that goes with the
\* products since the last fold.
LEMMA CpuAccCorrect ==
    ASSUME NEW n \in Nat, NEW f, \A i \in 0 .. n - 1 : f[i] \in 0 .. LargestProduct
    PROVE  /\ n % ReduceInterval \in 0 .. ReduceInterval - 1
           /\ Accumulated(CpuAcc(f, n), n % ReduceInterval, Total(f, n) % Modulus)
<1>1. PICK h : /\ CpuAcc(f, n) = h[n] /\ h[0] = 0
               /\ \A i \in 1 .. n : h[i] = CpuStep(h[i - 1], f[i - 1], i)
  <2>1. \A i \in 0 .. n - 1 : f[i] \in Nat
    OBVIOUS
  <2> QED
    BY <2>1, CpuAccRecursion
<1>2. Terms(f, n)
  BY DEF Terms
<1> DEFINE R == {k \in 0 .. n : Accumulated(h[k], k % ReduceInterval, Total(f, k) % Modulus)}
<1>3. 0 \in R
  <2>1. Total(f, 0) = 0 /\ 0 % ReduceInterval = 0 /\ 0 \in 0 .. n
    BY <1>2, TotalUnfolds DEF ReduceInterval
  <2>2. 0 <= Bound(0)
    BY ModulusAssumption DEF Bound, LargestProduct
  <2> QED
    BY <1>1, <2>1, <2>2, Remainder DEF Accumulated
<1>4. ASSUME NEW k \in 1 .. n, k - 1 \in R PROVE k \in R
  <2> DEFINE p == (k - 1) % ReduceInterval
             sum == Total(f, k - 1) % Modulus
  <2>1. /\ k - 1 \in 0 .. n /\ k - 1 \in 0 .. n - 1 /\ k \in 0 .. n
        /\ Accumulated(h[k - 1], p, sum)
    BY <1>4
  <2>2. /\ p \in 0 .. ReduceInterval - 1
        /\ (p + 1) % ReduceInterval = k % ReduceInterval
        /\ Due(k) <=> Due(p + 1)
    BY DEF ReduceInterval, Due
  <2>3. /\ f[k - 1] \in Nat /\ f[k - 1] <= LargestProduct
        /\ h[k] = CpuStep(h[k - 1], f[k - 1], k)
    BY <1>1, <2>1, ModulusAssumption DEF LargestProduct
  <2>4. Total(f, k) = Total(f, k - 1) + f[k - 1] /\ Total(f, k - 1) \in Int
    BY <1>2, <2>1, TotalUnfolds
  <2>5. sum \in Elements
    BY <2>4, Remainder
  <2> HIDE DEF p, sum
  <2>6. Accumulated(CpuStep(h[k - 1], f[k - 1], p + 1), (p + 1) % ReduceInterval,
                    (sum + f[k - 1]) % Modulus)
    BY <2>1, <2>2, <2>3, <2>5, CpuStepAccumulates
  <2>7. CpuStep(h[k - 1], f[k - 1], p + 1) = h[k]
    BY <2>2, <2>3 DEF CpuStep
  <2>8. (sum + f[k - 1]) % Modulus = Total(f, k) % Modulus
    <3>1. sum \in Int /\ Congruent(sum, Total(f, k - 1))
      BY <2>4, Remainder, ElementsAreNumbers DEF sum
    <3>2. Congruent(sum + f[k - 1], Total(f, k - 1) + f[k - 1])
      <4>1. f[k - 1] \in Int /\ Total(f, k - 1) \in Int
        BY <2>3, <2>4
      <4> QED
        BY <3>1, <4>1, CongruentSum
    <3>3. /\ Total(f, k) % Modulus \in Elements
          /\ Congruent(Total(f, k), Total(f, k) % Modulus)
          /\ Total(f, k) % Modulus \in Int /\ Total(f, k) \in Int /\ sum + f[k - 1] \in Int
      BY <2>3, <2>4, <3>1, Remainder
    <3>4. Congruent(sum + f[k - 1], Total(f, k) % Modulus)
      BY <2>4, <3>2, <3>3, CongruentTransitive
    <3> QED
      BY <3>3, <3>4, RemainderUnique
  <2> QED
    BY <2>1, <2>2, <2>6, <2>7, <2>8
<1> HIDE DEF R
<1>5. 0 .. n \subseteq R
  BY <1>3, <1>4, InductionOverTurns
<1>6. n % ReduceInterval \in 0 .. ReduceInterval - 1
  BY DEF ReduceInterval
<1> QED
  BY <1>1, <1>5, <1>6 DEF R

LEMMA ScalarDotCorrect ==
    ASSUME NEW n \in Nat, NEW f, \A i \in 0 .. n - 1 : f[i] \in 0 .. LargestProduct
    PROVE  ScalarDot(f, n) \in Elements /\ Congruent(ScalarDot(f, n), Total(f, n))
<1> DEFINE a == CpuAcc(f, n)
           sum == Total(f, n) % Modulus
<1>1. Accumulated(a, n % ReduceInterval, sum) /\ n % ReduceInterval \in 0 .. ReduceInterval - 1
  BY CpuAccCorrect
<1>2. Total(f, n) \in Int /\ sum \in Elements /\ sum \in Int /\ Congruent(sum, Total(f, n))
  <2>1. Terms(f, n)
    BY DEF Terms
  <2> QED
    BY <2>1, TotalUnfolds, Remainder
<1> HIDE DEF a, sum
<1>3. a \in 0 .. Wide - 1 /\ a \in Int /\ Congruent(a, sum)
  BY <1>1, AccumulatedFits DEF Accumulated
<1>4. Reduce64(a) \in Elements /\ Reduce64(a) \in Int /\ Congruent(Reduce64(a), a)
  BY <1>3, Reduce64Correct, CongruentSymmetric, ElementsAreNumbers
<1>5. Congruent(Reduce64(a), Total(f, n))
  BY <1>2, <1>3, <1>4, CongruentTransitive
<1> QED
  BY <1>4, <1>5 DEF ScalarDot, a

LEMMA GpuStepType == \A a, p, i \in Nat : GpuStep(a, p, i) \in Nat
<1> SUFFICES ASSUME NEW a \in Nat, NEW p \in Nat, NEW i \in Nat
             PROVE  GpuStep(a, p, i) \in Nat
  OBVIOUS
<1>1. (a + p) % Wide \in 0 .. Wide - 1
  <2>1. a + p \in Nat /\ Wide \in Nat /\ Wide > 0
    BY ModulusAssumption DEF Wide, Base
  <2> QED
    BY <2>1, SMT
<1>2. TwoFolds((a + p) % Wide) \in Nat
  BY <1>1, TwoFoldsBounded, ModulusAssumption DEF Elements
<1> QED
  BY <1>1, <1>2 DEF GpuStep

IsGpuAcc(h, f, m) ==
    h = [i \in 0 .. m |-> IF i = 0 THEN 0 ELSE GpuStep(h[i - 1], f[i - 1], i)]

LEMMA GpuAccRecursion ==
    ASSUME NEW n \in Nat, NEW f, \A i \in 0 .. n - 1 : f[i] \in Nat
    PROVE  \E h : /\ GpuAcc(f, n) = h[n] /\ h[0] = 0
                  /\ \A i \in 1 .. n : h[i] = GpuStep(h[i - 1], f[i - 1], i)
<1> DEFINE step == [k \in 1 .. n |-> [v \in Nat |-> GpuStep(v, f[k - 1], k)]]
<1>1. step \in [1 .. n -> [Nat -> Nat]] /\ 0 \in Nat
  <2>1. \A k \in 1 .. n : k - 1 \in 0 .. n - 1
    OBVIOUS
  <2>2. \A k \in 1 .. n : \A v \in Nat : GpuStep(v, f[k - 1], k) \in Nat
    <3>1. \A k \in 1 .. n : k \in Nat /\ f[k - 1] \in Nat
      BY <2>1
    <3> QED
      BY <3>1, GpuStepType
  <2>3. 0 \in Nat
    BY ModulusAssumption DEF Elements
  <2> QED
    BY <2>2, <2>3
<1>2. PICK g \in [0 .. n -> Nat] : Iterates(g, n, 0, step)
  <2> DEFINE S == Nat
  <2>1. 0 \in S /\ step \in [1 .. n -> [S -> S]]
    BY <1>1
  <2> HIDE DEF S, step
  <2>2. \E g \in [0 .. n -> S] : Iterates(g, n, 0, step)
    BY <2>1, IterationExists
  <2> QED
    BY <2>2 DEF S
<1>3. \A i \in 0 .. n : g[i] = IF i = 0 THEN 0 ELSE GpuStep(g[i - 1], f[i - 1], i)
  <2>1. \A i \in 0 .. n : g[i] = IF i = 0 THEN 0 ELSE step[i][g[i - 1]]
    BY <1>2 DEF Iterates
  <2>2. ASSUME NEW i \in 1 .. n PROVE step[i][g[i - 1]] = GpuStep(g[i - 1], f[i - 1], i)
    <3>1. g[i - 1] \in Nat
      BY <1>2
    <3> QED
      BY <3>1
  <2>3. \A i \in 0 .. n : i # 0 => i \in 1 .. n
    OBVIOUS
  <2> HIDE DEF step
  <2> QED
    BY <2>1, <2>2, <2>3, Zenon
<1>4. IsGpuAcc(g, f, n)
  BY <1>2, <1>3 DEF IsGpuAcc
<1> DEFINE h == CHOOSE k : IsGpuAcc(k, f, n)
<1>5. IsGpuAcc(h, f, n)
  BY <1>4, Zenon
<1>6. GpuAcc(f, n) = h[n]
  BY DEF GpuAcc, IsGpuAcc
<1> HIDE DEF h
<1>7. h[0] = 0 /\ \A i \in 1 .. n : h[i] = GpuStep(h[i - 1], f[i - 1], i)
  BY <1>5 DEF IsGpuAcc
<1> QED
  BY <1>6, <1>7

\* The accumulator of len products: the sum, of the size that goes with the
\* products since the last fold.
LEMMA GpuAccCorrect ==
    ASSUME NEW n \in Nat, NEW f, \A i \in 0 .. n - 1 : f[i] \in 0 .. LargestProduct
    PROVE  /\ n % ReduceInterval \in 0 .. ReduceInterval - 1
           /\ Accumulated(GpuAcc(f, n), n % ReduceInterval, Total(f, n) % Modulus)
<1>1. PICK h : /\ GpuAcc(f, n) = h[n] /\ h[0] = 0
               /\ \A i \in 1 .. n : h[i] = GpuStep(h[i - 1], f[i - 1], i)
  <2>1. \A i \in 0 .. n - 1 : f[i] \in Nat
    OBVIOUS
  <2> QED
    BY <2>1, GpuAccRecursion
<1>2. Terms(f, n)
  BY DEF Terms
<1> DEFINE R == {k \in 0 .. n : Accumulated(h[k], k % ReduceInterval, Total(f, k) % Modulus)}
<1>3. 0 \in R
  <2>1. Total(f, 0) = 0 /\ 0 % ReduceInterval = 0 /\ 0 \in 0 .. n
    BY <1>2, TotalUnfolds DEF ReduceInterval
  <2>2. 0 <= Bound(0)
    BY ModulusAssumption DEF Bound, LargestProduct
  <2> QED
    BY <1>1, <2>1, <2>2, Remainder DEF Accumulated
<1>4. ASSUME NEW k \in 1 .. n, k - 1 \in R PROVE k \in R
  <2> DEFINE p == (k - 1) % ReduceInterval
             sum == Total(f, k - 1) % Modulus
  <2>1. /\ k - 1 \in 0 .. n /\ k - 1 \in 0 .. n - 1 /\ k \in 0 .. n
        /\ Accumulated(h[k - 1], p, sum)
    BY <1>4
  <2>2. /\ p \in 0 .. ReduceInterval - 1
        /\ (p + 1) % ReduceInterval = k % ReduceInterval
        /\ Due(k) <=> Due(p + 1)
    BY DEF ReduceInterval, Due
  <2>3. /\ f[k - 1] \in Nat /\ f[k - 1] <= LargestProduct
        /\ h[k] = GpuStep(h[k - 1], f[k - 1], k)
    BY <1>1, <2>1, ModulusAssumption DEF LargestProduct
  <2>4. Total(f, k) = Total(f, k - 1) + f[k - 1] /\ Total(f, k - 1) \in Int
    BY <1>2, <2>1, TotalUnfolds
  <2>5. sum \in Elements
    BY <2>4, Remainder
  <2> HIDE DEF p, sum
  <2>6. Accumulated(GpuStep(h[k - 1], f[k - 1], p + 1), (p + 1) % ReduceInterval,
                    (sum + f[k - 1]) % Modulus)
    BY <2>1, <2>2, <2>3, <2>5, GpuStepAccumulates
  <2>7. GpuStep(h[k - 1], f[k - 1], p + 1) = h[k]
    BY <2>2, <2>3 DEF GpuStep
  <2>8. (sum + f[k - 1]) % Modulus = Total(f, k) % Modulus
    <3>1. sum \in Int /\ Congruent(sum, Total(f, k - 1))
      BY <2>4, Remainder, ElementsAreNumbers DEF sum
    <3>2. Congruent(sum + f[k - 1], Total(f, k - 1) + f[k - 1])
      <4>1. f[k - 1] \in Int /\ Total(f, k - 1) \in Int
        BY <2>3, <2>4
      <4> QED
        BY <3>1, <4>1, CongruentSum
    <3>3. /\ Total(f, k) % Modulus \in Elements
          /\ Congruent(Total(f, k), Total(f, k) % Modulus)
          /\ Total(f, k) % Modulus \in Int /\ Total(f, k) \in Int /\ sum + f[k - 1] \in Int
      BY <2>3, <2>4, <3>1, Remainder
    <3>4. Congruent(sum + f[k - 1], Total(f, k) % Modulus)
      BY <2>4, <3>2, <3>3, CongruentTransitive
    <3> QED
      BY <3>3, <3>4, RemainderUnique
  <2> QED
    BY <2>1, <2>2, <2>6, <2>7, <2>8
<1> HIDE DEF R
<1>5. 0 .. n \subseteq R
  BY <1>3, <1>4, InductionOverTurns
<1>6. n % ReduceInterval \in 0 .. ReduceInterval - 1
  BY DEF ReduceInterval
<1> QED
  BY <1>1, <1>5, <1>6 DEF R

LEMMA GpuDotCorrect ==
    ASSUME NEW n \in Nat, NEW f, \A i \in 0 .. n - 1 : f[i] \in 0 .. LargestProduct
    PROVE  GpuDot(f, n) \in Elements /\ Congruent(GpuDot(f, n), Total(f, n))
<1> DEFINE a == GpuAcc(f, n)
           sum == Total(f, n) % Modulus
<1>1. Accumulated(a, n % ReduceInterval, sum) /\ n % ReduceInterval \in 0 .. ReduceInterval - 1
  BY GpuAccCorrect
<1>2. Total(f, n) \in Int /\ sum \in Elements /\ sum \in Int /\ Congruent(sum, Total(f, n))
  <2>1. Terms(f, n)
    BY DEF Terms
  <2> QED
    BY <2>1, TotalUnfolds, Remainder
<1> HIDE DEF a, sum
<1>3. a \in 0 .. Wide - 1 /\ a \in Int /\ Congruent(a, sum)
  BY <1>1, AccumulatedFits DEF Accumulated
<1>4. Reduce64(a) \in Elements /\ Reduce64(a) \in Int /\ Congruent(Reduce64(a), a)
  BY <1>3, Reduce64Correct, CongruentSymmetric, ElementsAreNumbers
<1>5. Congruent(Reduce64(a), Total(f, n))
  BY <1>2, <1>3, <1>4, CongruentTransitive
<1> QED
  BY <1>4, <1>5 DEF GpuDot, a

\* What d_reduce64 leaves of an accumulator: not much more than an element, and
\* even less unless three products are pending.
LEMMA TwoFoldsOfAccumulator ==
    ASSUME NEW n \in Nat, NEW f, \A i \in 0 .. n - 1 : f[i] \in 0 .. LargestProduct
    PROVE  /\ TwoFolds(GpuAcc(f, n)) \in 0 .. Modulus + 4
           /\ n % ReduceInterval # 3 => TwoFolds(GpuAcc(f, n)) \in 0 .. Modulus + 1
           /\ Congruent(TwoFolds(GpuAcc(f, n)), Total(f, n))
<1> DEFINE a == GpuAcc(f, n)
           sum == Total(f, n) % Modulus
           p == n % ReduceInterval
<1>1. Accumulated(a, p, sum) /\ p \in 0 .. ReduceInterval - 1
  BY GpuAccCorrect
<1>2. Total(f, n) \in Int /\ sum \in Elements /\ sum \in Int /\ Congruent(sum, Total(f, n))
  <2>1. Terms(f, n)
    BY DEF Terms
  <2> QED
    BY <2>1, TotalUnfolds, Remainder
<1> HIDE DEF a, sum, p
<1>3. a \in 0 .. Wide - 1 /\ a \in Nat /\ a \in Int /\ Congruent(a, sum)
  BY <1>1, AccumulatedFits DEF Accumulated
<1>4. TwoFolds(a) \in 0 .. Modulus + 4 /\ TwoFolds(a) \in Int /\ Congruent(TwoFolds(a), a)
  BY <1>3, TwoFoldsBounded, CongruentSymmetric, ModulusAssumption
<1>5. Congruent(TwoFolds(a), Total(f, n))
  BY <1>2, <1>3, <1>4, CongruentTransitive
<1>6. ASSUME p # 3 PROVE TwoFolds(a) <= Modulus + 1
  <2> DEFINE q == a \div Base
             r == a % Base
             y == Fold(a)
             t == y \div Base
             u == y % Base
  <2>1. a <= 2 * (Modulus * (Modulus + 1)) + Modulus + 4
    <3>1. p <= 2 /\ p \in Nat /\ LargestProduct \in Nat
      BY <1>1, <1>6, ModulusAssumption DEF ReduceInterval, LargestProduct
    <3>2. p * LargestProduct <= 2 * LargestProduct
      BY <3>1
    <3>3. a <= p * LargestProduct + Modulus + 4
      BY <1>1 DEF Accumulated, Bound
    <3> QED
      BY <1>3, <3>1, <3>2, <3>3, ModulusAssumption DEF LargestProduct
  <2>2. q \in Nat /\ r \in 0 .. Modulus /\ a = Base * q + r
    BY <1>3, Division
  <2>3. y = r + q
    BY DEF Fold
  <2>4. y \in Nat
    BY <2>2, <2>3, ModulusAssumption
  <2> HIDE DEF y
  <2>5. t \in Nat /\ u \in 0 .. Modulus /\ y = Base * t + u /\ TwoFolds(a) = u + t
    BY <2>4, Division DEF TwoFolds, Fold, y
  <2> HIDE DEF q, r, t, u
  <2>6. q <= 2 * Modulus + 1
    <3>1. q >= 2 * Modulus + 2 => Base * q >= Base * (2 * Modulus + 2)
      BY <2>2, ModulusAssumption DEF Base
    <3>2. Base * (2 * Modulus + 2) = 2 * (Modulus * (Modulus + 1)) + 2 * Modulus + 2
      BY ModulusAssumption DEF Base
    <3> QED
      BY <1>3, <2>1, <2>2, <3>1, <3>2, ModulusAssumption DEF Base
  <2>7. y <= 3 * Modulus
    <3>1. CASE q = 2 * Modulus + 1
      <4>1. Base * q = 2 * (Modulus * (Modulus + 1)) + Modulus + 1
        BY <3>1, ModulusAssumption DEF Base
      <4>2. r <= 3
        BY <1>3, <2>1, <2>2, <4>1, ModulusAssumption
      <4> QED
        BY <2>2, <2>3, <3>1, <4>2, ModulusAssumption
    <3>2. CASE q # 2 * Modulus + 1
      BY <2>2, <2>3, <2>6, <3>2, ModulusAssumption
    <3> QED
      BY <3>1, <3>2
  <2>8. t <= 2
    <3>1. t >= 3 => Base * t >= 3 * Base
      BY <2>5, ModulusAssumption DEF Base
    <3> QED
      BY <2>4, <2>5, <2>7, <3>1, ModulusAssumption DEF Base
  <2>9. CASE t = 2
    <3>1. Base * t = 2 * Modulus + 2
      BY <2>9, ModulusAssumption DEF Base
    <3> QED
      BY <2>4, <2>5, <2>7, <2>9, <3>1, ModulusAssumption
  <2>10. CASE t # 2
    BY <2>5, <2>8, <2>10, ModulusAssumption
  <2> QED
    BY <2>9, <2>10
<1> QED
  BY <1>4, <1>5, <1>6, ModulusAssumption DEF a, p

-----------------------------------------------------------------------------
(* Sums of sums *)

LEMMA TotalOfZeros ==
    ASSUME NEW n \in Nat, NEW f, \A i \in 0 .. n - 1 : f[i] = 0
    PROVE  Total(f, n) = 0
<1> DEFINE R == {k \in 0 .. n : Total(f, k) = 0}
<1>1. Terms(f, n)
  BY DEF Terms
<1>2. 0 \in R
  BY <1>1, TotalUnfolds
<1>3. ASSUME NEW k \in 1 .. n, k - 1 \in R PROVE k \in R
  <2>1. Total(f, k) = Total(f, k - 1) + f[k - 1] /\ f[k - 1] = 0
    BY <1>1, TotalUnfolds
  <2> QED
    BY <1>3, <2>1
<1> HIDE DEF R
<1>4. 0 .. n \subseteq R
  BY <1>2, <1>3, InductionOverTurns
<1> QED
  BY <1>4 DEF R

LEMMA TotalOfSums ==
    ASSUME NEW n \in Nat, NEW f, NEW g, NEW h, Terms(f, n), Terms(g, n),
           \A i \in 0 .. n - 1 : h[i] = f[i] + g[i]
    PROVE  Total(h, n) = Total(f, n) + Total(g, n)
<1> DEFINE R == {k \in 0 .. n : Total(h, k) = Total(f, k) + Total(g, k)}
<1>1. Terms(h, n)
  BY DEF Terms
<1>2. 0 \in R
  BY <1>1, TotalUnfolds
<1>3. ASSUME NEW k \in 1 .. n, k - 1 \in R PROVE k \in R
  <2>1. /\ Total(f, k) = Total(f, k - 1) + f[k - 1]
        /\ Total(g, k) = Total(g, k - 1) + g[k - 1]
        /\ Total(h, k) = Total(h, k - 1) + h[k - 1]
    BY <1>1, TotalUnfolds
  <2>2. /\ k - 1 \in 0 .. n - 1 /\ k - 1 \in 0 .. n /\ k \in 0 .. n
        /\ f[k - 1] \in Int /\ g[k - 1] \in Int
    BY DEF Terms
  <2>3. Total(f, k - 1) \in Int /\ Total(g, k - 1) \in Int /\ h[k - 1] = f[k - 1] + g[k - 1]
    BY <2>2, TotalUnfolds
  <2>4. Total(h, k - 1) = Total(f, k - 1) + Total(g, k - 1)
    BY <1>3
  <2>5. Total(h, k) = Total(f, k) + Total(g, k)
    BY <2>1, <2>2, <2>3, <2>4
  <2> QED
    BY <2>2, <2>5
<1> HIDE DEF R
<1>4. 0 .. n \subseteq R
  BY <1>2, <1>3, InductionOverTurns
<1> QED
  BY <1>4 DEF R

LEMMA TotalOfMultiples ==
    ASSUME NEW n \in Nat, NEW f, NEW h, NEW c \in Int, Terms(f, n),
           \A i \in 0 .. n - 1 : h[i] = f[i] * c
    PROVE  Total(h, n) = Total(f, n) * c
<1> DEFINE R == {k \in 0 .. n : Total(h, k) = Total(f, k) * c}
<1>1. Terms(h, n)
  BY DEF Terms
<1>2. 0 \in R
  BY <1>1, TotalUnfolds
<1>3. ASSUME NEW k \in 1 .. n, k - 1 \in R PROVE k \in R
  <2>1. /\ Total(f, k) = Total(f, k - 1) + f[k - 1]
        /\ Total(h, k) = Total(h, k - 1) + h[k - 1]
    BY <1>1, TotalUnfolds
  <2>2. /\ k - 1 \in 0 .. n - 1 /\ k - 1 \in 0 .. n /\ k \in 0 .. n /\ f[k - 1] \in Int
    BY DEF Terms
  <2>3. Total(f, k - 1) \in Int /\ h[k - 1] = f[k - 1] * c
    BY <2>2, TotalUnfolds
  <2>4. Total(h, k - 1) = Total(f, k - 1) * c
    BY <1>3
  <2>5. (Total(f, k - 1) + f[k - 1]) * c = Total(f, k - 1) * c + f[k - 1] * c
    BY <2>2, <2>3
  <2> QED
    BY <2>1, <2>2, <2>3, <2>4, <2>5
<1> HIDE DEF R
<1>4. 0 .. n \subseteq R
  BY <1>2, <1>3, InductionOverTurns
<1> QED
  BY <1>4 DEF R

\* A sum in two parts; g is the second.
LEMMA TotalSplits ==
    ASSUME NEW m \in Nat, NEW n \in Nat, NEW f, Terms(f, m + n), NEW g,
           \A i \in 0 .. n - 1 : g[i] = f[m + i]
    PROVE  Total(f, m + n) = Total(f, m) + Total(g, n)
<1> DEFINE R == {k \in 0 .. n : Total(f, m + k) = Total(f, m) + Total(g, k)}
<1>1. Terms(g, n)
  <2>1. \A i \in 0 .. n - 1 : m + i \in 0 .. (m + n) - 1
    OBVIOUS
  <2> QED
    BY <2>1 DEF Terms
<1>2. m \in 0 .. m + n /\ m + n \in Nat
  OBVIOUS
<1>3. 0 \in R
  <2>1. Total(f, m) \in Int /\ Total(g, 0) = 0 /\ m + 0 = m
    BY <1>1, <1>2, TotalUnfolds
  <2> QED
    BY <2>1
<1>4. ASSUME NEW k \in 1 .. n, k - 1 \in R PROVE k \in R
  <2>1. /\ m + k \in 1 .. m + n /\ (m + k) - 1 = m + (k - 1)
        /\ k - 1 \in 0 .. n - 1 /\ k \in 0 .. n /\ k - 1 \in 0 .. n
    OBVIOUS
  <2>2. Total(f, m + k) = Total(f, m + (k - 1)) + f[m + (k - 1)]
    BY <1>2, <2>1, TotalUnfolds
  <2>3. Total(g, k) = Total(g, k - 1) + g[k - 1] /\ Total(g, k - 1) \in Int
    BY <1>1, <2>1, TotalUnfolds
  <2>4. Total(f, m) \in Int /\ g[k - 1] = f[m + (k - 1)] /\ g[k - 1] \in Int
    BY <1>1, <1>2, <2>1, TotalUnfolds DEF Terms
  <2>5. Total(f, m + (k - 1)) = Total(f, m) + Total(g, k - 1)
    BY <1>4
  <2>6. Total(f, m + k) = Total(f, m) + Total(g, k)
    BY <2>2, <2>3, <2>4, <2>5
  <2> QED
    BY <2>1, <2>6
<1> HIDE DEF R
<1>5. 0 .. n \subseteq R
  BY <1>3, <1>4, InductionOverTurns
<1>6. n \in R
  BY <1>5
<1> QED
  BY <1>6 DEF R

\* The sum of a table of m rows and n columns, row by row and column by column.
Table(F, m, n) == \A l \in 0 .. m - 1 : \A c \in 0 .. n - 1 : F[<<l, c>>] \in Int
Row(F, l, n) == [c \in 0 .. n - 1 |-> F[<<l, c>>]]
Column(F, c, m) == [l \in 0 .. m - 1 |-> F[<<l, c>>]]
RowTotals(F, m, n) == [l \in 0 .. m - 1 |-> Total(Row(F, l, n), n)]
ColumnTotals(F, m, n) == [c \in 0 .. n - 1 |-> Total(Column(F, c, m), m)]
ByRows(F, m, n) == Total(RowTotals(F, m, n), m)
ByColumns(F, m, n) == Total(ColumnTotals(F, m, n), n)

LEMMA TableTypes ==
    ASSUME NEW m \in Nat, NEW n \in Nat, NEW F, Table(F, m, n), NEW k \in 0 .. m
    PROVE  /\ Table(F, k, n) /\ k \in Nat
           /\ \A l \in 0 .. k - 1 : Terms(Row(F, l, n), n)
           /\ \A c \in 0 .. n - 1 : Terms(Column(F, c, k), k)
           /\ Terms(RowTotals(F, k, n), k) /\ Terms(ColumnTotals(F, k, n), n)
           /\ ByRows(F, k, n) \in Int /\ ByColumns(F, k, n) \in Int
<1>1. Table(F, k, n) /\ k \in Nat
  BY DEF Table
<1>2. \A l \in 0 .. k - 1 : Terms(Row(F, l, n), n)
  BY <1>1 DEF Table, Terms, Row
<1>3. \A c \in 0 .. n - 1 : Terms(Column(F, c, k), k)
  BY <1>1 DEF Table, Terms, Column
<1>4. \A l \in 0 .. k - 1 : Total(Row(F, l, n), n) \in Int
  BY <1>2, TotalUnfolds
<1>5. \A c \in 0 .. n - 1 : Total(Column(F, c, k), k) \in Int
  BY <1>1, <1>3, TotalUnfolds
<1>6. Terms(RowTotals(F, k, n), k)
  BY <1>4 DEF Terms, RowTotals
<1>7. Terms(ColumnTotals(F, k, n), n)
  BY <1>5 DEF Terms, ColumnTotals
<1>8. ByRows(F, k, n) \in Int /\ ByColumns(F, k, n) \in Int
  BY <1>1, <1>6, <1>7, TotalUnfolds DEF ByRows, ByColumns
<1> QED
  BY <1>1, <1>2, <1>3, <1>6, <1>7, <1>8

\* One row more.
LEMMA RowsUnfold ==
    ASSUME NEW m \in Nat, NEW n \in Nat, NEW F, Table(F, m, n), NEW k \in 1 .. m
    PROVE  ByRows(F, k, n) = ByRows(F, k - 1, n) + Total(Row(F, k - 1, n), n)
<1> DEFINE rows == RowTotals(F, k, n)
           less == RowTotals(F, k - 1, n)
<1>1. k \in 0 .. m /\ k - 1 \in 0 .. m /\ k \in Nat /\ k - 1 \in Nat /\ k \in 1 .. k
  OBVIOUS
<1>2. Terms(rows, k) /\ Terms(less, k - 1)
  BY <1>1, TableTypes
<1>3. Total(rows, k) = Total(rows, k - 1) + rows[k - 1]
  BY <1>1, <1>2, TotalUnfolds
<1>4. \A l \in 0 .. (k - 1) - 1 : less[l] = rows[l]
  BY DEF RowTotals
<1>5. Total(less, k - 1) = Total(rows, k - 1)
  BY <1>1, <1>2, <1>4, TotalDepends
<1>6. rows[k - 1] = Total(Row(F, k - 1, n), n)
  BY DEF RowTotals
<1> QED
  BY <1>3, <1>5, <1>6 DEF ByRows

LEMMA SumsSwap ==
    ASSUME NEW m \in Nat, NEW n \in Nat, NEW F, Table(F, m, n)
    PROVE  ByRows(F, m, n) = ByColumns(F, m, n)
<1> DEFINE R == {k \in 0 .. m : ByRows(F, k, n) = ByColumns(F, k, n)}
<1>1. 0 \in R
  <2>1. 0 \in 0 .. m /\ Terms(RowTotals(F, 0, n), 0)
    BY TableTypes
  <2>2. ByRows(F, 0, n) = 0
    BY <2>1, TotalUnfolds DEF ByRows
  <2>3. \A c \in 0 .. n - 1 : ColumnTotals(F, 0, n)[c] = 0
    <3> SUFFICES ASSUME NEW c \in 0 .. n - 1 PROVE ColumnTotals(F, 0, n)[c] = 0
      OBVIOUS
    <3>1. Terms(Column(F, c, 0), 0)
      BY <2>1, TableTypes
    <3>2. Total(Column(F, c, 0), 0) = 0
      BY <3>1, TotalUnfolds
    <3> QED
      BY <3>2 DEF ColumnTotals
  <2>4. ByColumns(F, 0, n) = 0
    BY <2>3, TotalOfZeros DEF ByColumns
  <2> QED
    BY <2>1, <2>2, <2>4
<1>2. ASSUME NEW k \in 1 .. m, k - 1 \in R PROVE k \in R
  <2> DEFINE row == Row(F, k - 1, n)
             columns == ColumnTotals(F, k, n)
             less == ColumnTotals(F, k - 1, n)
  <2>1. k \in 0 .. m /\ k - 1 \in 0 .. m /\ k - 1 \in 0 .. k - 1 /\ k \in Nat
    OBVIOUS
  <2>2. Terms(row, n) /\ Terms(less, n) /\ \A c \in 0 .. n - 1 : Terms(Column(F, c, k), k)
    BY <2>1, TableTypes
  <2>3. ASSUME NEW c \in 0 .. n - 1 PROVE columns[c] = less[c] + row[c]
    <3> DEFINE whole == Column(F, c, k)
               part == Column(F, c, k - 1)
    <3>1. Terms(whole, k) /\ Terms(part, k - 1) /\ k - 1 \in Nat /\ k \in 1 .. k
      BY <2>1, <2>2, TableTypes
    <3>2. Total(whole, k) = Total(whole, k - 1) + whole[k - 1]
      BY <2>1, <3>1, TotalUnfolds
    <3>3. \A l \in 0 .. (k - 1) - 1 : part[l] = whole[l]
      BY DEF Column
    <3>4. Total(part, k - 1) = Total(whole, k - 1)
      BY <3>1, <3>3, TotalDepends
    <3>5. whole[k - 1] = row[c]
      BY <2>1 DEF Row, Column
    <3>6. columns[c] = Total(whole, k) /\ less[c] = Total(part, k - 1)
      BY DEF ColumnTotals
    <3> QED
      BY <3>2, <3>4, <3>5, <3>6
  <2> HIDE DEF row, columns, less
  <2>4. Total(columns, n) = Total(less, n) + Total(row, n)
    BY <2>2, <2>3, TotalOfSums
  <2>5. ByRows(F, k, n) = ByRows(F, k - 1, n) + Total(row, n)
    BY RowsUnfold DEF row
  <2>6. ByRows(F, k - 1, n) = ByColumns(F, k - 1, n)
    BY <1>2
  <2> QED
    BY <2>1, <2>4, <2>5, <2>6 DEF ByColumns, columns, less
<1> HIDE DEF R
<1>3. 0 .. m \subseteq R
  BY <1>1, <1>2, InductionOverTurns
<1>4. m \in R
  BY <1>3
<1> QED
  BY <1>4 DEF R

LEMMA DivideCell ==
    ASSUME NEW n \in Nat \ {0}, NEW q \in Nat, NEW c \in 0 .. n - 1
    PROVE  (q * n + c) \div n = q /\ (q * n + c) % n = c /\ q * n + c \in Nat
<1> DEFINE x == q * n + c
           d == x \div n
           r == x % n
<1>1. x \in Nat /\ q * n \in Nat
  OBVIOUS
<1> HIDE DEF x
<1>2. d \in Nat /\ r \in 0 .. n - 1 /\ x = n * d + r
  BY <1>1, SMT
<1> HIDE DEF d, r
<1>3. ~ d >= q + 1
  <2>1. d >= q + 1 => n * d >= n * (q + 1)
    BY <1>2
  <2>2. n * (q + 1) = q * n + n
    OBVIOUS
  <2> QED
    BY <1>1, <1>2, <2>1, <2>2 DEF x
<1>4. ~ d + 1 <= q
  <2>1. d + 1 <= q => n * (d + 1) <= n * q
    BY <1>2
  <2>2. n * (d + 1) = n * d + n /\ n * q = q * n
    BY <1>2
  <2> QED
    BY <1>1, <1>2, <2>1, <2>2 DEF x
<1>5. d = q
  BY <1>2, <1>3, <1>4
<1>6. r = c
  <2>1. n * d = q * n
    BY <1>5
  <2> QED
    BY <1>1, <1>2, <2>1 DEF x
<1> QED
  BY <1>1, <1>5, <1>6 DEF d, r, x

\* A table written in one row, f, has the same sum.
LEMMA SumsFlatten ==
    ASSUME NEW m \in Nat, NEW n \in Nat \ {0}, NEW F, Table(F, m, n), NEW f,
           \A l \in 0 .. m - 1 : \A c \in 0 .. n - 1 : f[l * n + c] = F[<<l, c>>]
    PROVE  Total(f, m * n) = ByRows(F, m, n)
<1> DEFINE R == {k \in 0 .. m : Total(f, k * n) = ByRows(F, k, n)}
<1>1. Terms(f, m * n) /\ m * n \in Nat
  <2>1. m * n \in Nat
    OBVIOUS
  <2>2. ASSUME NEW x \in 0 .. m * n - 1 PROVE f[x] \in Int
    <3> DEFINE l == x \div n
               c == x % n
    <3>1. l \in Nat /\ c \in 0 .. n - 1 /\ x = n * l + c
      BY <2>1, SMT
    <3> HIDE DEF l, c
    <3>2. ~ l >= m
      <4>1. l >= m => n * l >= n * m
        BY <3>1
      <4> QED
        BY <2>1, <3>1, <4>1
    <3>3. l \in 0 .. m - 1 /\ x = l * n + c
      BY <3>1, <3>2
    <3>4. F[<<l, c>>] \in Int
      BY <3>1, <3>3 DEF Table
    <3> QED
      BY <3>1, <3>3, <3>4
  <2> QED
    BY <2>1, <2>2 DEF Terms
<1>2. 0 \in R
  <2>1. Total(f, 0) = 0
    BY <1>1, TotalUnfolds
  <2>2. 0 \in 0 .. m /\ n \in Nat
    OBVIOUS
  <2>3. Terms(RowTotals(F, 0, n), 0)
    BY <2>2, TableTypes
  <2>4. ByRows(F, 0, n) = 0
    BY <2>3, TotalUnfolds DEF ByRows
  <2> QED
    BY <2>1, <2>2, <2>4
<1>3. ASSUME NEW k \in 1 .. m, k - 1 \in R PROVE k \in R
  <2> DEFINE a == (k - 1) * n
             row == Row(F, k - 1, n)
  <2>1. k \in 0 .. m /\ k - 1 \in 0 .. m - 1 /\ a \in Nat /\ k * n = a + n
    OBVIOUS
  <2>2. a + n <= m * n
    <3>1. n * k <= n * m
      OBVIOUS
    <3> QED
      BY <2>1, <3>1
  <2> HIDE DEF a
  <2>3. Terms(f, a + n)
    BY <1>1, <2>1, <2>2 DEF Terms
  <2>4. \A i \in 0 .. n - 1 : row[i] = f[a + i]
    BY <2>1 DEF Row, a
  <2> HIDE DEF row
  <2>5. Total(f, a + n) = Total(f, a) + Total(row, n)
    BY <2>1, <2>3, <2>4, TotalSplits
  <2>6. ByRows(F, k, n) = ByRows(F, k - 1, n) + Total(row, n)
    BY RowsUnfold DEF row
  <2>7. Total(f, a) = ByRows(F, k - 1, n)
    BY <1>3 DEF a
  <2> QED
    BY <2>1, <2>5, <2>6, <2>7
<1> HIDE DEF R
<1>4. 0 .. m \subseteq R
  BY <1>2, <1>3, InductionOverTurns
<1>5. m \in R
  BY <1>4
<1> QED
  BY <1>5 DEF R

-----------------------------------------------------------------------------
(* What the hashes yield *)

LEMMA FromOracleCorrect ==
    ASSUME NEW o, IsOracle(o)
    PROVE  FromOracle(o) \in Elements /\ FromMidstate(o) = FromOracle(o)
<1> DEFINE accepted == {k \in DOMAIN o.tries : o.tries[k] < Modulus}
           first == CHOOSE k \in accepted : \A l \in accepted : k <= l
<1>1. /\ accepted \subseteq Nat /\ o.fallback \in Nat
      /\ \A k \in accepted : o.tries[k] \in Elements
      /\ 0 \in DOMAIN o.tries
  BY ModulusAssumption DEF IsOracle, Elements
<1>2. FromOracle(o) = IF accepted = {} THEN o.fallback % Modulus ELSE o.tries[first]
  BY DEF FromOracle
<1>3. 0 \in accepted <=> o.tries[0] < Modulus
  BY <1>1
<1> HIDE DEF accepted
<1>4. CASE accepted = {}
  <2>1. o.fallback % Modulus \in Elements
    BY <1>1, Remainder
  <2>2. FromMidstate(o) = FromOracle(o)
    BY <1>3, <1>4 DEF FromMidstate
  <2> QED
    BY <1>2, <1>4, <2>1, <2>2
<1>5. CASE accepted # {}
  <2>1. \E k \in accepted : \A l \in accepted : k <= l
    BY <1>1, <1>5, LeastNatural
  <2>2. first \in accepted /\ \A l \in accepted : first <= l
    BY <2>1
  <2> HIDE DEF first
  <2>3. FromOracle(o) = o.tries[first] /\ o.tries[first] \in Elements
    BY <1>1, <1>2, <1>5, <2>2
  <2>4. CASE o.tries[0] < Modulus
    <3>1. first <= 0 /\ first \in Nat
      BY <1>1, <1>3, <2>2, <2>4
    <3>2. first = 0
      BY <3>1
    <3> QED
      BY <2>3, <2>4, <3>2 DEF FromMidstate
  <2>5. CASE ~ o.tries[0] < Modulus
    BY <2>3, <2>5 DEF FromMidstate
  <2> QED
    BY <2>3, <2>4, <2>5
<1> QED
  BY <1>4, <1>5

\* A matrix of numbers up to top.
Matrix(x, rows, cols, top) ==
    \A i \in 0 .. rows - 1 : \A j \in 0 .. cols - 1 : x[<<i, j>>] \in 0 .. top

\* The matrices, the noise and the weights of a nonce.
Drawn(s, x) ==
    /\ DOMAIN x.a = (0 .. s.n - 1) \X (0 .. s.n - 1) /\ Matrix(x.a, s.n, s.n, Modulus - 1)
    /\ DOMAIN x.b = (0 .. s.n - 1) \X (0 .. s.n - 1) /\ Matrix(x.b, s.n, s.n, Modulus - 1)
    /\ Matrix(x.el, s.n, s.r, Modulus - 1) /\ Matrix(x.er, s.r, s.n, Modulus - 1)
    /\ Matrix(x.fl, s.n, s.r, Modulus - 1) /\ Matrix(x.fr, s.r, s.n, Modulus - 1)
    /\ \A c \in 0 .. Cells(s) - 1 : x.w[c] \in Elements

LEMMA FilledMatrix ==
    ASSUME NEW m, NEW rows, NEW cols, DOMAIN m = (0 .. rows - 1) \X (0 .. cols - 1),
           \A p \in DOMAIN m : IsOracle(m[p]), NEW x,
           x = [i \in DOMAIN m |-> FromOracle(m[i])]
    PROVE  DOMAIN x = DOMAIN m /\ Matrix(x, rows, cols, Modulus - 1)
<1>1. ASSUME NEW i \in 0 .. rows - 1, NEW j \in 0 .. cols - 1
      PROVE  x[<<i, j>>] \in Elements
  <2>1. <<i, j>> \in DOMAIN m
    OBVIOUS
  <2>2. x[<<i, j>>] = FromOracle(m[<<i, j>>])
    BY <2>1
  <2> QED
    BY <2>1, <2>2, FromOracleCorrect
<1>2. DOMAIN x = DOMAIN m
  OBVIOUS
<1> QED
  BY <1>1, <1>2 DEF Matrix, Elements

\* Both sides draw the same elements: the kernel's first try from the midstate and
\* the CPU's loop accept the same candidates.
LEMMA DrawsAgree ==
    ASSUME NEW s \in Shape, NEW oracles, OraclesOf(s, oracles)
    PROVE  Drawn(s, CpuDraws(oracles)) /\ GpuDraws(oracles) = CpuDraws(oracles)
<1> DEFINE x == CpuDraws(oracles)
           M == {"a", "b", "el", "er", "fl", "fr", "w"}
<1>1. DOMAIN oracles = M /\ \A m \in M : \A i \in DOMAIN oracles[m] : IsOracle(oracles[m][i])
  BY DEF OraclesOf
<1>2. \A m \in M : x[m] = [i \in DOMAIN oracles[m] |-> FromOracle(oracles[m][i])]
  BY <1>1 DEF CpuDraws
<1>3. \A m \in M : [i \in DOMAIN oracles[m] |-> FromMidstate(oracles[m][i])]
                   = [i \in DOMAIN oracles[m] |-> FromOracle(oracles[m][i])]
  BY <1>1, FromOracleCorrect
<1>4. GpuDraws(oracles) = x
  BY <1>1, <1>3 DEF CpuDraws, GpuDraws
<1> HIDE DEF x
<1>5. DOMAIN x.a = (0 .. s.n - 1) \X (0 .. s.n - 1) /\ Matrix(x.a, s.n, s.n, Modulus - 1)
  <2>1. DOMAIN oracles.a = (0 .. s.n - 1) \X (0 .. s.n - 1)
    BY DEF OraclesOf
  <2> QED
    BY <1>1, <1>2, <2>1, FilledMatrix
<1>6. DOMAIN x.b = (0 .. s.n - 1) \X (0 .. s.n - 1) /\ Matrix(x.b, s.n, s.n, Modulus - 1)
  <2>1. DOMAIN oracles.b = (0 .. s.n - 1) \X (0 .. s.n - 1)
    BY DEF OraclesOf
  <2> QED
    BY <1>1, <1>2, <2>1, FilledMatrix
<1>7. Matrix(x.el, s.n, s.r, Modulus - 1) /\ Matrix(x.fl, s.n, s.r, Modulus - 1)
  <2>1. /\ DOMAIN oracles.el = (0 .. s.n - 1) \X (0 .. s.r - 1)
        /\ DOMAIN oracles.fl = (0 .. s.n - 1) \X (0 .. s.r - 1)
    BY DEF OraclesOf
  <2>2. Matrix(x.el, s.n, s.r, Modulus - 1)
    BY <1>1, <1>2, <2>1, FilledMatrix
  <2>3. Matrix(x.fl, s.n, s.r, Modulus - 1)
    BY <1>1, <1>2, <2>1, FilledMatrix
  <2> QED
    BY <2>2, <2>3
<1>8. Matrix(x.er, s.r, s.n, Modulus - 1) /\ Matrix(x.fr, s.r, s.n, Modulus - 1)
  <2>1. /\ DOMAIN oracles.er = (0 .. s.r - 1) \X (0 .. s.n - 1)
        /\ DOMAIN oracles.fr = (0 .. s.r - 1) \X (0 .. s.n - 1)
    BY DEF OraclesOf
  <2>2. Matrix(x.er, s.r, s.n, Modulus - 1)
    BY <1>1, <1>2, <2>1, FilledMatrix, SMTT(60)
  <2>3. Matrix(x.fr, s.r, s.n, Modulus - 1)
    BY <1>1, <1>2, <2>1, FilledMatrix, SMTT(60)
  <2> QED
    BY <2>2, <2>3
<1>9. \A c \in 0 .. Cells(s) - 1 : x.w[c] \in Elements
  <2>1. DOMAIN oracles.w = 0 .. Cells(s) - 1
    BY DEF OraclesOf
  <2>2. \A c \in DOMAIN oracles.w : IsOracle(oracles.w[c])
    BY <1>1
  <2>3. x.w = [c \in DOMAIN oracles.w |-> FromOracle(oracles.w[c])]
    BY <1>2
  <2> QED
    BY <2>1, <2>2, <2>3, FromOracleCorrect
<1>10. Drawn(s, x)
  BY <1>5, <1>6, <1>7, <1>8, <1>9 DEF Drawn
<1> QED
  BY <1>4, <1>10 DEF x

-----------------------------------------------------------------------------
(* Shapes and products of matrices *)

LEMMA ShapeTypes ==
    ASSUME NEW s \in Shape
    PROVE  /\ s.n \in Nat \ {0} /\ s.b \in Nat \ {0} /\ s.r \in Nat \ {0}
           /\ Blocks(s) \in Nat \ {0} /\ s.n = Blocks(s) * s.b
           /\ Cells(s) \in Nat \ {0} /\ Cells(s) = s.b * s.b
<1>1. s.n \in Nat \ {0} /\ s.b \in Nat \ {0} /\ s.r \in Nat \ {0} /\ s.n % s.b = 0
  BY DEF Shape
<1> DEFINE n == s.n
           b == s.b
           d == n \div b
<1>2. n \in Nat \ {0} /\ b \in Nat \ {0} /\ n % b = 0
  BY <1>1
<1> HIDE DEF n, b
<1>3. d \in Nat /\ n = b * d + (n % b)
  BY <1>2, SMT
<1>4. n = d * b /\ d # 0
  BY <1>2, <1>3
<1>5. b * b \in Nat \ {0}
  BY <1>2
<1> QED
  BY <1>1, <1>3, <1>4, <1>5 DEF Blocks, Cells, n, b

LEMMA RowInside ==
    ASSUME NEW m \in Nat, NEW n \in Nat, NEW q \in 0 .. m - 1, NEW k \in 0 .. n - 1
    PROVE  q * n + k \in 0 .. m * n - 1
<1>1. (q + 1) * n <= m * n
  BY ProductGrows
<1>2. (q + 1) * n = q * n + n /\ q * n \in Nat
  OBVIOUS
<1> QED
  BY <1>1, <1>2

\* The row and the column of a cell within its block.
LEMMA CellInside ==
    ASSUME NEW s \in Shape, NEW c \in 0 .. Cells(s) - 1
    PROVE  c \div s.b \in 0 .. s.b - 1 /\ c % s.b \in 0 .. s.b - 1
<1> DEFINE b == s.b
           q == c \div b
           r == c % b
<1>1. b \in Nat \ {0} /\ c \in Nat /\ c < b * b
  BY ShapeTypes
<1> HIDE DEF b
<1>2. q \in Nat /\ r \in 0 .. b - 1 /\ c = b * q + r
  BY <1>1, SMT
<1> HIDE DEF q, r
<1>3. ~ q >= b
  <2>1. q >= b => b * q >= b * b
    BY <1>1, <1>2
  <2> QED
    BY <1>1, <1>2, <2>1
<1>4. q \in 0 .. b - 1 /\ r \in 0 .. b - 1
  BY <1>1, <1>2, <1>3
<1> QED
  BY <1>4 DEF q, r, b

Inner(x, y, i, j, len) == Total(RowTimesColumn(x, y, i, j, len), len)

\* A row times a column of bounded numbers.
LEMMA ProductsBounded ==
    ASSUME NEW rows \in Nat, NEW len \in Nat, NEW cols \in Nat, NEW x, NEW y,
           Matrix(x, rows, len, Modulus), Matrix(y, len, cols, Modulus),
           NEW i \in 0 .. rows - 1, NEW j \in 0 .. cols - 1
    PROVE  /\ \A k \in 0 .. len - 1 :
                  RowTimesColumn(x, y, i, j, len)[k] \in 0 .. LargestProduct
           /\ Terms(RowTimesColumn(x, y, i, j, len), len)
           /\ Inner(x, y, i, j, len) \in Nat
<1> DEFINE f == RowTimesColumn(x, y, i, j, len)
<1>1. ASSUME NEW k \in 0 .. len - 1 PROVE f[k] \in 0 .. LargestProduct /\ f[k] \in Nat
  <2>1. x[<<i, k>>] \in 0 .. Modulus /\ y[<<k, j>>] \in 0 .. Modulus
    BY DEF Matrix
  <2>2. x[<<i, k>>] * y[<<k, j>>] \in Nat /\ x[<<i, k>>] * y[<<k, j>>] <= LargestProduct
    BY <2>1, ProductBounded, ModulusAssumption
  <2>3. f[k] = x[<<i, k>>] * y[<<k, j>>]
    BY DEF RowTimesColumn
  <2> QED
    BY <2>2, <2>3, ModulusAssumption DEF LargestProduct
<1> HIDE DEF f
<1>2. Terms(f, len)
  BY <1>1 DEF Terms
<1>3. Total(f, len) \in Nat
  BY <1>1, TotalOfNaturals
<1> QED
  BY <1>1, <1>2, <1>3 DEF f, Inner

\* Matrices are congruent element by element, and so are their products.
Like(x, y, rows, cols) ==
    \A i \in 0 .. rows - 1 : \A j \in 0 .. cols - 1 : Congruent(x[<<i, j>>], y[<<i, j>>])
Integers(x, rows, cols) ==
    \A i \in 0 .. rows - 1 : \A j \in 0 .. cols - 1 : x[<<i, j>>] \in Int

LEMMA InnerCongruent ==
    ASSUME NEW rows \in Nat, NEW len \in Nat, NEW cols \in Nat,
           NEW x, NEW y, NEW u, NEW v,
           Integers(x, rows, len), Integers(u, rows, len),
           Integers(y, len, cols), Integers(v, len, cols),
           Like(x, u, rows, len), Like(y, v, len, cols),
           NEW i \in 0 .. rows - 1, NEW j \in 0 .. cols - 1
    PROVE  /\ Inner(x, y, i, j, len) \in Int /\ Inner(u, v, i, j, len) \in Int
           /\ Congruent(Inner(x, y, i, j, len), Inner(u, v, i, j, len))
<1> DEFINE f == RowTimesColumn(x, y, i, j, len)
           g == RowTimesColumn(u, v, i, j, len)
<1>1. ASSUME NEW k \in 0 .. len - 1
      PROVE  f[k] \in Int /\ g[k] \in Int /\ Congruent(f[k], g[k])
  <2>1. /\ x[<<i, k>>] \in Int /\ u[<<i, k>>] \in Int /\ y[<<k, j>>] \in Int /\ v[<<k, j>>] \in Int
        /\ Congruent(x[<<i, k>>], u[<<i, k>>]) /\ Congruent(y[<<k, j>>], v[<<k, j>>])
    BY DEF Integers, Like
  <2>2. Congruent(x[<<i, k>>] * y[<<k, j>>], u[<<i, k>>] * v[<<k, j>>])
    BY <2>1, CongruentProducts
  <2>3. f[k] = x[<<i, k>>] * y[<<k, j>>] /\ g[k] = u[<<i, k>>] * v[<<k, j>>]
    BY DEF RowTimesColumn
  <2> QED
    BY <2>1, <2>2, <2>3
<1> HIDE DEF f, g
<1>2. Terms(f, len) /\ Terms(g, len)
  BY <1>1 DEF Terms
<1>3. Total(f, len) \in Int /\ Total(g, len) \in Int
  BY <1>2, TotalUnfolds
<1>4. Congruent(Total(f, len), Total(g, len))
  BY <1>1, <1>2, TotalCongruent
<1> QED
  BY <1>3, <1>4 DEF Inner, f, g

-----------------------------------------------------------------------------
(* A word, in integers, and its parts: a block of a times a block of b *)

CellRow(s, i, c) == i * s.b + (c \div s.b)
CellColumn(s, j, c) == j * s.b + (c % s.b)
InnerCell(s, x, y, i, j, c) == Inner(x, y, CellRow(s, i, c), CellColumn(s, j, c), s.n)
WordOf(s, x, y, w, i, j) ==
    Total([c \in 0 .. Cells(s) - 1 |-> InnerCell(s, x, y, i, j, c) * w[c]], Cells(s))
Part(s, x, y, i, j, l, c) == Total(CellTerms(s, x, y, i, l, j, c), s.b)
PartTable(s, x, y, w, i, j) ==
    [p \in (0 .. Blocks(s) - 1) \X (0 .. Cells(s) - 1) |->
        Part(s, x, y, i, j, p[1], p[2]) * w[p[2]]]
Square(s, x) == Integers(x, s.n, s.n)

LEMMA CellInMatrix ==
    ASSUME NEW s \in Shape, NEW i \in 0 .. Blocks(s) - 1, NEW c \in 0 .. Cells(s) - 1
    PROVE  CellRow(s, i, c) \in 0 .. s.n - 1 /\ CellColumn(s, i, c) \in 0 .. s.n - 1
<1> DEFINE m == Blocks(s)
           b == s.b
<1>1. m \in Nat /\ b \in Nat /\ s.n = m * b /\ i \in 0 .. m - 1
  BY ShapeTypes
<1>2. c \div b \in 0 .. b - 1 /\ c % b \in 0 .. b - 1
  BY CellInside
<1> HIDE DEF m, b
<1>3. i * b + (c \div b) \in 0 .. m * b - 1 /\ i * b + (c % b) \in 0 .. m * b - 1
  BY <1>1, <1>2, RowInside
<1> QED
  BY <1>1, <1>3 DEF CellRow, CellColumn, b

LEMMA SectionInside ==
    ASSUME NEW s \in Shape, NEW l \in 0 .. Blocks(s) - 1, NEW k \in 0 .. s.b - 1,
           NEW e, e = l * s.b + k
    PROVE  e \in 0 .. s.n - 1
<1> DEFINE m == Blocks(s)
           b == s.b
<1>1. /\ m \in Nat /\ b \in Nat /\ s.n = m * b /\ l \in 0 .. m - 1 /\ k \in 0 .. b - 1
      /\ e = l * b + k
  BY ShapeTypes
<1> HIDE DEF m, b
<1>2. l * b + k \in 0 .. m * b - 1
  BY <1>1, RowInside
<1> QED
  BY <1>1, <1>2

\* The terms of a part are a section of those of the whole cell.
LEMMA PartTerms ==
    ASSUME NEW s \in Shape, NEW x, NEW y, Square(s, x), Square(s, y),
           NEW i \in 0 .. Blocks(s) - 1, NEW j \in 0 .. Blocks(s) - 1,
           NEW c \in 0 .. Cells(s) - 1, NEW l \in 0 .. Blocks(s) - 1, NEW k \in 0 .. s.b - 1,
           NEW e, e = l * s.b + k
    PROVE  /\ e \in 0 .. s.n - 1
           /\ CellTerms(s, x, y, i, l, j, c)[k] =
                  x[<<CellRow(s, i, c), e>>] * y[<<e, CellColumn(s, j, c)>>]
           /\ CellTerms(s, x, y, i, l, j, c)[k] \in Int
<1>1. e \in 0 .. s.n - 1
  BY SectionInside
<1>2. CellRow(s, i, c) \in 0 .. s.n - 1 /\ CellColumn(s, j, c) \in 0 .. s.n - 1
  BY CellInMatrix
<1>3. CellTerms(s, x, y, i, l, j, c)[k] =
          x[<<CellRow(s, i, c), e>>] * y[<<e, CellColumn(s, j, c)>>]
  BY DEF CellTerms, CellRow, CellColumn
<1>4. /\ x[<<CellRow(s, i, c), e>>] \in Int
      /\ y[<<e, CellColumn(s, j, c)>>] \in Int
  BY <1>1, <1>2 DEF Square, Integers
<1> QED
  BY <1>1, <1>3, <1>4

LEMMA PartTypes ==
    ASSUME NEW s \in Shape, NEW x, NEW y, Square(s, x), Square(s, y),
           NEW i \in 0 .. Blocks(s) - 1, NEW j \in 0 .. Blocks(s) - 1,
           NEW c \in 0 .. Cells(s) - 1, NEW l \in 0 .. Blocks(s) - 1
    PROVE  /\ Terms(CellTerms(s, x, y, i, l, j, c), s.b)
           /\ Part(s, x, y, i, j, l, c) \in Int
<1>1. Terms(CellTerms(s, x, y, i, l, j, c), s.b)
  BY PartTerms DEF Terms
<1>2. s.b \in Nat
  BY ShapeTypes
<1>3. s.b \in 0 .. s.b
  BY <1>2
<1> QED
  BY <1>1, <1>2, <1>3, TotalUnfolds DEF Part

\* The blocks of a row and a column add up to the whole row times the column.
LEMMA PartsAddUp ==
    ASSUME NEW s \in Shape, NEW x, NEW y, Square(s, x), Square(s, y),
           NEW i \in 0 .. Blocks(s) - 1, NEW j \in 0 .. Blocks(s) - 1,
           NEW c \in 0 .. Cells(s) - 1
    PROVE  Total([l \in 0 .. Blocks(s) - 1 |-> Part(s, x, y, i, j, l, c)], Blocks(s))
           = InnerCell(s, x, y, i, j, c)
<1> DEFINE m == Blocks(s)
           b == s.b
           f == RowTimesColumn(x, y, CellRow(s, i, c), CellColumn(s, j, c), s.n)
           F == [p \in (0 .. m - 1) \X (0 .. b - 1) |-> CellTerms(s, x, y, i, p[1], j, c)[p[2]]]
           parts == [l \in 0 .. m - 1 |-> Part(s, x, y, i, j, l, c)]
<1>1. m \in Nat /\ b \in Nat \ {0} /\ s.n = m * b
  BY ShapeTypes
<1>2. ASSUME NEW l \in 0 .. m - 1, NEW k \in 0 .. b - 1
      PROVE  F[<<l, k>>] = CellTerms(s, x, y, i, l, j, c)[k] /\ F[<<l, k>>] \in Int
             /\ f[l * b + k] = F[<<l, k>>]
  <2>1. F[<<l, k>>] = CellTerms(s, x, y, i, l, j, c)[k]
    OBVIOUS
  <2> DEFINE e == l * s.b + k
  <2>2. l \in 0 .. Blocks(s) - 1 /\ k \in 0 .. s.b - 1 /\ e = l * s.b + k
    OBVIOUS
  <2> HIDE DEF F, f, m, b, e
  <2>3. /\ CellTerms(s, x, y, i, l, j, c)[k] \in Int
        /\ RowTimesColumn(x, y, CellRow(s, i, c), CellColumn(s, j, c), s.n)[e]
           = CellTerms(s, x, y, i, l, j, c)[k]
    <3>1. CellTerms(s, x, y, i, l, j, c)[k] \in Int
      BY <2>2, PartTerms
    <3>2. e \in 0 .. s.n - 1
      BY <2>2, SectionInside
    <3>3. CellTerms(s, x, y, i, l, j, c)[k] =
              x[<<CellRow(s, i, c), e>>] * y[<<e, CellColumn(s, j, c)>>]
      BY <2>2, PartTerms
    <3> QED
      BY <3>1, <3>2, <3>3 DEF RowTimesColumn
  <2>4. f[l * b + k] = CellTerms(s, x, y, i, l, j, c)[k]
    BY <2>3 DEF f, b, e
  <2> QED
    BY <2>1, <2>3, <2>4
<1>3. ASSUME NEW l \in 0 .. m - 1 PROVE RowTotals(F, m, b)[l] = parts[l]
  <2>1. RowTotals(F, m, b)[l] = Total(Row(F, l, b), b)
    BY DEF RowTotals
  <2>2. parts[l] = Total(CellTerms(s, x, y, i, l, j, c), b)
    BY DEF Part
  <2>3. \A k \in 0 .. b - 1 : Row(F, l, b)[k] = CellTerms(s, x, y, i, l, j, c)[k]
    BY <1>2 DEF Row
  <2>4. Terms(Row(F, l, b), b)
    BY <1>2 DEF Row, Terms
  <2> HIDE DEF F, b, parts
  <2>5. Total(Row(F, l, b), b) = Total(CellTerms(s, x, y, i, l, j, c), b)
    BY <1>1, <2>3, <2>4, TotalDepends
  <2> QED
    BY <2>1, <2>2, <2>5
<1> HIDE DEF m, b, f, F, parts
<1>4. Table(F, m, b)
  BY <1>2 DEF Table
<1>5. Total(f, m * b) = ByRows(F, m, b)
  BY <1>1, <1>2, <1>4, SumsFlatten
<1>6. Terms(RowTotals(F, m, b), m)
  <2>1. m \in 0 .. m /\ b \in Nat
    BY <1>1
  <2> QED
    BY <1>1, <1>4, <2>1, TableTypes
<1>7. ByRows(F, m, b) = Total(parts, m)
  BY <1>1, <1>3, <1>6, TotalDepends DEF ByRows
<1>8. InnerCell(s, x, y, i, j, c) = Total(f, s.n)
  BY DEF InnerCell, Inner, f
<1> QED
  BY <1>1, <1>5, <1>7, <1>8 DEF parts, m

\* One cell of the parts of all blocks, times its weight.
LEMMA PartColumn ==
    ASSUME NEW s \in Shape, NEW x, NEW y, Square(s, x), Square(s, y),
           NEW i \in 0 .. Blocks(s) - 1, NEW j \in 0 .. Blocks(s) - 1,
           NEW c \in 0 .. Cells(s) - 1, NEW v \in Int, NEW g,
           \A l \in 0 .. Blocks(s) - 1 : g[l] = Part(s, x, y, i, j, l, c) * v
    PROVE  /\ Total(g, Blocks(s)) = InnerCell(s, x, y, i, j, c) * v
           /\ InnerCell(s, x, y, i, j, c) \in Int
<1> DEFINE m == Blocks(s)
           parts == [l \in 0 .. m - 1 |-> Part(s, x, y, i, j, l, c)]
<1>1. m \in Nat /\ m \in 0 .. m
  BY ShapeTypes
<1>2. Terms(parts, m)
  BY PartTypes DEF Terms
<1>3. \A l \in 0 .. m - 1 : g[l] = parts[l] * v
  OBVIOUS
<1>4. Total(parts, m) = InnerCell(s, x, y, i, j, c)
  BY PartsAddUp
<1> HIDE DEF m, parts
<1>5. Total(g, m) = Total(parts, m) * v
  BY <1>1, <1>2, <1>3, TotalOfMultiples
<1>6. Total(parts, m) \in Int
  BY <1>1, <1>2, TotalUnfolds
<1> QED
  BY <1>4, <1>5, <1>6 DEF m

LEMMA PartTableCorrect ==
    ASSUME NEW s \in Shape, NEW x, NEW y, Square(s, x), Square(s, y),
           NEW w, \A c \in 0 .. Cells(s) - 1 : w[c] \in Elements,
           NEW i \in 0 .. Blocks(s) - 1, NEW j \in 0 .. Blocks(s) - 1,
           NEW F, F = PartTable(s, x, y, w, i, j)
    PROVE  /\ Table(F, Blocks(s), Cells(s))
           /\ \A c \in 0 .. Cells(s) - 1 :
                  /\ Total(Column(F, c, Blocks(s)), Blocks(s)) = InnerCell(s, x, y, i, j, c) * w[c]
                  /\ InnerCell(s, x, y, i, j, c) \in Int
           /\ ByColumns(F, Blocks(s), Cells(s)) = WordOf(s, x, y, w, i, j)
           /\ WordOf(s, x, y, w, i, j) \in Int
<1> DEFINE m == Blocks(s)
           d == Cells(s)
<1>1. m \in Nat /\ d \in Nat
  BY ShapeTypes
<1>2. ASSUME NEW l \in 0 .. m - 1, NEW c \in 0 .. d - 1
      PROVE  /\ F[<<l, c>>] = Part(s, x, y, i, j, l, c) * w[c]
             /\ Part(s, x, y, i, j, l, c) \in Int /\ F[<<l, c>>] \in Int
  <2>1. F[<<l, c>>] = Part(s, x, y, i, j, l, c) * w[c]
    BY DEF PartTable
  <2>2. Part(s, x, y, i, j, l, c) \in Int /\ w[c] \in Int
    BY PartTypes, ElementsAreNumbers
  <2> QED
    BY <2>1, <2>2
<1>3. ASSUME NEW c \in 0 .. d - 1
      PROVE  /\ Total(Column(F, c, m), m) = InnerCell(s, x, y, i, j, c) * w[c]
             /\ InnerCell(s, x, y, i, j, c) \in Int
  <2> DEFINE v == w[c]
             g == Column(F, c, m)
  <2>1. \A l \in 0 .. Blocks(s) - 1 : g[l] = Part(s, x, y, i, j, l, c) * v
    BY <1>2 DEF Column
  <2>2. v \in Int /\ c \in 0 .. Cells(s) - 1
    BY ElementsAreNumbers
  <2> HIDE DEF v, g
  <2>3. /\ Total(g, Blocks(s)) = InnerCell(s, x, y, i, j, c) * v
        /\ InnerCell(s, x, y, i, j, c) \in Int
    BY <2>1, <2>2, PartColumn
  <2> QED
    BY <2>3 DEF v, g
<1>4. Table(F, m, d)
  BY <1>2 DEF Table
<1> DEFINE g == [c \in 0 .. d - 1 |-> InnerCell(s, x, y, i, j, c) * w[c]]
<1>5. \A c \in 0 .. d - 1 : ColumnTotals(F, m, d)[c] = g[c]
  BY <1>3 DEF ColumnTotals
<1>6. WordOf(s, x, y, w, i, j) = Total(g, d)
  BY DEF WordOf
<1> HIDE DEF m, d, g
<1>7. m \in 0 .. m
  BY <1>1
<1>8. Terms(ColumnTotals(F, m, d), d) /\ ByColumns(F, m, d) \in Int
  BY <1>1, <1>4, <1>7, TableTypes
<1>9. ByColumns(F, m, d) = Total(g, d)
  BY <1>1, <1>5, <1>8, TotalDepends DEF ByColumns
<1> QED
  BY <1>3, <1>4, <1>6, <1>8, <1>9 DEF m, d

\* Blocks that are compressed one by one and added as elements give the word.
LEMMA BlocksAddUp ==
    ASSUME NEW s \in Shape, NEW x, NEW y, Square(s, x), Square(s, y),
           NEW w, \A c \in 0 .. Cells(s) - 1 : w[c] \in Elements,
           NEW i \in 0 .. Blocks(s) - 1, NEW j \in 0 .. Blocks(s) - 1,
           NEW K,
           \A l \in 0 .. Blocks(s) - 1 :
               /\ K[l] \in Elements
               /\ Congruent(K[l], Total([c \in 0 .. Cells(s) - 1 |->
                                            Part(s, x, y, i, j, l, c) * w[c]], Cells(s)))
    PROVE  /\ FieldTotal(K, Blocks(s)) \in Elements
           /\ Congruent(FieldTotal(K, Blocks(s)), WordOf(s, x, y, w, i, j))
<1> DEFINE m == Blocks(s)
           d == Cells(s)
           F == PartTable(s, x, y, w, i, j)
<1>1. m \in Nat /\ d \in Nat
  BY ShapeTypes
<1>2. Table(F, m, d) /\ ByColumns(F, m, d) = WordOf(s, x, y, w, i, j)
      /\ WordOf(s, x, y, w, i, j) \in Int
  <2>1. F = PartTable(s, x, y, w, i, j)
    OBVIOUS
  <2> HIDE DEF F
  <2> QED
    BY <2>1, PartTableCorrect
<1>3. ASSUME NEW l \in 0 .. m - 1
      PROVE  K[l] \in Elements /\ K[l] \in Int /\ Congruent(K[l], RowTotals(F, m, d)[l])
  <2>1. [c \in 0 .. d - 1 |-> Part(s, x, y, i, j, l, c) * w[c]] = Row(F, l, d)
    BY DEF Row, PartTable
  <2>2. RowTotals(F, m, d)[l] = Total(Row(F, l, d), d)
    BY DEF RowTotals
  <2>3. K[l] \in Elements /\ Congruent(K[l], Total(Row(F, l, d), d))
    BY <2>1
  <2> QED
    BY <2>2, <2>3, ElementsAreNumbers
<1> HIDE DEF m, d, F
<1>4. m \in 0 .. m
  BY <1>1
<1>5. Terms(RowTotals(F, m, d), m) /\ ByRows(F, m, d) \in Int
  BY <1>1, <1>2, <1>4, TableTypes
<1>6. Terms(K, m)
  BY <1>3 DEF Terms
<1>7. FieldTotal(K, m) \in Elements /\ Congruent(FieldTotal(K, m), Total(K, m))
  BY <1>1, <1>3, FieldTotalCorrect
<1>8. Congruent(Total(K, m), ByRows(F, m, d)) /\ Total(K, m) \in Int
  BY <1>1, <1>3, <1>4, <1>5, <1>6, TotalCongruent, TotalUnfolds DEF ByRows
<1>9. FieldTotal(K, m) \in Int
  BY <1>7, ElementsAreNumbers
<1>10. Congruent(FieldTotal(K, m), ByRows(F, m, d))
  BY <1>5, <1>7, <1>8, <1>9, CongruentTransitive
<1>11. ByRows(F, m, d) = ByColumns(F, m, d)
  BY <1>1, <1>2, SumsSwap
<1> QED
  BY <1>2, <1>7, <1>10, <1>11 DEF m

-----------------------------------------------------------------------------
(* The noise: each side's matrix is the exact one up to multiples of the   *)
(* modulus, and its entries are at most Modulus.                           *)

ExactMatrix(s, base, left, right) ==
    [p \in DOMAIN base |->
        base[p] + Total(RowTimesColumn(left, right, p[1], p[2], s.r), s.r)]

Disturbed(s, base, left, right) ==
    /\ DOMAIN base = (0 .. s.n - 1) \X (0 .. s.n - 1)
    /\ Matrix(base, s.n, s.n, Modulus - 1)
    /\ Matrix(left, s.n, s.r, Modulus - 1) /\ Matrix(right, s.r, s.n, Modulus - 1)

Faithful(s, z, e) ==
    Matrix(z, s.n, s.n, Modulus) /\ Square(s, z) /\ Square(s, e) /\ Like(z, e, s.n, s.n)

LEMMA NoiseTerms ==
    ASSUME NEW s \in Shape, NEW base, NEW left, NEW right, Disturbed(s, base, left, right),
           NEW i \in 0 .. s.n - 1, NEW j \in 0 .. s.n - 1
    PROVE  /\ \A k \in 0 .. s.r - 1 :
                  RowTimesColumn(left, right, i, j, s.r)[k] \in 0 .. LargestProduct
           /\ Terms(RowTimesColumn(left, right, i, j, s.r), s.r)
           /\ Inner(left, right, i, j, s.r) \in Nat
<1>1. s.n \in Nat /\ s.r \in Nat
  BY ShapeTypes
<1>2. Matrix(left, s.n, s.r, Modulus) /\ Matrix(right, s.r, s.n, Modulus)
  BY ModulusAssumption DEF Disturbed, Matrix
<1> QED
  BY <1>1, <1>2, ProductsBounded

LEMMA NoiseAdds ==
    ASSUME NEW x \in Elements, NEW v \in 0 .. Modulus + 1, NEW e \in Int, Congruent(v, e)
    PROVE  Add(x, v) \in 0 .. Modulus /\ Congruent(Add(x, v), x + e)
<1>1. x \in Int /\ v \in Int /\ x + v \in Int /\ x + e \in Int
  BY ModulusAssumption DEF Elements
<1>2. Add(x, v) \in 0 .. Modulus /\ Congruent(Add(x, v), x + v)
  <2>1. CASE x + v >= Modulus
    <3>1. Add(x, v) = x + v - Modulus /\ x + v - Modulus \in 0 .. Modulus
      BY <2>1, ModulusAssumption DEF Add, Elements
    <3>2. (x + v - Modulus) - (x + v) = (-1) * Modulus
      BY <1>1, ModulusAssumption
    <3> QED
      BY <3>1, <3>2 DEF Congruent
  <2>2. CASE ~ x + v >= Modulus
    <3>1. Add(x, v) = x + v /\ x + v \in 0 .. Modulus
      BY <2>2, ModulusAssumption DEF Add, Elements
    <3> QED
      BY <1>1, <3>1, CongruentReflexive
  <2> QED
    BY <2>1, <2>2
<1>3. Congruent(x + v, x + e)
  BY <1>1, CongruentReflexive, CongruentSums
<1>4. Add(x, v) \in Int
  BY <1>2
<1>5. Congruent(Add(x, v), x + e)
  BY <1>1, <1>2, <1>3, <1>4, CongruentTransitive
<1> QED
  BY <1>2, <1>5

LEMMA NoiseIsFaithful ==
    ASSUME NEW s \in Shape, NEW base, NEW left, NEW right, Disturbed(s, base, left, right),
           NEW z,
           \A i \in 0 .. s.n - 1 : \A j \in 0 .. s.n - 1 :
               \E v \in 0 .. Modulus + 1 :
                   /\ z[<<i, j>>] = Add(base[<<i, j>>], v)
                   /\ Congruent(v, Inner(left, right, i, j, s.r))
    PROVE  Faithful(s, z, ExactMatrix(s, base, left, right))
<1> DEFINE e == ExactMatrix(s, base, left, right)
<1>1. ASSUME NEW i \in 0 .. s.n - 1, NEW j \in 0 .. s.n - 1
      PROVE  /\ z[<<i, j>>] \in 0 .. Modulus /\ z[<<i, j>>] \in Int
             /\ e[<<i, j>>] \in Int /\ Congruent(z[<<i, j>>], e[<<i, j>>])
  <2>1. PICK v \in 0 .. Modulus + 1 :
            /\ z[<<i, j>>] = Add(base[<<i, j>>], v)
            /\ Congruent(v, Inner(left, right, i, j, s.r))
    OBVIOUS
  <2>2. base[<<i, j>>] \in Elements /\ base[<<i, j>>] \in Int /\ <<i, j>> \in DOMAIN base
    BY ModulusAssumption DEF Disturbed, Matrix, Elements
  <2>3. Inner(left, right, i, j, s.r) \in Int
    BY NoiseTerms
  <2>4. e[<<i, j>>] = base[<<i, j>>] + Inner(left, right, i, j, s.r)
    BY <2>2 DEF ExactMatrix, Inner
  <2>5. /\ Add(base[<<i, j>>], v) \in 0 .. Modulus
        /\ Congruent(Add(base[<<i, j>>], v), base[<<i, j>>] + Inner(left, right, i, j, s.r))
    BY <2>1, <2>2, <2>3, NoiseAdds
  <2> QED
    BY <2>1, <2>2, <2>3, <2>4, <2>5
<1> HIDE DEF e
<1>2. Faithful(s, z, e)
  BY <1>1 DEF Faithful, Matrix, Square, Integers, Like
<1> QED
  BY <1>2 DEF e

\* The matrices of VerifySolution.
LEMMA PerturbedIsFaithful ==
    ASSUME NEW s \in Shape, NEW base, NEW left, NEW right, Disturbed(s, base, left, right)
    PROVE  Faithful(s, Perturbed(s, base, left, right), ExactMatrix(s, base, left, right))
<1>1. ASSUME NEW i \in 0 .. s.n - 1, NEW j \in 0 .. s.n - 1
      PROVE  \E v \in 0 .. Modulus + 1 :
                 /\ Perturbed(s, base, left, right)[<<i, j>>] = Add(base[<<i, j>>], v)
                 /\ Congruent(v, Inner(left, right, i, j, s.r))
  <2> DEFINE f == RowTimesColumn(left, right, i, j, s.r)
             v == ScalarDot(f, s.r)
  <2>1. <<i, j>> \in DOMAIN base
    BY DEF Disturbed
  <2>2. Perturbed(s, base, left, right)[<<i, j>>] = Add(base[<<i, j>>], v)
    BY <2>1 DEF Perturbed
  <2>3. s.r \in Nat /\ \A k \in 0 .. s.r - 1 : f[k] \in 0 .. LargestProduct
    BY ShapeTypes, NoiseTerms
  <2>4. v \in Elements /\ Congruent(v, Inner(left, right, i, j, s.r))
    <3> HIDE DEF f
    <3>1. ScalarDot(f, s.r) \in Elements /\ Congruent(ScalarDot(f, s.r), Total(f, s.r))
      BY <2>3, ScalarDotCorrect
    <3> QED
      BY <3>1 DEF Inner, f
  <2>5. v \in 0 .. Modulus + 1
    BY <2>4, ModulusAssumption DEF Elements
  <2> HIDE DEF v
  <2> QED
    BY <2>2, <2>4, <2>5
<1> QED
  BY <1>1, NoiseIsFaithful

\* Those of the kernels, unless three products are pending at the end of a row.
LEMMA GpuPerturbedIsFaithful ==
    ASSUME NEW s \in Shape, NEW base, NEW left, NEW right, Disturbed(s, base, left, right),
           s.r % ReduceInterval # 3
    PROVE  Faithful(s, GpuPerturbed(base, left, right, s.r), ExactMatrix(s, base, left, right))
<1>1. ASSUME NEW i \in 0 .. s.n - 1, NEW j \in 0 .. s.n - 1
      PROVE  \E v \in 0 .. Modulus + 1 :
                 /\ GpuPerturbed(base, left, right, s.r)[<<i, j>>] = Add(base[<<i, j>>], v)
                 /\ Congruent(v, Inner(left, right, i, j, s.r))
  <2> DEFINE f == RowTimesColumn(left, right, i, j, s.r)
             v == TwoFolds(GpuAcc(f, s.r))
  <2>1. <<i, j>> \in DOMAIN base
    BY DEF Disturbed
  <2>2. GpuPerturbed(base, left, right, s.r)[<<i, j>>] = Add(base[<<i, j>>], v)
    BY <2>1 DEF GpuPerturbed
  <2>3. s.r \in Nat /\ \A k \in 0 .. s.r - 1 : f[k] \in 0 .. LargestProduct
    BY ShapeTypes, NoiseTerms
  <2>4. v \in 0 .. Modulus + 1 /\ Congruent(v, Inner(left, right, i, j, s.r))
    <3> HIDE DEF f
    <3>1. /\ TwoFolds(GpuAcc(f, s.r)) \in 0 .. Modulus + 1
          /\ Congruent(TwoFolds(GpuAcc(f, s.r)), Total(f, s.r))
      BY <2>3, TwoFoldsOfAccumulator
    <3> QED
      BY <3>1 DEF Inner, f
  <2> HIDE DEF v
  <2> QED
    BY <2>2, <2>4
<1> QED
  BY <1>1, NoiseIsFaithful

LEMMA MulCorrect ==
    ASSUME NEW x \in 0 .. Wide - 1, NEW f, NEW g, x = f * g
    PROVE  Mul(f, g) \in Elements /\ Congruent(Mul(f, g), x)
<1>1. Reduce64(x) \in Elements /\ Congruent(x, Reduce64(x))
  BY Reduce64Correct
<1>2. x \in Int /\ Reduce64(x) \in Int
  BY <1>1, ElementsAreNumbers
<1>3. Congruent(Reduce64(x), x)
  BY <1>1, <1>2, CongruentSymmetric
<1> QED
  BY <1>1, <1>3 DEF Mul

LEMMA LargestProductFits == LargestProduct \in Nat /\ LargestProduct < Wide /\ Wide \in Nat
<1>1. /\ LargestProduct \in Nat
      /\ Wide = 4 * LargestProduct + 4 * Modulus + 4
  BY ModulusAssumption DEF LargestProduct, Wide, Base
<1> QED
  BY <1>1, ModulusAssumption

\* Products that are reduced one by one and added as elements.
LEMMA StepProductsCorrect ==
    ASSUME NEW len \in Nat, NEW f, NEW g, NEW h,
           \A k \in 0 .. len - 1 : h[k] = f[k] * g[k] /\ h[k] \in 0 .. LargestProduct
    PROVE  /\ FieldTotal(Products(f, g, len), len) \in Elements
           /\ Congruent(FieldTotal(Products(f, g, len), len), Total(h, len))
<1> DEFINE q == Products(f, g, len)
<1>1. ASSUME NEW k \in 0 .. len - 1
      PROVE  q[k] \in Elements /\ q[k] \in Int /\ Congruent(q[k], h[k]) /\ h[k] \in Int
  <2>1. q[k] = Mul(f[k], g[k])
    BY DEF Products
  <2>2. h[k] \in 0 .. Wide - 1 /\ h[k] = f[k] * g[k]
    BY LargestProductFits
  <2>3. Mul(f[k], g[k]) \in Elements /\ Congruent(Mul(f[k], g[k]), h[k])
    BY <2>2, MulCorrect
  <2> QED
    BY <2>1, <2>2, <2>3, ElementsAreNumbers
<1> HIDE DEF q
<1>2. FieldTotal(q, len) \in Elements /\ Congruent(FieldTotal(q, len), Total(q, len))
  BY <1>1, FieldTotalCorrect
<1>3. Terms(q, len) /\ Terms(h, len)
  BY <1>1 DEF Terms
<1>4. Congruent(Total(q, len), Total(h, len))
  BY <1>1, <1>3, TotalCongruent
<1>5. Total(q, len) \in Int /\ Total(h, len) \in Int /\ FieldTotal(q, len) \in Int
  <2>1. len \in 0 .. len
    OBVIOUS
  <2> QED
    BY <1>2, <1>3, <2>1, TotalUnfolds, ElementsAreNumbers
<1>6. Congruent(FieldTotal(q, len), Total(h, len))
  BY <1>2, <1>4, <1>5, CongruentTransitive
<1> QED
  BY <1>2, <1>6 DEF q

LEMMA StepPerturbedIsFaithful ==
    ASSUME NEW s \in Shape, NEW base, NEW left, NEW right, Disturbed(s, base, left, right)
    PROVE  Faithful(s, StepPerturbed(s, base, left, right), ExactMatrix(s, base, left, right))
<1>1. ASSUME NEW i \in 0 .. s.n - 1, NEW j \in 0 .. s.n - 1
      PROVE  \E v \in 0 .. Modulus + 1 :
                 /\ StepPerturbed(s, base, left, right)[<<i, j>>] = Add(base[<<i, j>>], v)
                 /\ Congruent(v, Inner(left, right, i, j, s.r))
  <2> DEFINE f == [k \in 0 .. s.r - 1 |-> left[<<i, k>>]]
             g == [k \in 0 .. s.r - 1 |-> right[<<k, j>>]]
             h == RowTimesColumn(left, right, i, j, s.r)
             v == FieldTotal(Products(f, g, s.r), s.r)
  <2>1. <<i, j>> \in DOMAIN base
    BY DEF Disturbed
  <2>2. StepPerturbed(s, base, left, right)[<<i, j>>] = Add(base[<<i, j>>], v)
    BY <2>1 DEF StepPerturbed
  <2>3. s.r \in Nat /\ \A k \in 0 .. s.r - 1 : h[k] \in 0 .. LargestProduct
    BY ShapeTypes, NoiseTerms
  <2>4. \A k \in 0 .. s.r - 1 : h[k] = f[k] * g[k]
    BY DEF RowTimesColumn
  <2>5. v \in Elements /\ Congruent(v, Inner(left, right, i, j, s.r))
    <3> HIDE DEF f, g, h
    <3>1. /\ FieldTotal(Products(f, g, s.r), s.r) \in Elements
          /\ Congruent(FieldTotal(Products(f, g, s.r), s.r), Total(h, s.r))
      BY <2>3, <2>4, StepProductsCorrect
    <3> QED
      BY <3>1 DEF Inner, h
  <2>6. v \in 0 .. Modulus + 1
    BY <2>5, ModulusAssumption DEF Elements
  <2> HIDE DEF v
  <2> QED
    BY <2>2, <2>5, <2>6
<1> QED
  BY <1>1, NoiseIsFaithful

-----------------------------------------------------------------------------
(* The words of the CPU *)

\* The exact matrices of a nonce.
ExactA(s, x) == ExactMatrix(s, x.a, x.el, x.er)
ExactB(s, x) == ExactMatrix(s, x.b, x.fl, x.fr)

LEMMA ExactWordsUnfold ==
    ASSUME NEW s, NEW x, NEW i \in 0 .. Blocks(s) - 1, NEW j \in 0 .. Blocks(s) - 1
    PROVE  ExactWords(s, x)[<<i, j>>] =
               Total([c \in 0 .. Cells(s) - 1 |->
                         (InnerCell(s, ExactA(s, x), ExactB(s, x), i, j, c) % Modulus) * x.w[c]],
                     Cells(s)) % Modulus
<1>1. <<i, j>> \in WordIndex(s)
  BY DEF WordIndex
<1> QED
  BY <1>1 DEF ExactWords, ExactA, ExactB, ExactMatrix, InnerCell, Inner, CellRow, CellColumn

\* Terms with weights: congruent cells give congruent sums.
LEMMA WeightedSum ==
    ASSUME NEW d \in Nat, NEW V, NEW P, NEW w, NEW F, NEW G,
           \A c \in 0 .. d - 1 :
               /\ V[c] \in Int /\ P[c] \in Int /\ Congruent(V[c], P[c]) /\ w[c] \in Elements
               /\ F[c] = V[c] * w[c] /\ G[c] = P[c] * w[c]
    PROVE  /\ Terms(F, d) /\ Terms(G, d) /\ Total(F, d) \in Int /\ Total(G, d) \in Int
           /\ Congruent(Total(F, d), Total(G, d))
<1>1. ASSUME NEW c \in 0 .. d - 1
      PROVE  F[c] \in Int /\ G[c] \in Int /\ Congruent(F[c], G[c])
  <2>1. /\ V[c] \in Int /\ P[c] \in Int /\ w[c] \in Int /\ Congruent(V[c], P[c])
        /\ F[c] = V[c] * w[c] /\ G[c] = P[c] * w[c]
    BY ElementsAreNumbers
  <2>2. Congruent(w[c], w[c])
    BY <2>1, CongruentReflexive
  <2>3. Congruent(V[c] * w[c], P[c] * w[c])
    BY <2>1, <2>2, CongruentProducts
  <2> QED
    BY <2>1, <2>3
<1>2. Terms(F, d) /\ Terms(G, d)
  BY <1>1 DEF Terms
<1>3. Total(F, d) \in Int /\ Total(G, d) \in Int
  <2>1. d \in 0 .. d
    OBVIOUS
  <2> QED
    BY <1>2, <2>1, TotalUnfolds
<1>4. Congruent(Total(F, d), Total(G, d))
  BY <1>1, <1>2, TotalCongruent
<1> QED
  BY <1>2, <1>3, <1>4

\* Whoever computes with faithful matrices, and ends with an element that is the
\* word of its matrices, has the exact word.
LEMMA WordIsExact ==
    ASSUME NEW s \in Shape, NEW x, Drawn(s, x), NEW y, NEW z,
           Faithful(s, y, ExactA(s, x)), Faithful(s, z, ExactB(s, x)),
           NEW i \in 0 .. Blocks(s) - 1, NEW j \in 0 .. Blocks(s) - 1,
           NEW v \in Int, Congruent(v, WordOf(s, y, z, x.w, i, j))
    PROVE  v % Modulus = ExactWords(s, x)[<<i, j>>]
<1> DEFINE d == Cells(s)
           u == ExactA(s, x)
           t == ExactB(s, x)
           V == [c \in 0 .. d - 1 |-> InnerCell(s, y, z, i, j, c)]
           P == [c \in 0 .. d - 1 |-> InnerCell(s, u, t, i, j, c) % Modulus]
           F == [c \in 0 .. d - 1 |-> InnerCell(s, y, z, i, j, c) * x.w[c]]
           G == [c \in 0 .. d - 1 |-> (InnerCell(s, u, t, i, j, c) % Modulus) * x.w[c]]
<1>1. d \in Nat /\ s.n \in Nat
  BY ShapeTypes
<1>2. ASSUME NEW c \in 0 .. d - 1
      PROVE  /\ InnerCell(s, y, z, i, j, c) \in Int
             /\ InnerCell(s, u, t, i, j, c) % Modulus \in Int
             /\ Congruent(InnerCell(s, y, z, i, j, c), InnerCell(s, u, t, i, j, c) % Modulus)
  <2> DEFINE row == CellRow(s, i, c)
             column == CellColumn(s, j, c)
             p == Inner(y, z, row, column, s.n)
             q == Inner(u, t, row, column, s.n)
  <2>1. row \in 0 .. s.n - 1 /\ column \in 0 .. s.n - 1
    BY CellInMatrix
  <2>2. /\ Integers(y, s.n, s.n) /\ Integers(z, s.n, s.n)
        /\ Integers(u, s.n, s.n) /\ Integers(t, s.n, s.n)
        /\ Like(y, u, s.n, s.n) /\ Like(z, t, s.n, s.n)
    BY DEF Faithful, Square
  <2> HIDE DEF row, column, u, t
  <2>3. p \in Int /\ q \in Int /\ Congruent(p, q)
    BY <1>1, <2>1, <2>2, InnerCongruent
  <2> HIDE DEF p, q
  <2>4. q % Modulus \in Int /\ Congruent(q, q % Modulus)
    BY <2>3, Remainder
  <2>5. Congruent(p, q % Modulus)
    BY <2>3, <2>4, CongruentTransitive
  <2>6. InnerCell(s, y, z, i, j, c) = p /\ InnerCell(s, u, t, i, j, c) = q
    BY DEF InnerCell, p, q, row, column
  <2> QED
    BY <2>3, <2>4, <2>5, <2>6
<1>3. \A c \in 0 .. d - 1 : x.w[c] \in Elements
  BY DEF Drawn
<1>4. \A c \in 0 .. d - 1 :
          /\ V[c] \in Int /\ P[c] \in Int /\ Congruent(V[c], P[c]) /\ x.w[c] \in Elements
          /\ F[c] = V[c] * x.w[c] /\ G[c] = P[c] * x.w[c]
  <2> HIDE DEF d, u, t
  <2> QED
    BY <1>2, <1>3
<1>5. WordOf(s, y, z, x.w, i, j) = Total(F, d)
  BY DEF WordOf
<1>6. ExactWords(s, x)[<<i, j>>] = Total(G, d) % Modulus
  BY ExactWordsUnfold
<1> HIDE DEF d, u, t, V, P, F, G
<1>7. Total(F, d) \in Int /\ Total(G, d) \in Int /\ Congruent(Total(F, d), Total(G, d))
  BY <1>1, <1>4, WeightedSum, SMTT(60)
<1>8. /\ Total(G, d) % Modulus \in Elements /\ Total(G, d) % Modulus \in Int
      /\ Congruent(Total(G, d), Total(G, d) % Modulus)
  BY <1>7, Remainder
<1>9. Congruent(v, Total(F, d))
  BY <1>5
<1>10. Congruent(v, Total(G, d))
  BY <1>7, <1>9, CongruentTransitive
<1>11. Congruent(v, Total(G, d) % Modulus)
  BY <1>7, <1>8, <1>10, CongruentTransitive
<1>12. v % Modulus = Total(G, d) % Modulus
  BY <1>8, <1>11, RemainderUnique
<1> QED
  BY <1>6, <1>12

\* The terms of a part of faithful matrices fit the accumulators.
LEMMA PartFits ==
    ASSUME NEW s \in Shape, NEW y, NEW z,
           Matrix(y, s.n, s.n, Modulus), Matrix(z, s.n, s.n, Modulus),
           Square(s, y), Square(s, z),
           NEW i \in 0 .. Blocks(s) - 1, NEW j \in 0 .. Blocks(s) - 1,
           NEW c \in 0 .. Cells(s) - 1, NEW l \in 0 .. Blocks(s) - 1
    PROVE  \A k \in 0 .. s.b - 1 : CellTerms(s, y, z, i, l, j, c)[k] \in 0 .. LargestProduct
<1> SUFFICES ASSUME NEW k \in 0 .. s.b - 1
             PROVE  CellTerms(s, y, z, i, l, j, c)[k] \in 0 .. LargestProduct
  OBVIOUS
<1> DEFINE e == l * s.b + k
<1>1. e = l * s.b + k
  OBVIOUS
<1> HIDE DEF e
<1>2. e \in 0 .. s.n - 1
  BY <1>1, SectionInside
<1>3. CellRow(s, i, c) \in 0 .. s.n - 1 /\ CellColumn(s, j, c) \in 0 .. s.n - 1
  BY CellInMatrix
<1>4. CellTerms(s, y, z, i, l, j, c)[k] =
          y[<<CellRow(s, i, c), e>>] * z[<<e, CellColumn(s, j, c)>>]
  BY <1>1, PartTerms
<1>5. y[<<CellRow(s, i, c), e>>] \in 0 .. Modulus /\ z[<<e, CellColumn(s, j, c)>>] \in 0 .. Modulus
  BY <1>2, <1>3 DEF Matrix
<1> DEFINE p == y[<<CellRow(s, i, c), e>>]
           q == z[<<e, CellColumn(s, j, c)>>]
<1>6. p \in 0 .. Modulus /\ q \in 0 .. Modulus + 1
  BY <1>5, ModulusAssumption
<1> HIDE DEF p, q
<1>7. p * q \in Nat /\ p * q <= LargestProduct
  BY <1>6, ProductBounded
<1>8. p * q \in 0 .. LargestProduct
  BY <1>7, LargestProductFits
<1> QED
  BY <1>4, <1>8 DEF p, q

\* Elements as cells of a part, times the weights.
Weighed(d, V, P, w, F, G) ==
    \A c \in 0 .. d - 1 :
        /\ V[c] \in Elements /\ P[c] \in Int /\ Congruent(V[c], P[c]) /\ w[c] \in Elements
        /\ F[c] = V[c] * w[c] /\ G[c] = P[c] * w[c]

LEMMA WeightedCells ==
    ASSUME NEW d \in Nat, NEW V, NEW P, NEW w, NEW F, NEW G, Weighed(d, V, P, w, F, G)
    PROVE  /\ ScalarDot(F, d) \in Elements /\ Congruent(ScalarDot(F, d), Total(G, d))
           /\ GpuDot(F, d) \in Elements /\ Congruent(GpuDot(F, d), Total(G, d))
<1>1. ASSUME NEW c \in 0 .. d - 1 PROVE F[c] \in 0 .. LargestProduct
  <2>1. V[c] \in 0 .. Modulus /\ w[c] \in 0 .. Modulus + 1
    BY ModulusAssumption DEF Elements, Weighed
  <2>2. V[c] * w[c] \in Nat /\ V[c] * w[c] <= LargestProduct
    BY <2>1, ProductBounded
  <2>3. F[c] = V[c] * w[c]
    BY DEF Weighed
  <2> QED
    BY <2>2, <2>3, LargestProductFits
<1>2. \A c \in 0 .. d - 1 :
          /\ V[c] \in Int /\ P[c] \in Int /\ Congruent(V[c], P[c]) /\ w[c] \in Elements
          /\ F[c] = V[c] * w[c] /\ G[c] = P[c] * w[c]
  BY ElementsAreNumbers DEF Weighed
<1>3. Total(F, d) \in Int /\ Total(G, d) \in Int /\ Congruent(Total(F, d), Total(G, d))
  BY <1>2, WeightedSum
<1>4. ScalarDot(F, d) \in Elements /\ Congruent(ScalarDot(F, d), Total(F, d))
  BY <1>1, ScalarDotCorrect
<1>5. GpuDot(F, d) \in Elements /\ Congruent(GpuDot(F, d), Total(F, d))
  BY <1>1, GpuDotCorrect
<1>6. ScalarDot(F, d) \in Int /\ GpuDot(F, d) \in Int
  BY <1>4, <1>5, ElementsAreNumbers
<1>7. Congruent(ScalarDot(F, d), Total(G, d))
  BY <1>3, <1>4, <1>6, CongruentTransitive
<1>8. Congruent(GpuDot(F, d), Total(G, d))
  BY <1>3, <1>5, <1>6, CongruentTransitive
<1> QED
  BY <1>4, <1>5, <1>7, <1>8

LEMMA DrawnIsDisturbed ==
    ASSUME NEW s \in Shape, NEW x, Drawn(s, x)
    PROVE  Disturbed(s, x.a, x.el, x.er) /\ Disturbed(s, x.b, x.fl, x.fr)
BY DEF Drawn, Disturbed

\* Both words are elements, so that the exact word is the only candidate.
LEMMA ElementIsExact ==
    ASSUME NEW s \in Shape, NEW x, Drawn(s, x), NEW y, NEW z,
           Faithful(s, y, ExactA(s, x)), Faithful(s, z, ExactB(s, x)),
           NEW i \in 0 .. Blocks(s) - 1, NEW j \in 0 .. Blocks(s) - 1,
           NEW v \in Elements, Congruent(v, WordOf(s, y, z, x.w, i, j))
    PROVE  v = ExactWords(s, x)[<<i, j>>]
<1>1. v \in Int /\ v % Modulus = v
  BY ModulusAssumption DEF Elements
<1> QED
  BY <1>1, WordIsExact

\* ComputeProductCommittedDigest hashes the exact words.
LEMMA CpuWordsExact ==
    ASSUME NEW s \in Shape, NEW x, Drawn(s, x)
    PROVE  CpuWords(s, x) = ExactWords(s, x)
<1> DEFINE y == Perturbed(s, x.a, x.el, x.er)
           z == Perturbed(s, x.b, x.fl, x.fr)
           m == Blocks(s)
           d == Cells(s)
           compressed(i, l, j) ==
               ScalarDot([c \in 0 .. d - 1 |->
                             ScalarDot(CellTerms(s, y, z, i, l, j, c), s.b) * x.w[c]], d)
<1>1. Faithful(s, y, ExactA(s, x)) /\ Faithful(s, z, ExactB(s, x))
  BY DrawnIsDisturbed, PerturbedIsFaithful DEF ExactA, ExactB
<1>2. \A c \in 0 .. d - 1 : x.w[c] \in Elements
  BY DEF Drawn
<1>3. /\ Matrix(y, s.n, s.n, Modulus) /\ Matrix(z, s.n, s.n, Modulus)
      /\ Square(s, y) /\ Square(s, z)
  BY <1>1 DEF Faithful
<1>4. CpuWords(s, x) = [p \in WordIndex(s) |->
                           FieldTotal([l \in 0 .. m - 1 |-> compressed(p[1], l, p[2])], m)]
  BY DEF CpuWords
<1> HIDE DEF y, z
<1>5. ASSUME NEW i \in 0 .. m - 1, NEW j \in 0 .. m - 1
      PROVE  CpuWords(s, x)[<<i, j>>] = ExactWords(s, x)[<<i, j>>]
  <2> DEFINE K == [l \in 0 .. m - 1 |-> compressed(i, l, j)]
  <2>1. CpuWords(s, x)[<<i, j>>] = FieldTotal(K, m)
    <3>1. <<i, j>> \in WordIndex(s)
      BY DEF WordIndex
    <3> QED
      BY <1>4, <3>1
  <2>2. ASSUME NEW l \in 0 .. m - 1
        PROVE  /\ K[l] \in Elements
               /\ Congruent(K[l], Total([c \in 0 .. d - 1 |->
                                            Part(s, y, z, i, j, l, c) * x.w[c]], d))
    <3> DEFINE V == [c \in 0 .. d - 1 |-> ScalarDot(CellTerms(s, y, z, i, l, j, c), s.b)]
               P == [c \in 0 .. d - 1 |-> Part(s, y, z, i, j, l, c)]
               F == [c \in 0 .. d - 1 |-> ScalarDot(CellTerms(s, y, z, i, l, j, c), s.b) * x.w[c]]
               G == [c \in 0 .. d - 1 |-> Part(s, y, z, i, j, l, c) * x.w[c]]
    <3>1. d \in Nat /\ s.b \in Nat
      BY ShapeTypes
    <3>2. ASSUME NEW c \in 0 .. d - 1
          PROVE  /\ V[c] \in Elements /\ P[c] \in Int /\ Congruent(V[c], P[c])
                 /\ x.w[c] \in Elements /\ F[c] = V[c] * x.w[c] /\ G[c] = P[c] * x.w[c]
      <4> DEFINE f == CellTerms(s, y, z, i, l, j, c)
      <4>1. \A k \in 0 .. s.b - 1 : f[k] \in 0 .. LargestProduct
        BY <1>3, PartFits
      <4>2. Part(s, y, z, i, j, l, c) \in Int
        BY <1>3, PartTypes
      <4> HIDE DEF f
      <4>3. ScalarDot(f, s.b) \in Elements /\ Congruent(ScalarDot(f, s.b), Total(f, s.b))
        BY <3>1, <4>1, ScalarDotCorrect
      <4>4. V[c] = ScalarDot(f, s.b) /\ P[c] = Part(s, y, z, i, j, l, c)
            /\ Part(s, y, z, i, j, l, c) = Total(f, s.b)
            /\ F[c] = V[c] * x.w[c] /\ G[c] = P[c] * x.w[c]
        BY DEF f, Part
      <4> HIDE DEF V, P, F, G
      <4> QED
        BY <1>2, <4>2, <4>3, <4>4
    <3>3. K[l] = ScalarDot(F, d)
      OBVIOUS
    <3> HIDE DEF V, P, F, K, d
    <3>4. ScalarDot(F, d) \in Elements /\ Congruent(ScalarDot(F, d), Total(G, d))
      <4> HIDE DEF G
      <4> DEFINE w == x.w
      <4>1. Weighed(d, V, P, w, F, G)
        BY <3>2 DEF Weighed
      <4> HIDE DEF w
      <4> QED
        BY <3>1, <4>1, WeightedCells
    <3> QED
      BY <3>3, <3>4
  <2> HIDE DEF K
  <2>3. /\ FieldTotal(K, m) \in Elements
        /\ Congruent(FieldTotal(K, m), WordOf(s, y, z, x.w, i, j))
    BY <1>2, <1>3, <2>2, BlocksAddUp
  <2>4. FieldTotal(K, m) = ExactWords(s, x)[<<i, j>>]
    BY <1>1, <2>3, ElementIsExact
  <2> QED
    BY <2>1, <2>4
<1>6. /\ DOMAIN CpuWords(s, x) = WordIndex(s) /\ DOMAIN ExactWords(s, x) = WordIndex(s)
      /\ CpuWords(s, x) = [p \in WordIndex(s) |-> CpuWords(s, x)[p]]
      /\ ExactWords(s, x) = [p \in WordIndex(s) |-> ExactWords(s, x)[p]]
  BY DEF CpuWords, ExactWords
<1>7. \A p \in WordIndex(s) : CpuWords(s, x)[p] = ExactWords(s, x)[p]
  BY <1>5 DEF WordIndex
<1> QED
  BY <1>6, <1>7

-----------------------------------------------------------------------------
(* The reduction of a thread block *)

\* One turn of the loop of a warp.
Halved(v, width) ==
    IF v.offset \div 2 = 0 THEN v
    ELSE [offset |-> v.offset \div 2, val |-> ShuffleDown(v.val, width, v.offset \div 2)]
LanesOf(width) == [offset : Nat, val : [0 .. width - 1 -> Elements]]
IsReduction(h, val, width) ==
    h = [turn \in 0 .. width |->
            IF turn = 0 THEN [offset |-> width, val |-> val] ELSE Halved(h[turn - 1], width)]

LEMMA ShuffleTypes ==
    ASSUME NEW width \in Nat \ {0}, NEW val \in [0 .. width - 1 -> Elements], NEW offset \in Nat
    PROVE  ShuffleDown(val, width, offset) \in [0 .. width - 1 -> Elements]
<1> SUFFICES ASSUME NEW t \in 0 .. width - 1
             PROVE  Add(val[t], val[IF t + offset < width THEN t + offset ELSE t]) \in Elements
  BY DEF ShuffleDown
<1> DEFINE u == IF t + offset < width THEN t + offset ELSE t
<1>1. u \in 0 .. width - 1
  OBVIOUS
<1> HIDE DEF u
<1>2. val[t] \in Elements /\ val[u] \in Elements
  BY <1>1
<1>3. Add(val[t], val[u]) \in Elements
  BY <1>2, AddCorrect
<1> QED
  BY <1>3 DEF u

LEMMA HalvedTypes ==
    ASSUME NEW width \in Nat \ {0}, NEW v \in LanesOf(width)
    PROVE  Halved(v, width) \in LanesOf(width)
<1>1. v.offset \in Nat /\ v.val \in [0 .. width - 1 -> Elements]
  BY DEF LanesOf
<1>2. v.offset \div 2 \in Nat
  BY <1>1
<1>3. ShuffleDown(v.val, width, v.offset \div 2) \in [0 .. width - 1 -> Elements]
  BY <1>1, <1>2, ShuffleTypes
<1> QED
  BY <1>2, <1>3 DEF Halved, LanesOf

LEMMA WarpReduceRecursion ==
    ASSUME NEW width \in Nat \ {0}, NEW val \in [0 .. width - 1 -> Elements]
    PROVE  \E h : /\ WarpReduce(val, width) = h[width].val[0]
                  /\ h[0] = [offset |-> width, val |-> val]
                  /\ \A k \in 1 .. width : h[k] = Halved(h[k - 1], width)
<1> DEFINE S == LanesOf(width)
           first == [offset |-> width, val |-> val]
           step == [k \in 1 .. width |-> [v \in S |-> Halved(v, width)]]
<1>1. first \in S /\ width \in Nat
  BY DEF LanesOf
<1>2. step \in [1 .. width -> [S -> S]]
  BY HalvedTypes
<1> HIDE DEF S, first
<1>3. PICK g \in [0 .. width -> S] : Iterates(g, width, first, step)
  <2> HIDE DEF step
  <2> QED
    BY <1>1, <1>2, IterationExists
<1>4. \A i \in 0 .. width : g[i] = IF i = 0 THEN first ELSE Halved(g[i - 1], width)
  <2>1. \A i \in 0 .. width : g[i] = IF i = 0 THEN first ELSE step[i][g[i - 1]]
    BY <1>3 DEF Iterates
  <2>2. ASSUME NEW i \in 1 .. width PROVE step[i][g[i - 1]] = Halved(g[i - 1], width)
    <3>1. g[i - 1] \in S
      BY <1>3
    <3> QED
      BY <3>1
  <2>3. \A i \in 0 .. width : i # 0 => i \in 1 .. width
    OBVIOUS
  <2> HIDE DEF step
  <2> QED
    BY <2>1, <2>2, <2>3, Zenon
<1>5. IsReduction(g, val, width)
  BY <1>3, <1>4 DEF IsReduction, first
<1> DEFINE h == CHOOSE k : IsReduction(k, val, width)
<1>6. IsReduction(h, val, width)
  BY <1>5, Zenon
<1>7. WarpReduce(val, width) = h[width].val[0]
  BY DEF WarpReduce, IsReduction, Halved
<1> HIDE DEF h
<1>8. /\ h[0] = [offset |-> width, val |-> val]
      /\ \A k \in 1 .. width : h[k] = Halved(h[k - 1], width)
  BY <1>6 DEF IsReduction
<1> QED
  BY <1>7, <1>8

\* Half of an even divisor is a divisor.
LEMMA HalfDivides ==
    ASSUME NEW width \in Nat \ {0}, NEW o \in 2 .. width, width % o = 0, o % 2 = 0,
           NEW p, p = o \div 2
    PROVE  p \in 1 .. width /\ o = p + p /\ width % p = 0 /\ p < o
<1>1. p \in Nat /\ o = 2 * p
  <2>1. o \in Nat /\ o = 2 * (o \div 2) + (o % 2) /\ o \div 2 \in Nat
    OBVIOUS
  <2> QED
    BY <2>1
<1>2. p \in Nat \ {0} /\ p \in 1 .. width /\ p < o /\ o = p + p
  BY <1>1
<1> DEFINE q == width \div o
<1>3. q \in Nat /\ width = o * q
  <2>1. o \in Nat \ {0} /\ width \in Nat
    OBVIOUS
  <2>2. width \div o \in Nat /\ width = o * (width \div o) + (width % o)
    BY <2>1, SMT
  <2> QED
    BY <2>1, <2>2
<1> HIDE DEF q
<1>4. width = (2 * q) * p + 0 /\ 2 * q \in Nat
  BY <1>1, <1>3
<1>5. 0 \in 0 .. p - 1
  BY <1>2
<1>6. ((2 * q) * p + 0) % p = 0
  BY <1>2, <1>4, <1>5, DivideCell
<1> QED
  BY <1>2, <1>4, <1>6

\* A halving keeps the sum of the values below the offset.
LEMMA HalvingKeepsSum ==
    ASSUME NEW width \in Nat \ {0}, NEW val \in [0 .. width - 1 -> Elements],
           NEW p \in 1 .. width, p + p <= width
    PROVE  Congruent(Total(ShuffleDown(val, width, p), p), Total(val, p + p))
<1> DEFINE u == ShuffleDown(val, width, p)
           g == [t \in 0 .. p - 1 |-> val[p + t]]
           h == [t \in 0 .. p - 1 |-> val[t] + val[p + t]]
<1>1. p \in Nat /\ Terms(val, p + p) /\ Terms(val, p)
  BY ElementsAreNumbers DEF Terms
<1>2. ASSUME NEW t \in 0 .. p - 1
      PROVE  /\ g[t] = val[p + t] /\ g[t] \in Int /\ h[t] = val[t] + g[t] /\ h[t] \in Int
             /\ u[t] \in Int /\ Congruent(u[t], h[t])
  <2>1. t \in 0 .. width - 1 /\ p + t \in 0 .. width - 1 /\ t + p < width /\ t + p = p + t
    OBVIOUS
  <2>2. val[t] \in Elements /\ val[p + t] \in Elements
    BY <2>1
  <2>3. u[t] = Add(val[t], val[p + t])
    BY <2>1 DEF ShuffleDown
  <2>4. Add(val[t], val[p + t]) \in Elements /\ Congruent(Add(val[t], val[p + t]), val[t] + val[p + t])
    BY <2>2, AddCorrect
  <2>5. g[t] = val[p + t] /\ h[t] = val[t] + val[p + t]
    OBVIOUS
  <2> HIDE DEF u, g, h
  <2> QED
    BY <2>2, <2>3, <2>4, <2>5, ElementsAreNumbers
<1> HIDE DEF u, g, h
<1>3. Terms(g, p) /\ Terms(h, p) /\ Terms(u, p)
  BY <1>2 DEF Terms
<1>4. Total(h, p) = Total(val, p) + Total(g, p)
  BY <1>1, <1>2, <1>3, TotalOfSums
<1>5. Total(val, p + p) = Total(val, p) + Total(g, p)
  BY <1>1, <1>2, TotalSplits
<1>6. Congruent(Total(u, p), Total(h, p))
  BY <1>1, <1>2, <1>3, TotalCongruent
<1> QED
  BY <1>4, <1>5, <1>6 DEF u

LEMMA WarpReduceCorrect ==
    ASSUME NEW width \in Nat \ {0}, PowerOfTwo(width), NEW val \in [0 .. width - 1 -> Elements]
    PROVE  /\ WarpReduce(val, width) \in Elements
           /\ Congruent(WarpReduce(val, width), Total(val, width))
<1>1. PICK h : /\ WarpReduce(val, width) = h[width].val[0]
               /\ h[0] = [offset |-> width, val |-> val]
               /\ \A k \in 1 .. width : h[k] = Halved(h[k - 1], width)
  BY WarpReduceRecursion
<1> DEFINE Reduced(k) ==
               /\ h[k] \in LanesOf(width)
               /\ h[k].offset \in 1 .. width /\ width % h[k].offset = 0
               /\ h[k].offset = 1 \/ h[k].offset <= width - k
               /\ Congruent(Total(h[k].val, h[k].offset), Total(val, width))
           R == {k \in 0 .. width : Reduced(k)}
<1>2. Total(val, width) \in Int
  <2>1. Terms(val, width)
    BY ElementsAreNumbers DEF Terms
  <2>2. width \in 0 .. width
    OBVIOUS
  <2> QED
    BY <2>1, <2>2, TotalUnfolds
<1>3. 0 \in R
  <2>1. h[0] = [offset |-> width, val |-> val] /\ width % width = 0
    BY <1>1
  <2>2. h[0] \in LanesOf(width) /\ h[0].offset = width /\ h[0].val = val
    BY <2>1 DEF LanesOf
  <2>3. Congruent(Total(val, width), Total(val, width))
    BY <1>2, CongruentReflexive
  <2> QED
    BY <2>1, <2>2, <2>3
<1>4. ASSUME NEW k \in 1 .. width, k - 1 \in R PROVE k \in R
  <2> DEFINE v == h[k - 1]
             o == v.offset
             p == o \div 2
  <2>1. /\ v \in LanesOf(width) /\ o \in 1 .. width /\ width % o = 0
        /\ o = 1 \/ o <= width - (k - 1)
        /\ Congruent(Total(v.val, o), Total(val, width))
    BY <1>4
  <2>2. h[k] = Halved(v, width) /\ v.offset = o
    BY <1>1
  <2> HIDE DEF v
  <2>3. v.val \in [0 .. width - 1 -> Elements]
    BY <2>1 DEF LanesOf
  <2> HIDE DEF o
  <2>4. CASE o = 1
    <3>1. p = 0
      BY <2>4
    <3>2. h[k] = v
      BY <2>2, <3>1 DEF Halved
    <3>3. Reduced(k)
      BY <2>1, <2>2, <2>4, <3>2
    <3> QED
      BY <3>3
  <2>5. CASE o # 1
    <3>1. o \in 2 .. width /\ o % 2 = 0
      BY <2>1, <2>5 DEF PowerOfTwo
    <3>2. p \in 1 .. width /\ o = p + p /\ width % p = 0 /\ p < o
      BY <2>1, <3>1, HalfDivides
    <3>3. v.val \in [0 .. width - 1 -> Elements] /\ p + p <= width /\ p # 0
      BY <2>3, <3>1, <3>2
    <3> DEFINE u == ShuffleDown(v.val, width, p)
    <3>4. h[k] = [offset |-> p, val |-> u]
      BY <2>2, <3>3 DEF Halved
    <3>5. h[k] \in LanesOf(width)
      BY <2>1, <2>2, HalvedTypes
    <3>6. Congruent(Total(u, p), Total(v.val, p + p))
      BY <3>2, <3>3, HalvingKeepsSum
    <3> HIDE DEF u, p
    <3>7. Terms(u, p) /\ Terms(v.val, o) /\ p \in Nat /\ o \in Nat
      <4>1. u \in [0 .. width - 1 -> Elements]
        BY <3>4, <3>5 DEF LanesOf
      <4>2. \A t \in 0 .. o - 1 : t \in 0 .. width - 1
        BY <3>1
      <4>3. \A t \in 0 .. p - 1 : t \in 0 .. width - 1
        BY <3>2
      <4> QED
        BY <3>1, <3>2, <3>3, <4>1, <4>2, <4>3, ElementsAreNumbers DEF Terms
    <3>8. Total(u, p) \in Int /\ Total(v.val, o) \in Int
      <4>1. p \in 0 .. p /\ o \in 0 .. o
        BY <3>7
      <4> QED
        BY <3>7, <4>1, TotalUnfolds
    <3>9. Congruent(Total(u, p), Total(val, width))
      BY <1>2, <2>1, <3>2, <3>6, <3>8, CongruentTransitive
    <3>10. h[k].offset = p /\ h[k].val = u
      BY <3>4
    <3>11. p = 1 \/ p <= width - k
      BY <2>1, <3>1, <3>2
    <3>12. Reduced(k)
      BY <3>2, <3>5, <3>9, <3>10, <3>11
    <3> QED
      BY <3>12
  <2> QED
    BY <2>4, <2>5
<1> HIDE DEF R
<1>5. 0 .. width \subseteq R
  BY <1>3, <1>4, InductionOverTurns
<1>6. Reduced(width)
  BY <1>5 DEF R
<1> DEFINE w == h[width].val
<1>7. h[width].offset = 1 /\ w \in [0 .. width - 1 -> Elements]
      /\ Congruent(Total(w, 1), Total(val, width))
  BY <1>6 DEF LanesOf
<1> HIDE DEF w
<1>8. w[0] \in Elements /\ w[0] \in Int
  BY <1>7, ElementsAreNumbers
<1>9. Total(w, 1) = w[0]
  <2>1. Terms(w, 1)
    BY <1>8 DEF Terms
  <2>2. 1 \in Nat /\ 1 \in 1 .. 1 /\ 1 - 1 = 0
    OBVIOUS
  <2>3. Total(w, 1) = Total(w, 1 - 1) + w[1 - 1] /\ Total(w, 0) = 0
    BY <2>1, <2>2, TotalUnfolds
  <2> QED
    BY <1>8, <2>2, <2>3
<1> QED
  BY <1>1, <1>7, <1>8, <1>9 DEF w

LEMMA BlockReduceCorrect ==
    ASSUME NEW val \in [0 .. Lanes * Warps - 1 -> Elements]
    PROVE  /\ BlockReduce(val) \in Elements
           /\ Congruent(BlockReduce(val), Total(val, Lanes * Warps))
<1>1. /\ Lanes \in Nat \ {0} /\ Warps \in Nat \ {0}
      /\ PowerOfTwo(Lanes) /\ PowerOfTwo(Warps)
  BY KernelAssumption
<1> DEFINE section(w) == [l \in 0 .. Lanes - 1 |-> val[w * Lanes + l]]
           sums == [w \in 0 .. Warps - 1 |-> WarpReduce(section(w), Lanes)]
           F == [p \in (0 .. Warps - 1) \X (0 .. Lanes - 1) |-> val[p[1] * Lanes + p[2]]]
<1>2. ASSUME NEW w \in 0 .. Warps - 1, NEW l \in 0 .. Lanes - 1
      PROVE  /\ F[<<w, l>>] = val[w * Lanes + l] /\ section(w)[l] = val[w * Lanes + l]
             /\ val[w * Lanes + l] \in Elements
  <2>1. w * Lanes + l \in 0 .. Warps * Lanes - 1
    BY <1>1, RowInside
  <2>2. Warps * Lanes = Lanes * Warps
    BY <1>1
  <2> QED
    BY <2>1, <2>2
<1>3. ASSUME NEW w \in 0 .. Warps - 1
      PROVE  /\ sums[w] \in Elements /\ sums[w] \in Int
             /\ Congruent(sums[w], RowTotals(F, Warps, Lanes)[w])
  <2> DEFINE u == section(w)
  <2>1. u \in [0 .. Lanes - 1 -> Elements]
    BY <1>2
  <2>2. u = Row(F, w, Lanes)
    BY <1>2 DEF Row
  <2>3. RowTotals(F, Warps, Lanes)[w] = Total(Row(F, w, Lanes), Lanes)
    BY DEF RowTotals
  <2>4. sums[w] = WarpReduce(u, Lanes)
    OBVIOUS
  <2> HIDE DEF u, F, sums
  <2>5. WarpReduce(u, Lanes) \in Elements /\ Congruent(WarpReduce(u, Lanes), Total(u, Lanes))
    BY <1>1, <2>1, WarpReduceCorrect
  <2> QED
    BY <2>2, <2>3, <2>4, <2>5, ElementsAreNumbers
<1>4. BlockReduce(val) = WarpReduce(sums, Warps)
  BY DEF BlockReduce
<1>5. Table(F, Warps, Lanes)
  <2> SUFFICES ASSUME NEW w \in 0 .. Warps - 1, NEW l \in 0 .. Lanes - 1
               PROVE  F[<<w, l>>] \in Int
    BY DEF Table
  <2>1. F[<<w, l>>] \in Elements
    BY <1>2
  <2> QED
    BY <2>1, ElementsAreNumbers
<1>6. sums \in [0 .. Warps - 1 -> Elements]
  BY <1>3
<1>7. \A w \in 0 .. Warps - 1 : \A l \in 0 .. Lanes - 1 : val[w * Lanes + l] = F[<<w, l>>]
  BY <1>2
<1> HIDE DEF sums, F
<1>8. Total(val, Warps * Lanes) = ByRows(F, Warps, Lanes)
  BY <1>1, <1>5, <1>7, SumsFlatten
<1>9. WarpReduce(sums, Warps) \in Elements /\ Congruent(WarpReduce(sums, Warps), Total(sums, Warps))
  BY <1>1, <1>6, WarpReduceCorrect
<1>10. Terms(sums, Warps)
  BY <1>3 DEF Terms
<1>11. Warps \in 0 .. Warps /\ Warps \in Nat /\ Lanes \in Nat /\ Warps * Lanes = Lanes * Warps
  BY <1>1
<1>12. Terms(RowTotals(F, Warps, Lanes), Warps) /\ ByRows(F, Warps, Lanes) \in Int
  BY <1>5, <1>11, TableTypes
<1>13. Congruent(Total(sums, Warps), ByRows(F, Warps, Lanes)) /\ Total(sums, Warps) \in Int
  BY <1>3, <1>10, <1>11, <1>12, TotalCongruent, TotalUnfolds DEF ByRows
<1>14. WarpReduce(sums, Warps) \in Int
  BY <1>9, ElementsAreNumbers
<1>15. Congruent(WarpReduce(sums, Warps), ByRows(F, Warps, Lanes))
  BY <1>9, <1>12, <1>13, <1>14, CongruentTransitive
<1> QED
  BY <1>4, <1>8, <1>9, <1>11, <1>15

-----------------------------------------------------------------------------
(* The words of the batched kernels *)

\* The shape is not larger than the loops and the thread blocks of the kernels,
\* and a row of noise does not end with three products pending.
FitsKernels(s) ==
    /\ s.r <= UnrolledRank /\ s.b <= UnrolledBlock
    /\ Cells(s) <= Lanes * Warps
    /\ s.r % ReduceInterval # 3

LEMMA WeightFits ==
    ASSUME NEW v \in 0 .. Modulus + 4, NEW w \in Elements
    PROVE  v * w \in 0 .. Wide - 1
<1>1. v \in Nat /\ w \in Nat /\ v <= Modulus + 4 /\ w <= Modulus /\ Modulus \in Nat
  BY ModulusAssumption DEF Elements
<1>2. v * w \in Nat /\ v * w <= (Modulus + 4) * w
  BY <1>1
<1>3. (Modulus + 4) * w <= (Modulus + 4) * Modulus
  BY <1>1
<1>4. Wide = 4 * (Modulus * Modulus) + 8 * Modulus + 4
  BY <1>1 DEF Wide, Base
<1>5. (Modulus + 4) * Modulus = Modulus * Modulus + 4 * Modulus
  BY <1>1
<1>6. Modulus * Modulus \in Nat
  BY <1>1
<1> QED
  BY <1>1, <1>2, <1>3, <1>4, <1>5, <1>6

\* A thread of the batched kernel: one cell, over all blocks.
ThreadTerms(s, y, z, w, i, j, c) ==
    [l \in 0 .. Blocks(s) - 1 |->
        Mul(TwoFolds(GpuAcc(CellTerms(s, y, z, i, l, j, c), s.b)), w[c])]
Weights(s, w) == \A c \in 0 .. Cells(s) - 1 : w[c] \in Elements
Factor(s, y) == Matrix(y, s.n, s.n, Modulus) /\ Square(s, y)

LEMMA ThreadCorrect ==
    ASSUME NEW s \in Shape, NEW y, NEW z, Factor(s, y), Factor(s, z),
           NEW w, Weights(s, w),
           NEW i \in 0 .. Blocks(s) - 1, NEW j \in 0 .. Blocks(s) - 1,
           NEW c \in 0 .. Cells(s) - 1
    PROVE  /\ FieldTotal(ThreadTerms(s, y, z, w, i, j, c), Blocks(s)) \in Elements
           /\ Congruent(FieldTotal(ThreadTerms(s, y, z, w, i, j, c), Blocks(s)),
                        InnerCell(s, y, z, i, j, c) * w[c])
           /\ InnerCell(s, y, z, i, j, c) * w[c] \in Int
<1> DEFINE m == Blocks(s)
           f == ThreadTerms(s, y, z, w, i, j, c)
           u == w[c]
           col == [l \in 0 .. m - 1 |-> Part(s, y, z, i, j, l, c) * u]
<1>1. m \in Nat /\ s.b \in Nat
  BY ShapeTypes
<1>2. /\ Matrix(y, s.n, s.n, Modulus) /\ Square(s, y)
      /\ Matrix(z, s.n, s.n, Modulus) /\ Square(s, z)
  BY DEF Factor
<1>3. u \in Elements /\ u \in Int
  BY ElementsAreNumbers DEF Weights
<1>4. \A l \in 0 .. Blocks(s) - 1 : col[l] = Part(s, y, z, i, j, l, c) * u
  OBVIOUS
<1>5. \A l \in 0 .. m - 1 :
         f[l] = Mul(TwoFolds(GpuAcc(CellTerms(s, y, z, i, l, j, c), s.b)), u)
  BY DEF ThreadTerms
<1> HIDE DEF f, u, col
<1>6. /\ Total(col, Blocks(s)) = InnerCell(s, y, z, i, j, c) * u
      /\ InnerCell(s, y, z, i, j, c) \in Int
  BY <1>2, <1>3, <1>4, PartColumn
<1>7. ASSUME NEW l \in 0 .. m - 1
      PROVE  f[l] \in Elements /\ f[l] \in Int /\ col[l] \in Int /\ Congruent(f[l], col[l])
  <2> DEFINE g == CellTerms(s, y, z, i, l, j, c)
             v == TwoFolds(GpuAcc(g, s.b))
             p == Part(s, y, z, i, j, l, c)
             x == v * u
  <2>1. \A k \in 0 .. s.b - 1 : g[k] \in 0 .. LargestProduct
    BY <1>2, PartFits
  <2>2. p \in Int /\ p = Total(g, s.b)
    BY <1>2, PartTypes DEF Part
  <2>3. f[l] = Mul(v, u) /\ col[l] = p * u
    BY <1>4, <1>5
  <2> HIDE DEF g, p, m
  <2>4. v \in 0 .. Modulus + 4 /\ Congruent(v, p)
    BY <1>1, <2>1, <2>2, TwoFoldsOfAccumulator
  <2> HIDE DEF v
  <2>5. v \in Int /\ v * u \in 0 .. Wide - 1
    BY <1>3, <2>4, WeightFits, ModulusAssumption
  <2>6. x \in 0 .. Wide - 1 /\ x \in Int /\ Mul(v, u) = Mul(v, u) /\ x = v * u
    BY <1>3, <2>5
  <2> HIDE DEF x
  <2>7. Mul(v, u) \in Elements /\ Congruent(Mul(v, u), x)
    BY <2>6, MulCorrect
  <2>8. Congruent(v * u, p * u) /\ p * u \in Int
    <3>1. Congruent(u, u)
      BY <1>3, CongruentReflexive
    <3>2. Congruent(v * u, p * u)
      BY <1>3, <2>2, <2>4, <2>5, <3>1, CongruentProducts
    <3> QED
      BY <1>3, <2>2, <3>2
  <2>9. Mul(v, u) \in Int
    BY <2>7, ElementsAreNumbers
  <2>10. Congruent(Mul(v, u), p * u)
    BY <2>6, <2>7, <2>8, <2>9, CongruentTransitive
  <2> QED
    BY <2>3, <2>7, <2>8, <2>9, <2>10
<1> HIDE DEF m
<1>8. Terms(f, m) /\ Terms(col, m) /\ m \in 0 .. m
  BY <1>1, <1>7 DEF Terms
<1>9. FieldTotal(f, m) \in Elements /\ Congruent(FieldTotal(f, m), Total(f, m))
  BY <1>1, <1>7, FieldTotalCorrect
<1>10. Total(f, m) \in Int /\ Total(col, m) \in Int /\ Congruent(Total(f, m), Total(col, m))
  BY <1>1, <1>7, <1>8, TotalUnfolds, TotalCongruent
<1>11. FieldTotal(f, m) \in Int
  BY <1>9, ElementsAreNumbers
<1>12. Congruent(FieldTotal(f, m), Total(col, m))
  BY <1>9, <1>10, <1>11, CongruentTransitive
<1>13. InnerCell(s, y, z, i, j, c) * u \in Int
  BY <1>3, <1>6
<1> QED
  BY <1>6, <1>9, <1>12, <1>13 DEF m, f, u

\* The batched kernels: half-finished reductions, a thread per cell, and halved
\* warps give the exact words.
LEMMA BatchedWordsExact ==
    ASSUME NEW s \in Shape, FitsKernels(s), NEW x, Drawn(s, x)
    PROVE  BatchedWords(s, x) = ExactWords(s, x)
<1> DEFINE y == GpuPerturbed(x.a, x.el, x.er, s.r)
           z == GpuPerturbed(x.b, x.fl, x.fr, s.r)
           m == Blocks(s)
           d == Cells(s)
           all == Lanes * Warps
           w == x.w
           threads(i, j) ==
               [t \in 0 .. all - 1 |->
                   IF t < d THEN FieldTotal(ThreadTerms(s, y, z, w, i, j, t), m) ELSE 0]
<1>1. Faithful(s, y, ExactA(s, x)) /\ Faithful(s, z, ExactB(s, x))
  BY DrawnIsDisturbed, GpuPerturbedIsFaithful DEF ExactA, ExactB, FitsKernels
<1>2. Weights(s, w)
  BY DEF Drawn, Weights
<1>3. /\ Factor(s, y) /\ Factor(s, z) /\ Square(s, y) /\ Square(s, z)
  BY <1>1 DEF Faithful, Factor
<1>4. m \in Nat /\ d \in Nat /\ all \in Nat /\ d <= all
  BY ShapeTypes, KernelAssumption DEF FitsKernels
<1>5. BatchedWords(s, x) = [p \in WordIndex(s) |-> BlockReduce(threads(p[1], p[2]))]
  <2>1. Least(s.r, UnrolledRank) = s.r /\ Least(s.b, UnrolledBlock) = s.b
    <3>1. /\ s.r \in Nat /\ s.b \in Nat /\ UnrolledRank \in Nat /\ UnrolledBlock \in Nat
          /\ s.r <= UnrolledRank /\ s.b <= UnrolledBlock
      BY ShapeTypes, KernelAssumption DEF FitsKernels
    <3> QED
      BY <3>1 DEF Least
  <2> QED
    BY <2>1 DEF BatchedWords, ThreadTerms
<1> HIDE DEF y, z
<1>6. ASSUME NEW i \in 0 .. m - 1, NEW j \in 0 .. m - 1
      PROVE  BatchedWords(s, x)[<<i, j>>] = ExactWords(s, x)[<<i, j>>]
  <2> DEFINE u == threads(i, j)
             g == [c \in 0 .. d - 1 |-> InnerCell(s, y, z, i, j, c) * x.w[c]]
             rest == [t \in 0 .. (all - d) - 1 |-> 0]
  <2>1. BatchedWords(s, x)[<<i, j>>] = BlockReduce(u)
    <3>1. <<i, j>> \in WordIndex(s)
      BY DEF WordIndex
    <3> QED
      BY <1>5, <3>1
  <2>2. ASSUME NEW c \in 0 .. d - 1
        PROVE  u[c] \in Elements /\ u[c] \in Int /\ g[c] \in Int /\ Congruent(u[c], g[c])
    <3> DEFINE f == ThreadTerms(s, y, z, w, i, j, c)
    <3>1. u[c] = FieldTotal(f, m) /\ g[c] = InnerCell(s, y, z, i, j, c) * w[c]
      BY <1>4
    <3>2. c \in 0 .. Cells(s) - 1 /\ i \in 0 .. Blocks(s) - 1 /\ j \in 0 .. Blocks(s) - 1
      OBVIOUS
    <3> HIDE DEF u, g, m, d, w
    <3>3. /\ FieldTotal(f, Blocks(s)) \in Elements
          /\ Congruent(FieldTotal(f, Blocks(s)), InnerCell(s, y, z, i, j, c) * w[c])
          /\ InnerCell(s, y, z, i, j, c) * w[c] \in Int
      BY <1>2, <1>3, <3>2, ThreadCorrect
    <3> HIDE DEF f
    <3> QED
      BY <3>1, <3>3, ElementsAreNumbers DEF m
  <2>3. \A t \in 0 .. all - 1 : ~ t < d => u[t] = 0
    OBVIOUS
  <2>4. WordOf(s, y, z, x.w, i, j) = Total(g, d)
    BY DEF WordOf
  <2>5. u = [t \in 0 .. all - 1 |-> u[t]]
    OBVIOUS
  <2>6. \A t \in 0 .. (all - d) - 1 : rest[t] = 0 /\ d + t \in 0 .. all - 1 /\ ~ d + t < d
    BY <1>4
  <2> HIDE DEF u, g, m, d, all, rest
  <2>7. \A t \in 0 .. all - 1 : u[t] \in Elements
    <3> SUFFICES ASSUME NEW t \in 0 .. all - 1 PROVE u[t] \in Elements
      OBVIOUS
    <3>1. CASE t < d
      <4>1. t \in 0 .. d - 1
        BY <1>4, <3>1
      <4> QED
        BY <2>2, <4>1
    <3>2. CASE ~ t < d
      BY <2>3, <3>2, ModulusAssumption DEF Elements
    <3> QED
      BY <3>1, <3>2
  <2>8. u \in [0 .. all - 1 -> Elements]
    BY <2>5, <2>7
  <2>9. BlockReduce(u) \in Elements /\ Congruent(BlockReduce(u), Total(u, all))
    BY <2>8, BlockReduceCorrect DEF all
  <2>10. Total(u, all) = Total(u, d) /\ Total(u, d) \in Int
    <3>1. all - d \in Nat /\ d + (all - d) = all
      BY <1>4
    <3>2. Terms(u, all) /\ Terms(u, d)
      BY <1>4, <2>7, ElementsAreNumbers DEF Terms
    <3>3. \A t \in 0 .. (all - d) - 1 : rest[t] = u[d + t]
      BY <2>3, <2>6
    <3> DEFINE k == all - d
    <3>4. k \in Nat /\ d + k = all /\ \A t \in 0 .. k - 1 : rest[t] = u[d + t]
      BY <3>1, <3>3
    <3>5. \A t \in 0 .. k - 1 : rest[t] = 0
      BY <2>6
    <3> HIDE DEF k
    <3>6. Terms(u, d + k)
      BY <3>2, <3>4
    <3>7. Total(u, d + k) = Total(u, d) + Total(rest, k)
      BY <1>4, <3>4, <3>6, TotalSplits
    <3>8. Total(rest, k) = 0
      BY <3>4, <3>5, TotalOfZeros
    <3>9. d \in 0 .. d
      BY <1>4
    <3>10. Total(u, d) \in Int
      BY <1>4, <3>2, <3>9, TotalUnfolds
    <3> QED
      BY <3>4, <3>7, <3>8, <3>10
  <2>11. Congruent(Total(u, d), Total(g, d)) /\ Total(g, d) \in Int
    <3>1. Terms(u, d) /\ Terms(g, d) /\ d \in 0 .. d
      BY <1>4, <2>2 DEF Terms
    <3> QED
      BY <1>4, <2>2, <3>1, TotalCongruent, TotalUnfolds
  <2>12. BlockReduce(u) \in Int
    BY <2>9, ElementsAreNumbers
  <2>13. Congruent(BlockReduce(u), WordOf(s, y, z, x.w, i, j))
    BY <2>4, <2>9, <2>10, <2>11, <2>12, CongruentTransitive
  <2>14. BlockReduce(u) = ExactWords(s, x)[<<i, j>>]
    BY <1>1, <2>9, <2>13, ElementIsExact DEF m
  <2> QED
    BY <2>1, <2>14
<1>7. /\ BatchedWords(s, x) = [p \in WordIndex(s) |-> BatchedWords(s, x)[p]]
      /\ ExactWords(s, x) = [p \in WordIndex(s) |-> ExactWords(s, x)[p]]
  BY <1>5 DEF ExactWords
<1>8. \A p \in WordIndex(s) : BatchedWords(s, x)[p] = ExactWords(s, x)[p]
  BY <1>6 DEF WordIndex
<1> QED
  BY <1>7, <1>8

-----------------------------------------------------------------------------
(* The words of the kernels below the V2 height *)

\* A cell of a part, as the step-by-step kernel multiplies and adds it.
StepCell(s, y, z, i, l, j, c) ==
    FieldTotal(Products([k \in 0 .. s.b - 1 |-> y[<<i * s.b + (c \div s.b), l * s.b + k>>]],
                        [k \in 0 .. s.b - 1 |-> z[<<l * s.b + k, j * s.b + (c % s.b)>>]],
                        s.b), s.b)

LEMMA StepCellCorrect ==
    ASSUME NEW s \in Shape, NEW y, NEW z, Factor(s, y), Factor(s, z),
           NEW i \in 0 .. Blocks(s) - 1, NEW j \in 0 .. Blocks(s) - 1,
           NEW c \in 0 .. Cells(s) - 1, NEW l \in 0 .. Blocks(s) - 1
    PROVE  /\ StepCell(s, y, z, i, l, j, c) \in Elements
           /\ Congruent(StepCell(s, y, z, i, l, j, c), Part(s, y, z, i, j, l, c))
           /\ Part(s, y, z, i, j, l, c) \in Int
<1> DEFINE f == [k \in 0 .. s.b - 1 |-> y[<<i * s.b + (c \div s.b), l * s.b + k>>]]
           g == [k \in 0 .. s.b - 1 |-> z[<<l * s.b + k, j * s.b + (c % s.b)>>]]
           h == CellTerms(s, y, z, i, l, j, c)
<1>1. /\ Matrix(y, s.n, s.n, Modulus) /\ Square(s, y)
      /\ Matrix(z, s.n, s.n, Modulus) /\ Square(s, z)
  BY DEF Factor
<1>2. s.b \in Nat /\ \A k \in 0 .. s.b - 1 : h[k] \in 0 .. LargestProduct
  BY <1>1, ShapeTypes, PartFits
<1>3. \A k \in 0 .. s.b - 1 : h[k] = f[k] * g[k]
  BY DEF CellTerms
<1>4. StepCell(s, y, z, i, l, j, c) = FieldTotal(Products(f, g, s.b), s.b)
  BY DEF StepCell
<1>5. Part(s, y, z, i, j, l, c) = Total(h, s.b) /\ Part(s, y, z, i, j, l, c) \in Int
  BY <1>1, PartTypes DEF Part
<1> HIDE DEF f, g, h
<1>6. /\ FieldTotal(Products(f, g, s.b), s.b) \in Elements
      /\ Congruent(FieldTotal(Products(f, g, s.b), s.b), Total(h, s.b))
  BY <1>2, <1>3, StepProductsCorrect
<1> QED
  BY <1>4, <1>5, <1>6

LEMMA StepWordsExact ==
    ASSUME NEW s \in Shape, NEW x, Drawn(s, x)
    PROVE  StepWords(s, x) = ExactWords(s, x)
<1> DEFINE y == StepPerturbed(s, x.a, x.el, x.er)
           z == StepPerturbed(s, x.b, x.fl, x.fr)
           m == Blocks(s)
           d == Cells(s)
           step(i, l, j) ==
               GpuDot([c \in 0 .. d - 1 |-> StepCell(s, y, z, i, l, j, c) * x.w[c]], d)
<1>1. Faithful(s, y, ExactA(s, x)) /\ Faithful(s, z, ExactB(s, x))
  BY DrawnIsDisturbed, StepPerturbedIsFaithful DEF ExactA, ExactB
<1>2. \A c \in 0 .. d - 1 : x.w[c] \in Elements
  BY DEF Drawn
<1>3. Factor(s, y) /\ Factor(s, z) /\ Square(s, y) /\ Square(s, z)
  BY <1>1 DEF Faithful, Factor
<1>4. StepWords(s, x) = [p \in WordIndex(s) |->
                            FieldTotal([l \in 0 .. m - 1 |-> step(p[1], l, p[2])], m)]
  BY DEF StepWords, StepCell
<1> HIDE DEF y, z
<1>5. ASSUME NEW i \in 0 .. m - 1, NEW j \in 0 .. m - 1
      PROVE  StepWords(s, x)[<<i, j>>] = ExactWords(s, x)[<<i, j>>]
  <2> DEFINE K == [l \in 0 .. m - 1 |-> step(i, l, j)]
  <2>1. StepWords(s, x)[<<i, j>>] = FieldTotal(K, m)
    <3>1. <<i, j>> \in WordIndex(s)
      BY DEF WordIndex
    <3> QED
      BY <1>4, <3>1
  <2>2. ASSUME NEW l \in 0 .. m - 1
        PROVE  /\ K[l] \in Elements
               /\ Congruent(K[l], Total([c \in 0 .. d - 1 |->
                                            Part(s, y, z, i, j, l, c) * x.w[c]], d))
    <3> DEFINE V == [c \in 0 .. d - 1 |-> StepCell(s, y, z, i, l, j, c)]
               P == [c \in 0 .. d - 1 |-> Part(s, y, z, i, j, l, c)]
               F == [c \in 0 .. d - 1 |-> StepCell(s, y, z, i, l, j, c) * x.w[c]]
               G == [c \in 0 .. d - 1 |-> Part(s, y, z, i, j, l, c) * x.w[c]]
    <3>1. d \in Nat
      BY ShapeTypes
    <3>2. ASSUME NEW c \in 0 .. d - 1
          PROVE  /\ V[c] \in Elements /\ P[c] \in Int /\ Congruent(V[c], P[c])
                 /\ x.w[c] \in Elements /\ F[c] = V[c] * x.w[c] /\ G[c] = P[c] * x.w[c]
      <4>1. /\ StepCell(s, y, z, i, l, j, c) \in Elements
            /\ Congruent(StepCell(s, y, z, i, l, j, c), Part(s, y, z, i, j, l, c))
            /\ Part(s, y, z, i, j, l, c) \in Int
        BY <1>3, StepCellCorrect
      <4>2. V[c] = StepCell(s, y, z, i, l, j, c) /\ P[c] = Part(s, y, z, i, j, l, c)
            /\ F[c] = V[c] * x.w[c] /\ G[c] = P[c] * x.w[c]
        OBVIOUS
      <4> HIDE DEF V, P, F, G
      <4> QED
        BY <1>2, <4>1, <4>2
    <3>3. K[l] = GpuDot(F, d)
      OBVIOUS
    <3> HIDE DEF V, P, F, K, d
    <3>4. GpuDot(F, d) \in Elements /\ Congruent(GpuDot(F, d), Total(G, d))
      <4> HIDE DEF G
      <4> DEFINE w == x.w
      <4>1. Weighed(d, V, P, w, F, G)
        BY <3>2 DEF Weighed
      <4> HIDE DEF w
      <4> QED
        BY <3>1, <4>1, WeightedCells
    <3> QED
      BY <3>3, <3>4
  <2> HIDE DEF K
  <2>3. /\ FieldTotal(K, m) \in Elements
        /\ Congruent(FieldTotal(K, m), WordOf(s, y, z, x.w, i, j))
    BY <1>2, <1>3, <2>2, BlocksAddUp
  <2>4. FieldTotal(K, m) = ExactWords(s, x)[<<i, j>>]
    BY <1>1, <2>3, ElementIsExact
  <2> QED
    BY <2>1, <2>4
<1>6. /\ DOMAIN StepWords(s, x) = WordIndex(s) /\ DOMAIN ExactWords(s, x) = WordIndex(s)
      /\ StepWords(s, x) = [p \in WordIndex(s) |-> StepWords(s, x)[p]]
      /\ ExactWords(s, x) = [p \in WordIndex(s) |-> ExactWords(s, x)[p]]
  BY DEF StepWords, ExactWords
<1>7. \A p \in WordIndex(s) : StepWords(s, x)[p] = ExactWords(s, x)[p]
  BY <1>5 DEF WordIndex
<1> QED
  BY <1>6, <1>7

\* The lanes of the factored kernel take every Lanes-th column, row after row:
\* together they take each cell of the table once.
OfLanes(u, g, turns, width) ==
    \A l \in 0 .. width - 1 :
        u[l] = Total([t \in 0 .. turns - 1 |-> g[l + width * t]], turns)
OfRows(v, F, l, rows, turns, width) ==
    \A q \in 0 .. rows - 1 :
        v[q] = Total([t \in 0 .. turns - 1 |-> F[<<q, l + width * t>>]], turns)

LEMMA LaneColumns ==
    ASSUME NEW turns \in Nat, NEW width \in Nat \ {0}, NEW g, Terms(g, turns * width),
           NEW u, OfLanes(u, g, turns, width)
    PROVE  Total(u, width) = Total(g, turns * width)
<1> DEFINE F == [p \in (0 .. turns - 1) \X (0 .. width - 1) |-> g[p[1] * width + p[2]]]
<1>1. ASSUME NEW t \in 0 .. turns - 1, NEW l \in 0 .. width - 1
      PROVE  /\ F[<<t, l>>] = g[t * width + l] /\ g[t * width + l] \in Int
             /\ l + width * t = t * width + l
  <2>1. t * width + l \in 0 .. turns * width - 1
    BY RowInside
  <2>2. l + width * t = t * width + l
    OBVIOUS
  <2> QED
    BY <2>1, <2>2 DEF Terms
<1>2. Table(F, turns, width)
  BY <1>1 DEF Table
<1>3. ASSUME NEW l \in 0 .. width - 1
      PROVE  u[l] = ColumnTotals(F, turns, width)[l]
  <2>1. [t \in 0 .. turns - 1 |-> g[l + width * t]] = Column(F, l, turns)
    BY <1>1 DEF Column
  <2>2. ColumnTotals(F, turns, width)[l] = Total(Column(F, l, turns), turns)
    BY DEF ColumnTotals
  <2> QED
    BY <2>1, <2>2 DEF OfLanes
<1>4. \A t \in 0 .. turns - 1 : \A l \in 0 .. width - 1 : g[t * width + l] = F[<<t, l>>]
  BY <1>1
<1> HIDE DEF F
<1>5. Total(g, turns * width) = ByRows(F, turns, width)
  BY <1>2, <1>4, SumsFlatten
<1>6. turns \in 0 .. turns /\ width \in Nat
  OBVIOUS
<1>7. Terms(ColumnTotals(F, turns, width), width)
  BY <1>2, <1>6, TableTypes
<1>8. Total(ColumnTotals(F, turns, width), width) = Total(u, width)
  BY <1>3, <1>6, <1>7, TotalDepends
<1> QED
  BY <1>2, <1>5, <1>6, <1>8, SumsSwap DEF ByColumns

LaneRow(F, l, width, turns, k) == F[<<k \div turns, l + width * (k % turns)>>]
LaneSum(F, l, width, rows, turns) ==
    Total([k \in 0 .. rows * turns - 1 |-> LaneRow(F, l, width, turns, k)], rows * turns)

LEMMA LaneSumUnfolds ==
    ASSUME NEW rows \in Nat, NEW turns \in Nat \ {0}, NEW width \in Nat \ {0},
           NEW F, Table(F, rows, turns * width), NEW l \in 0 .. width - 1, NEW v,
           OfRows(v, F, l, rows, turns, width)
    PROVE  /\ LaneSum(F, l, width, rows, turns) = Total(v, rows)
           /\ Terms(v, rows)
           /\ \A k \in 0 .. rows * turns - 1 :
                  /\ k \div turns \in 0 .. rows - 1
                  /\ l + width * (k % turns) \in 0 .. turns * width - 1
<1> DEFINE H == [p \in (0 .. rows - 1) \X (0 .. turns - 1) |-> F[<<p[1], l + width * p[2]>>]]
           f == [k \in 0 .. rows * turns - 1 |-> LaneRow(F, l, width, turns, k)]
<1>1. ASSUME NEW t \in 0 .. turns - 1 PROVE l + width * t \in 0 .. turns * width - 1
  <2>1. t * width + l \in 0 .. turns * width - 1
    BY RowInside
  <2>2. l + width * t = t * width + l
    OBVIOUS
  <2> QED
    BY <2>1, <2>2
<1>2. ASSUME NEW q \in 0 .. rows - 1, NEW t \in 0 .. turns - 1
      PROVE  H[<<q, t>>] = F[<<q, l + width * t>>] /\ F[<<q, l + width * t>>] \in Int
  BY <1>1 DEF Table
<1>3. Table(H, rows, turns)
  BY <1>2 DEF Table
<1>4. ASSUME NEW q \in 0 .. rows - 1, NEW t \in 0 .. turns - 1
      PROVE  f[q * turns + t] = H[<<q, t>>]
  <2> DEFINE k == q * turns + t
  <2>1. k \in 0 .. rows * turns - 1
    BY RowInside
  <2>2. k \div turns = q /\ k % turns = t
    <3>1. q \in Nat
      OBVIOUS
    <3>2. (q * turns + t) \div turns = q /\ (q * turns + t) % turns = t
      <4> HIDE DEF H, f
      <4> QED
        BY <3>1, DivideCell
    <3> QED
      BY <3>2
  <2> HIDE DEF k
  <2>3. f[k] = F[<<q, l + width * t>>]
    BY <2>1, <2>2 DEF LaneRow
  <2> QED
    BY <1>2, <2>3 DEF k
<1>5. ASSUME NEW q \in 0 .. rows - 1
      PROVE  v[q] = RowTotals(H, rows, turns)[q]
  <2>1. [t \in 0 .. turns - 1 |-> F[<<q, l + width * t>>]] = Row(H, q, turns)
    BY <1>2 DEF Row
  <2>2. RowTotals(H, rows, turns)[q] = Total(Row(H, q, turns), turns)
    BY DEF RowTotals
  <2> QED
    BY <2>1, <2>2 DEF OfRows
<1>6. LaneSum(F, l, width, rows, turns) = Total(f, rows * turns)
  BY DEF LaneSum
<1> HIDE DEF H, f
<1>7. Total(f, rows * turns) = ByRows(H, rows, turns)
  BY <1>3, <1>4, SumsFlatten
<1>8. rows \in 0 .. rows /\ turns \in Nat
  OBVIOUS
<1>9. Terms(RowTotals(H, rows, turns), rows)
  BY <1>3, <1>8, TableTypes
<1>10. Terms(v, rows)
  BY <1>5, <1>9 DEF Terms
<1>11. Total(RowTotals(H, rows, turns), rows) = Total(v, rows)
  BY <1>5, <1>9, TotalDepends
<1>12. ASSUME NEW k \in 0 .. rows * turns - 1
       PROVE  k \div turns \in 0 .. rows - 1 /\ k % turns \in 0 .. turns - 1
  <2> DEFINE q == k \div turns
             t == k % turns
  <2>1. k \in Nat /\ rows * turns \in Nat /\ k < rows * turns
    OBVIOUS
  <2>2. q \in Nat /\ t \in 0 .. turns - 1 /\ k = turns * q + t
    BY <2>1, SMT
  <2> HIDE DEF q, t
  <2>3. ~ q >= rows
    <3>1. q >= rows => turns * q >= turns * rows
      BY <2>2
    <3> QED
      BY <2>1, <2>2, <3>1
  <2> QED
    BY <2>2, <2>3 DEF q, t
<1> QED
  BY <1>1, <1>6, <1>7, <1>10, <1>11, <1>12 DEF ByRows

LEMMA LanesAddUp ==
    ASSUME NEW rows \in Nat, NEW turns \in Nat \ {0}, NEW width \in Nat \ {0},
           NEW F, Table(F, rows, turns * width), NEW u,
           \A l \in 0 .. width - 1 : u[l] = LaneSum(F, l, width, rows, turns)
    PROVE  /\ Total(u, width) = ByRows(F, rows, turns * width)
           /\ Terms(u, width)
<1> DEFINE n == turns * width
           G == [p \in (0 .. width - 1) \X (0 .. rows - 1) |->
                    Total([t \in 0 .. turns - 1 |-> F[<<p[2], p[1] + width * t>>]], turns)]
<1>1. n \in Nat
  OBVIOUS
<1>2. ASSUME NEW l \in 0 .. width - 1
      PROVE  u[l] = RowTotals(G, width, rows)[l] /\ Terms(Row(G, l, rows), rows)
  <2> DEFINE v == Row(G, l, rows)
  <2>1. OfRows(v, F, l, rows, turns, width)
    BY DEF Row, OfRows
  <2>2. RowTotals(G, width, rows)[l] = Total(v, rows)
    BY DEF RowTotals
  <2> HIDE DEF v, G
  <2>3. LaneSum(F, l, width, rows, turns) = Total(v, rows) /\ Terms(v, rows)
    BY <2>1, LaneSumUnfolds
  <2> QED
    BY <2>2, <2>3 DEF v
<1>3. Table(G, width, rows)
  BY <1>2 DEF Terms, Row, Table
<1>4. ASSUME NEW q \in 0 .. rows - 1
      PROVE  ColumnTotals(G, width, rows)[q] = RowTotals(F, rows, n)[q]
  <2> DEFINE g == Row(F, q, n)
             c == Column(G, q, width)
  <2>1. Terms(g, n)
    BY DEF Terms, Table, Row
  <2>2. ASSUME NEW l \in 0 .. width - 1
        PROVE  c[l] = Total([t \in 0 .. turns - 1 |-> g[l + width * t]], turns)
    <3>1. c[l] = Total([t \in 0 .. turns - 1 |-> F[<<q, l + width * t>>]], turns)
      BY DEF Column
    <3>2. ASSUME NEW t \in 0 .. turns - 1
          PROVE  g[l + width * t] = F[<<q, l + width * t>>]
      <4>1. t * width + l \in 0 .. turns * width - 1
        BY RowInside
      <4>2. l + width * t = t * width + l
        OBVIOUS
      <4> QED
        BY <4>1, <4>2 DEF Row
    <3>3. [t \in 0 .. turns - 1 |-> F[<<q, l + width * t>>]]
              = [t \in 0 .. turns - 1 |-> g[l + width * t]]
      BY <3>2
    <3> QED
      BY <3>1, <3>3
  <2>3. ColumnTotals(G, width, rows)[q] = Total(c, width)
        /\ RowTotals(F, rows, n)[q] = Total(g, n)
    BY DEF ColumnTotals, RowTotals
  <2> HIDE DEF c, g, G
  <2>4. OfLanes(c, g, turns, width)
    BY <2>2 DEF OfLanes
  <2>5. Total(c, width) = Total(g, turns * width)
    BY <2>1, <2>4, LaneColumns
  <2> QED
    BY <2>3, <2>5
<1> HIDE DEF G
<1>5. width \in 0 .. width /\ width \in Nat /\ rows \in 0 .. rows
  OBVIOUS
<1>6. Terms(RowTotals(G, width, rows), width) /\ Terms(ColumnTotals(G, width, rows), rows)
  BY <1>3, <1>5, TableTypes
<1>7. Terms(u, width) /\ Total(RowTotals(G, width, rows), width) = Total(u, width)
  BY <1>2, <1>5, <1>6, TotalDepends DEF Terms
<1>8. ByRows(G, width, rows) = ByColumns(G, width, rows)
  BY <1>3, <1>5, SumsSwap
<1> HIDE DEF n
<1>9. Total(ColumnTotals(G, width, rows), rows) = Total(RowTotals(F, rows, n), rows)
  BY <1>4, <1>6, TotalDepends
<1> QED
  BY <1>7, <1>8, <1>9 DEF ByRows, ByColumns, n

\* What the factored kernel multiplies: a row of a with the weighted rows of b.
RhsTerms(s, z, w, q, j, c) ==
    [k \in 0 .. s.b - 1 |-> w[q * s.b + k] * z[<<c, j * s.b + k>>]]
FactoredTable(s, y, z, w, i, j) ==
    [p \in (0 .. s.b - 1) \X (0 .. s.n - 1) |->
        y[<<i * s.b + p[1], p[2]>>] * FactoredRhs(s, z, w, p[1], j, p[2])]
WordRow(s, y, z, w, i, j, q) ==
    Total([k \in 0 .. s.b - 1 |-> InnerCell(s, y, z, i, j, q * s.b + k) * w[q * s.b + k]], s.b)

LEMMA CellOfWord ==
    ASSUME NEW s \in Shape, NEW q \in 0 .. s.b - 1, NEW k \in 0 .. s.b - 1,
           NEW i \in 0 .. Blocks(s) - 1, NEW j \in 0 .. Blocks(s) - 1
    PROVE  /\ q * s.b + k \in 0 .. Cells(s) - 1
           /\ CellRow(s, i, q * s.b + k) = i * s.b + q
           /\ CellColumn(s, j, q * s.b + k) = j * s.b + k
           /\ i * s.b + q \in 0 .. s.n - 1 /\ j * s.b + k \in 0 .. s.n - 1
<1> DEFINE b == s.b
           m == Blocks(s)
           e == q * b + k
<1>1. b \in Nat \ {0} /\ m \in Nat /\ s.n = m * b /\ Cells(s) = b * b
      /\ q \in 0 .. b - 1 /\ k \in 0 .. b - 1 /\ i \in 0 .. m - 1 /\ j \in 0 .. m - 1
      /\ q \in Nat
  BY ShapeTypes
<1>2. /\ CellRow(s, i, e) = i * b + (e \div b) /\ CellColumn(s, j, e) = j * b + (e % b)
      /\ e = q * b + k
  BY DEF CellRow, CellColumn
<1> HIDE DEF b, m
<1>3. q * b + k \in 0 .. b * b - 1 /\ i * b + q \in 0 .. m * b - 1 /\ j * b + k \in 0 .. m * b - 1
  BY <1>1, RowInside
<1>4. (q * b + k) \div b = q /\ (q * b + k) % b = k
  BY <1>1, DivideCell
<1> QED
  BY <1>1, <1>2, <1>3, <1>4 DEF b

LEMMA RhsCorrect ==
    ASSUME NEW s \in Shape, s.b % ReduceInterval # 3, NEW z, Factor(s, z),
           NEW w, Weights(s, w),
           NEW q \in 0 .. s.b - 1, NEW j \in 0 .. Blocks(s) - 1, NEW c \in 0 .. s.n - 1
    PROVE  /\ FactoredRhs(s, z, w, q, j, c) \in 0 .. Modulus + 1
           /\ Congruent(FactoredRhs(s, z, w, q, j, c), Total(RhsTerms(s, z, w, q, j, c), s.b))
           /\ Terms(RhsTerms(s, z, w, q, j, c), s.b)
<1> DEFINE f == RhsTerms(s, z, w, q, j, c)
           n == s.b
<1>1. n \in Nat
  BY ShapeTypes
<1>2. ASSUME NEW k \in 0 .. s.b - 1 PROVE f[k] \in 0 .. LargestProduct /\ f[k] \in Int
  <2> DEFINE x == w[q * s.b + k]
             y == z[<<c, j * s.b + k>>]
  <2>1. q * s.b + k \in 0 .. Cells(s) - 1 /\ j * s.b + k \in 0 .. s.n - 1
    BY CellOfWord
  <2>2. x \in Elements /\ y \in 0 .. Modulus
    BY <2>1 DEF Weights, Factor, Matrix
  <2>3. f[k] = x * y
    BY DEF RhsTerms
  <2> HIDE DEF x, y, f
  <2>4. x \in 0 .. Modulus + 1 /\ y \in Nat /\ x \in Nat
    BY <2>2, ModulusAssumption DEF Elements
  <2>5. y * x \in Nat /\ y * x <= LargestProduct
    BY <2>2, <2>4, ProductBounded
  <2>6. x * y = y * x
    BY <2>4
  <2> QED
    BY <2>3, <2>5, <2>6, LargestProductFits
<1>3. FactoredRhs(s, z, w, q, j, c) = TwoFolds(GpuAcc(f, n))
  BY DEF FactoredRhs, RhsTerms
<1> HIDE DEF f
<1>4. \A k \in 0 .. n - 1 : f[k] \in 0 .. LargestProduct
  BY <1>2
<1>5. Terms(f, n)
  BY <1>2 DEF Terms
<1>6. n % ReduceInterval # 3
  OBVIOUS
<1> HIDE DEF n
<1>7. TwoFolds(GpuAcc(f, n)) \in 0 .. Modulus + 1 /\ Congruent(TwoFolds(GpuAcc(f, n)), Total(f, n))
  BY <1>1, <1>4, <1>6, TwoFoldsOfAccumulator
<1> QED
  BY <1>3, <1>5, <1>7 DEF f, n

\* A cell of the table fits the accumulators of the lanes.
LEMMA FactoredCell ==
    ASSUME NEW s \in Shape, s.b % ReduceInterval # 3,
           NEW y, NEW z, Factor(s, y), Factor(s, z), NEW w, Weights(s, w),
           NEW i \in 0 .. Blocks(s) - 1, NEW j \in 0 .. Blocks(s) - 1,
           NEW q \in 0 .. s.b - 1, NEW c \in 0 .. s.n - 1
    PROVE  /\ FactoredTable(s, y, z, w, i, j)[<<q, c>>]
                  = y[<<i * s.b + q, c>>] * FactoredRhs(s, z, w, q, j, c)
           /\ FactoredTable(s, y, z, w, i, j)[<<q, c>>] \in 0 .. LargestProduct
           /\ y[<<i * s.b + q, c>>] \in Int
<1> DEFINE u == y[<<i * s.b + q, c>>]
           v == FactoredRhs(s, z, w, q, j, c)
<1>1. FactoredTable(s, y, z, w, i, j)[<<q, c>>] = u * v
  BY DEF FactoredTable
<1>2. i * s.b + q \in 0 .. s.n - 1
  BY CellOfWord
<1>3. u \in 0 .. Modulus
  BY <1>2 DEF Factor, Matrix
<1>4. v \in 0 .. Modulus + 1
  BY RhsCorrect
<1> HIDE DEF u, v
<1>5. u * v \in Nat /\ u * v <= LargestProduct
  BY <1>3, <1>4, ProductBounded
<1>6. u * v \in 0 .. LargestProduct /\ u \in Int
  BY <1>3, <1>5, LargestProductFits
<1> QED
  BY <1>1, <1>6 DEF u, v

LEMMA FactoredRow ==
    ASSUME NEW s \in Shape, s.b % ReduceInterval # 3,
           NEW y, NEW z, Factor(s, y), Factor(s, z), NEW w, Weights(s, w),
           NEW i \in 0 .. Blocks(s) - 1, NEW j \in 0 .. Blocks(s) - 1,
           NEW q \in 0 .. s.b - 1
    PROVE  /\ Terms(Row(FactoredTable(s, y, z, w, i, j), q, s.n), s.n)
           /\ Congruent(Total(Row(FactoredTable(s, y, z, w, i, j), q, s.n), s.n),
                        WordRow(s, y, z, w, i, j, q))
           /\ WordRow(s, y, z, w, i, j, q) \in Int
<1> DEFINE n == s.n
           b == s.b
           F == FactoredTable(s, y, z, w, i, j)
           f == Row(F, q, n)
           a(c) == y[<<i * s.b + q, c>>]
           Q == [p \in (0 .. n - 1) \X (0 .. b - 1) |->
                    y[<<i * s.b + q, p[1]>>]
                        * (w[q * s.b + p[2]] * z[<<p[1], j * s.b + p[2]>>])]
<1>1. n \in Nat /\ b \in Nat
  BY ShapeTypes
<1>2. ASSUME NEW c \in 0 .. n - 1
      PROVE  /\ f[c] \in Int /\ a(c) \in Int /\ Terms(Row(Q, c, b), b)
             /\ Congruent(f[c], RowTotals(Q, n, b)[c])
  <2> DEFINE r == FactoredRhs(s, z, w, q, j, c)
             h == RhsTerms(s, z, w, q, j, c)
             u == a(c)
             g == Row(Q, c, b)
  <2>1. f[c] = u * r /\ u * r \in 0 .. LargestProduct /\ u \in Int
    BY FactoredCell DEF Row
  <2>2. r \in 0 .. Modulus + 1 /\ Congruent(r, Total(h, b)) /\ Terms(h, b)
    BY RhsCorrect
  <2>3. \A k \in 0 .. b - 1 : g[k] = u * h[k]
    BY DEF Row, RhsTerms
  <2>4. RowTotals(Q, n, b)[c] = Total(g, b)
    BY DEF RowTotals
  <2> HIDE DEF r, h, u, g, Q, f, b, n
  <2>5. \A k \in 0 .. b - 1 : g[k] = h[k] * u /\ g[k] \in Int
    BY <2>1, <2>2, <2>3 DEF Terms
  <2>6. Total(g, b) = Total(h, b) * u
    BY <1>1, <2>1, <2>2, <2>5, TotalOfMultiples
  <2>7. Total(h, b) \in Int /\ r \in Int
    <3>1. b \in 0 .. b
      BY <1>1
    <3>2. Total(h, b) \in Int
      BY <1>1, <2>2, <3>1, TotalUnfolds
    <3> QED
      BY <2>2, <3>2, ModulusAssumption
  <2>8. Congruent(u, u)
    BY <2>1, CongruentReflexive
  <2>9. Congruent(r * u, Total(h, b) * u)
    BY <2>1, <2>2, <2>7, <2>8, CongruentProducts
  <2>10. f[c] = r * u /\ f[c] \in Int
    BY <2>1, <2>7
  <2>11. Terms(g, b)
    BY <2>5 DEF Terms
  <2>12. Congruent(f[c], RowTotals(Q, n, b)[c])
    BY <2>4, <2>6, <2>9, <2>10
  <2> QED
    BY <2>1, <2>10, <2>11, <2>12 DEF u, g
<1>3. Table(Q, n, b)
  <2> SUFFICES ASSUME NEW c \in 0 .. n - 1, NEW k \in 0 .. b - 1 PROVE Q[<<c, k>>] \in Int
    BY DEF Table
  <2>1. Terms(Row(Q, c, b), b)
    BY <1>2
  <2>2. Row(Q, c, b)[k] = Q[<<c, k>>]
    BY DEF Row
  <2> HIDE DEF Q
  <2> QED
    BY <2>1, <2>2 DEF Terms
<1> DEFINE V == [k \in 0 .. b - 1 |-> InnerCell(s, y, z, i, j, q * s.b + k) * w[q * s.b + k]]
<1>4. ASSUME NEW k \in 0 .. b - 1
      PROVE  ColumnTotals(Q, n, b)[k] = V[k]
  <2> DEFINE x == w[q * s.b + k]
             col == j * s.b + k
             row == i * s.b + q
             t == RowTimesColumn(y, z, row, col, n)
             g == Column(Q, k, n)
  <2>1. /\ q * s.b + k \in 0 .. Cells(s) - 1
        /\ CellRow(s, i, q * s.b + k) = row /\ CellColumn(s, j, q * s.b + k) = col
        /\ row \in 0 .. s.n - 1 /\ col \in 0 .. s.n - 1
    BY CellOfWord
  <2>2. x \in Int
    BY <2>1, ElementsAreNumbers DEF Weights
  <2>3. ASSUME NEW c \in 0 .. n - 1
        PROVE  g[c] = t[c] * x /\ t[c] \in Int
    <3> DEFINE u == y[<<row, c>>]
               v == z[<<c, col>>]
    <3>1. u \in Int /\ v \in Int
      BY <2>1 DEF Factor, Square, Integers
    <3>2. g[c] = u * (x * v) /\ t[c] = u * v
      BY DEF Column, RowTimesColumn
    <3> HIDE DEF u, v, x, g, t
    <3> QED
      BY <2>2, <3>1, <3>2
  <2>4. V[k] = Total(t, n) * x
    BY <2>1 DEF InnerCell, Inner
  <2>5. ColumnTotals(Q, n, b)[k] = Total(g, n)
    BY DEF ColumnTotals
  <2> HIDE DEF x, g, t, Q, V, n
  <2>6. Terms(t, n)
    BY <2>3 DEF Terms
  <2>7. Total(g, n) = Total(t, n) * x
    BY <1>1, <2>2, <2>3, <2>6, TotalOfMultiples
  <2> QED
    BY <2>4, <2>5, <2>7
<1>5. WordRow(s, y, z, w, i, j, q) = Total(V, b)
  BY DEF WordRow
<1> HIDE DEF n, b, f, Q, V
<1>6. n \in 0 .. n /\ b \in 0 .. b
  BY <1>1
<1>7. /\ Terms(RowTotals(Q, n, b), n) /\ Terms(ColumnTotals(Q, n, b), b)
      /\ ByRows(Q, n, b) \in Int /\ ByColumns(Q, n, b) \in Int
  BY <1>1, <1>3, <1>6, TableTypes
<1>8. Terms(f, n)
  BY <1>2 DEF Terms
<1>9. Congruent(Total(f, n), Total(RowTotals(Q, n, b), n))
  BY <1>1, <1>2, <1>7, <1>8, TotalCongruent
<1>10. Total(ColumnTotals(Q, n, b), b) = Total(V, b)
  BY <1>1, <1>4, <1>7, TotalDepends
<1>11. ByRows(Q, n, b) = ByColumns(Q, n, b)
  BY <1>1, <1>3, SumsSwap
<1>12. Total(RowTotals(Q, n, b), n) = Total(V, b) /\ Total(V, b) \in Int
  BY <1>7, <1>10, <1>11 DEF ByRows, ByColumns
<1> QED
  BY <1>5, <1>8, <1>9, <1>12 DEF f, n

LEMMA FactoredTableCorrect ==
    ASSUME NEW s \in Shape, s.b % ReduceInterval # 3,
           NEW y, NEW z, Factor(s, y), Factor(s, z), NEW w, Weights(s, w),
           NEW i \in 0 .. Blocks(s) - 1, NEW j \in 0 .. Blocks(s) - 1
    PROVE  /\ Table(FactoredTable(s, y, z, w, i, j), s.b, s.n)
           /\ Congruent(ByRows(FactoredTable(s, y, z, w, i, j), s.b, s.n),
                        WordOf(s, y, z, w, i, j))
           /\ ByRows(FactoredTable(s, y, z, w, i, j), s.b, s.n) \in Int
           /\ WordOf(s, y, z, w, i, j) \in Int
<1> DEFINE n == s.n
           b == s.b
           F == FactoredTable(s, y, z, w, i, j)
           V == [c \in 0 .. Cells(s) - 1 |-> InnerCell(s, y, z, i, j, c) * w[c]]
           Q == [p \in (0 .. b - 1) \X (0 .. b - 1) |->
                    InnerCell(s, y, z, i, j, p[1] * s.b + p[2]) * w[p[1] * s.b + p[2]]]
<1>1. n \in Nat /\ b \in Nat \ {0} /\ Cells(s) = b * b
  BY ShapeTypes
<1>2. Table(F, b, n)
  <2> SUFFICES ASSUME NEW q \in 0 .. b - 1, NEW c \in 0 .. n - 1 PROVE F[<<q, c>>] \in Int
    BY DEF Table
  <2>1. F[<<q, c>>] \in 0 .. LargestProduct
    BY FactoredCell
  <2> HIDE DEF F
  <2> QED
    BY <2>1
<1>3. ASSUME NEW q \in 0 .. b - 1, NEW k \in 0 .. b - 1
      PROVE  /\ V[q * b + k] = Q[<<q, k>>] /\ Q[<<q, k>>] \in Int
  <2> DEFINE c == q * s.b + k
             x == InnerCell(s, y, z, i, j, c)
             u == w[c]
  <2>1. c \in 0 .. Cells(s) - 1
    BY CellOfWord
  <2>2. x \in Int
    <3>1. Square(s, y) /\ Square(s, z)
      BY DEF Factor
    <3> DEFINE v == 0
               g == [l \in 0 .. Blocks(s) - 1 |-> Part(s, y, z, i, j, l, c) * v]
    <3>2. v \in Int /\ \A l \in 0 .. Blocks(s) - 1 : g[l] = Part(s, y, z, i, j, l, c) * v
      OBVIOUS
    <3> HIDE DEF g, v, c
    <3> QED
      BY <2>1, <3>1, <3>2, PartColumn
  <2>3. u \in Int
    BY <2>1, ElementsAreNumbers DEF Weights
  <2>4. V[c] = x * u /\ Q[<<q, k>>] = x * u
    BY <2>1
  <2> HIDE DEF x, u, V, Q
  <2> QED
    BY <2>2, <2>3, <2>4
<1>4. ASSUME NEW q \in 0 .. b - 1
      PROVE  /\ RowTotals(F, b, n)[q] \in Int /\ RowTotals(Q, b, b)[q] \in Int
             /\ Congruent(RowTotals(F, b, n)[q], RowTotals(Q, b, b)[q])
  <2>1. RowTotals(F, b, n)[q] = Total(Row(F, q, n), n)
    BY DEF RowTotals
  <2>2. RowTotals(Q, b, b)[q] = WordRow(s, y, z, w, i, j, q)
    BY DEF RowTotals, Row, WordRow
  <2>3. /\ Terms(Row(F, q, n), n) /\ WordRow(s, y, z, w, i, j, q) \in Int
        /\ Congruent(Total(Row(F, q, n), n), WordRow(s, y, z, w, i, j, q))
    BY FactoredRow
  <2> HIDE DEF F, Q, n, b
  <2>4. Total(Row(F, q, n), n) \in Int
    <3>1. n \in 0 .. n
      BY <1>1
    <3> QED
      BY <1>1, <2>3, <3>1, TotalUnfolds
  <2> QED
    BY <2>1, <2>2, <2>3, <2>4
<1>5. WordOf(s, y, z, w, i, j) = Total(V, Cells(s))
  BY DEF WordOf
<1> HIDE DEF n, b, F, V, Q
<1>6. Table(Q, b, b) /\ \A q \in 0 .. b - 1 : \A k \in 0 .. b - 1 : V[q * b + k] = Q[<<q, k>>]
  BY <1>3 DEF Table
<1>7. b \in Nat /\ b \in 0 .. b
  BY <1>1
<1>8. Total(V, b * b) = ByRows(Q, b, b)
  BY <1>1, <1>6, <1>7, SumsFlatten
<1>9. /\ Terms(RowTotals(F, b, n), b) /\ ByRows(F, b, n) \in Int
      /\ Terms(RowTotals(Q, b, b), b) /\ ByRows(Q, b, b) \in Int
  BY <1>1, <1>2, <1>6, <1>7, TableTypes
<1>10. Congruent(ByRows(F, b, n), ByRows(Q, b, b))
  BY <1>4, <1>7, <1>9, TotalCongruent DEF ByRows
<1> QED
  BY <1>1, <1>2, <1>5, <1>8, <1>9, <1>10 DEF F, n, b

LEMMA TotalBounded ==
    ASSUME NEW n \in Nat, NEW top \in Nat, NEW f, \A i \in 0 .. n - 1 : f[i] \in 0 .. top
    PROVE  Total(f, n) \in Nat /\ Total(f, n) <= n * top
<1> DEFINE R == {k \in 0 .. n : Total(f, k) \in Nat /\ Total(f, k) <= k * top}
<1>1. Terms(f, n)
  BY DEF Terms
<1>2. 0 \in R
  <2>1. Total(f, 0) = 0 /\ 0 * top = 0
    BY <1>1, TotalUnfolds
  <2> QED
    BY <2>1
<1>3. ASSUME NEW k \in 1 .. n, k - 1 \in R PROVE k \in R
  <2>1. Total(f, k) = Total(f, k - 1) + f[k - 1] /\ f[k - 1] \in 0 .. top
    BY <1>1, TotalUnfolds
  <2>2. Total(f, k - 1) \in Nat /\ Total(f, k - 1) <= (k - 1) * top
    BY <1>3
  <2>3. (k - 1) * top + top = k * top /\ (k - 1) * top \in Int
    OBVIOUS
  <2> DEFINE x == (k - 1) * top
             y == k * top
  <2>4. x \in Int /\ x + top = y /\ Total(f, k - 1) <= x
    BY <2>2, <2>3
  <2> HIDE DEF x, y
  <2>5. Total(f, k) \in Nat /\ Total(f, k) <= y
    BY <2>1, <2>2, <2>4
  <2> QED
    BY <2>5 DEF y
<1> HIDE DEF R
<1>4. 0 .. n \subseteq R
  BY <1>2, <1>3, InductionOverTurns
<1>5. n \in R
  BY <1>4
<1> QED
  BY <1>5 DEF R

\* The partial sums of a warp fit the 64-bit word in which they are added.
LEMMA PartialsFit ==
    ASSUME NEW f, \A l \in 0 .. Lanes - 1 : f[l] \in 0 .. Modulus + 4
    PROVE  Total(f, Lanes) \in 0 .. Wide - 1
<1> DEFINE n == Lanes
           top == Modulus + 4
<1>1. n \in Nat /\ n <= Modulus /\ top \in Nat /\ Modulus \in Nat /\ top = Modulus + 4
  BY KernelAssumption, ModulusAssumption
<1> HIDE DEF n, top
<1>2. \A l \in 0 .. n - 1 : f[l] \in 0 .. top
  BY DEF n, top
<1>3. Total(f, n) \in Nat /\ Total(f, n) <= n * top
  BY <1>1, <1>2, TotalBounded
<1>4. n * top <= Modulus * top /\ n * top \in Nat
  BY <1>1
<1>5. Modulus * top = Modulus * Modulus + 4 * Modulus
  BY <1>1
<1>6. Wide = 4 * (Modulus * Modulus) + 8 * Modulus + 4
  BY <1>1 DEF Wide, Base
<1>7. Modulus * Modulus \in Nat
  BY <1>1
<1>8. Total(f, n) < Wide /\ Wide \in Nat
  BY <1>1, <1>3, <1>4, <1>5, <1>6, <1>7
<1> QED
  BY <1>3, <1>8 DEF n

-----------------------------------------------------------------------------
LaneTerms(s, y, z, w, i, j, lane) ==
    [k \in 0 .. s.b * (s.n \div Lanes) - 1 |->
        LET row == k \div (s.n \div Lanes)
            m == lane + Lanes * (k % (s.n \div Lanes))
        IN  y[<<i * s.b + row, m>>] * FactoredRhs(s, z, w, row, j, m)]
LanePartial(s, y, z, w, i, j, lane) ==
    TwoFolds(GpuAcc(LaneTerms(s, y, z, w, i, j, lane), s.b * (s.n \div Lanes)))
\* The columns are as many full turns of the lanes.
WholeTurns(s) == s.n % Lanes = 0

LanePartials(s, y, z, w, i, j) ==
    [l \in 0 .. Lanes - 1 |-> LanePartial(s, y, z, w, i, j, l)]

\* What one lane adds up, and what the warp does.
LEMMA LanesCorrect ==
    ASSUME NEW s \in Shape, s.b % ReduceInterval # 3, WholeTurns(s),
           NEW y, NEW z, Factor(s, y), Factor(s, z), NEW w, Weights(s, w),
           NEW i \in 0 .. Blocks(s) - 1, NEW j \in 0 .. Blocks(s) - 1
    PROVE  /\ \A l \in 0 .. Lanes - 1 :
                  LanePartials(s, y, z, w, i, j)[l] \in 0 .. Modulus + 4
           /\ TwoFolds(Total(LanePartials(s, y, z, w, i, j), Lanes)) \in Int
           /\ Congruent(TwoFolds(Total(LanePartials(s, y, z, w, i, j), Lanes)),
                        WordOf(s, y, z, w, i, j))
<1> DEFINE f == LanePartials(s, y, z, w, i, j)
           n == s.n
           b == s.b
           width == Lanes
           turns == n \div width
           F == FactoredTable(s, y, z, w, i, j)
           u == [l \in 0 .. width - 1 |-> LaneSum(F, l, width, b, turns)]
<1>1. /\ n \in Nat \ {0} /\ b \in Nat /\ width \in Nat \ {0} /\ turns \in Nat \ {0}
      /\ n = turns * width
  <2>1. n \in Nat \ {0} /\ b \in Nat /\ width \in Nat \ {0} /\ n % width = 0
    BY ShapeTypes, KernelAssumption DEF WholeTurns
  <2> HIDE DEF n, width
  <2>2. turns \in Nat /\ n = width * turns + (n % width)
    BY <2>1, SMT
  <2> QED
    BY <2>1, <2>2
<1>2. Table(F, b, n) /\ ByRows(F, b, n) \in Int /\ WordOf(s, y, z, w, i, j) \in Int
      /\ Congruent(ByRows(F, b, n), WordOf(s, y, z, w, i, j))
  BY FactoredTableCorrect
<1>3. Table(F, b, turns * width)
  BY <1>1, <1>2
<1>4. ASSUME NEW l \in 0 .. width - 1
      PROVE  /\ f[l] \in 0 .. Modulus + 4 /\ f[l] \in Int
             /\ Congruent(f[l], u[l])
  <2> DEFINE g == LaneTerms(s, y, z, w, i, j, l)
             h == [k \in 0 .. b * turns - 1 |-> LaneRow(F, l, width, turns, k)]
             v == [q \in 0 .. b - 1 |->
                      Total([t \in 0 .. turns - 1 |-> F[<<q, l + width * t>>]], turns)]
             len == b * turns
  <2>1. OfRows(v, F, l, b, turns, width)
    BY DEF OfRows
  <2>2. \A k \in 0 .. b * turns - 1 :
            /\ k \div turns \in 0 .. b - 1
            /\ l + width * (k % turns) \in 0 .. turns * width - 1
    <3> HIDE DEF b, turns, width, v, F
    <3> QED
      BY <1>1, <1>3, <2>1, LaneSumUnfolds
  <2>3. ASSUME NEW k \in 0 .. len - 1
        PROVE  g[k] = h[k] /\ g[k] \in 0 .. LargestProduct
    <3> DEFINE q == k \div turns
               c == l + width * (k % turns)
    <3>1. q \in 0 .. s.b - 1 /\ c \in 0 .. s.n - 1
      BY <1>1, <2>2
    <3>2. g[k] = y[<<i * s.b + q, c>>] * FactoredRhs(s, z, w, q, j, c)
      BY DEF LaneTerms
    <3>3. h[k] = F[<<q, c>>]
      BY DEF LaneRow
    <3> HIDE DEF f, q, c, g, h, len, n, b, turns, u, v, width, F
    <3>4. /\ FactoredTable(s, y, z, w, i, j)[<<q, c>>]
                 = y[<<i * s.b + q, c>>] * FactoredRhs(s, z, w, q, j, c)
          /\ FactoredTable(s, y, z, w, i, j)[<<q, c>>] \in 0 .. LargestProduct
          /\ y[<<i * s.b + q, c>>] \in Int
      BY <3>1, FactoredCell
    <3> QED
      BY <3>2, <3>3, <3>4 DEF F
  <2>4. f[l] = TwoFolds(GpuAcc(g, len))
    BY DEF LanePartial, LanePartials
  <2>5. u[l] = Total(h, len)
    BY DEF LaneSum
  <2>6. len \in Nat
    BY <1>1
  <2> HIDE DEF f, g, h, len, u, F
  <2>7. Terms(g, len)
    BY <2>3, LargestProductFits DEF Terms
  <2>8. Total(g, len) = Total(h, len)
    BY <2>3, <2>6, <2>7, TotalDepends
  <2>9. \A k \in 0 .. len - 1 : g[k] \in 0 .. LargestProduct
    BY <2>3
  <2>10. /\ TwoFolds(GpuAcc(g, len)) \in 0 .. Modulus + 4
         /\ Congruent(TwoFolds(GpuAcc(g, len)), Total(g, len))
    BY <2>6, <2>9, TwoFoldsOfAccumulator
  <2> QED
    BY <2>4, <2>5, <2>8, <2>10, ModulusAssumption
<1>5. \A l \in 0 .. Lanes - 1 : f[l] \in 0 .. Modulus + 4
  BY <1>4
<1>6. \A l \in 0 .. width - 1 : u[l] = LaneSum(F, l, width, b, turns)
  OBVIOUS
<1>7. Total(f, width) \in 0 .. Wide - 1
  BY <1>5, PartialsFit
<1> HIDE DEF f, n, b, width, turns, F, u
<1>8. Total(u, width) = ByRows(F, b, turns * width) /\ Terms(u, width)
  BY <1>1, <1>3, <1>6, LanesAddUp
<1>9. Terms(f, width) /\ width \in Nat
  BY <1>1, <1>4 DEF Terms
<1>10. Congruent(Total(f, width), Total(u, width))
  BY <1>4, <1>8, <1>9, TotalCongruent
<1> DEFINE x == Total(f, width)
<1>11. x \in 0 .. Wide - 1 /\ x \in Int
  BY <1>7
<1>12. Congruent(x, ByRows(F, b, n))
  BY <1>1, <1>8, <1>10
<1> HIDE DEF x
<1>13. TwoFolds(x) \in 0 .. Modulus + 4 /\ Congruent(x, TwoFolds(x))
  BY <1>11, TwoFoldsBounded
<1>14. TwoFolds(x) \in Int
  BY <1>13, ModulusAssumption
<1>15. Congruent(TwoFolds(x), x)
  BY <1>11, <1>13, <1>14, CongruentSymmetric
<1>16. Congruent(TwoFolds(x), ByRows(F, b, n))
  BY <1>2, <1>11, <1>12, <1>14, <1>15, CongruentTransitive
<1>17. Congruent(TwoFolds(x), WordOf(s, y, z, w, i, j))
  BY <1>2, <1>14, <1>16, CongruentTransitive
<1> QED
  BY <1>5, <1>14, <1>17 DEF x, width, f

LEMMA ExactWordsAreElements ==
    ASSUME NEW s \in Shape, NEW x, Drawn(s, x)
    PROVE  \A p \in WordIndex(s) : ExactWords(s, x)[p] \in Elements
<1> SUFFICES ASSUME NEW i \in 0 .. Blocks(s) - 1, NEW j \in 0 .. Blocks(s) - 1
             PROVE  ExactWords(s, x)[<<i, j>>] \in Elements
  BY DEF WordIndex
<1> DEFINE y == StepPerturbed(s, x.a, x.el, x.er)
           z == StepPerturbed(s, x.b, x.fl, x.fr)
           w == x.w
           v == WordOf(s, y, z, w, i, j)
<1>1. Faithful(s, y, ExactA(s, x)) /\ Faithful(s, z, ExactB(s, x))
  BY DrawnIsDisturbed, StepPerturbedIsFaithful DEF ExactA, ExactB
<1>2. Square(s, y) /\ Square(s, z) /\ \A c \in 0 .. Cells(s) - 1 : w[c] \in Elements
  BY <1>1 DEF Faithful, Drawn
<1> DEFINE F == PartTable(s, y, z, w, i, j)
<1>3. F = PartTable(s, y, z, w, i, j)
  OBVIOUS
<1> HIDE DEF F, y, z, w
<1>4. v \in Int
  BY <1>2, <1>3, PartTableCorrect
<1>5. Congruent(v, WordOf(s, y, z, x.w, i, j))
  BY <1>4, CongruentReflexive DEF w
<1> HIDE DEF v
<1>6. v % Modulus = ExactWords(s, x)[<<i, j>>]
  BY <1>1, <1>4, <1>5, WordIsExact
<1> QED
  BY <1>4, <1>6, Remainder

\* The factored kernel does not end with three products pending.
FitsFactored(s) ==
    UseFactoredPath(s) => s.r % ReduceInterval # 3 /\ s.b % ReduceInterval # 3

\* matmul_nonce_kernel below the V2 height: the exact words, up to multiples of
\* the modulus.
LEMMA LegacyWordsExact ==
    ASSUME NEW s \in Shape, FitsFactored(s), NEW x, Drawn(s, x)
    PROVE  \A p \in WordIndex(s) : LegacyWords(s, x)[p] % Modulus = ExactWords(s, x)[p]
<1>1. CASE UseFactoredPath(s)
  <2> DEFINE y == GpuPerturbed(x.a, x.el, x.er, s.r)
             z == GpuPerturbed(x.b, x.fl, x.fr, s.r)
             w == x.w
  <2>1. Faithful(s, y, ExactA(s, x)) /\ Faithful(s, z, ExactB(s, x))
    BY <1>1, DrawnIsDisturbed, GpuPerturbedIsFaithful DEF ExactA, ExactB, FitsFactored
  <2>2. Weights(s, w)
    BY DEF Drawn, Weights
  <2>3. Factor(s, y) /\ Factor(s, z)
    BY <2>1 DEF Faithful, Factor
  <2>4. s.b % ReduceInterval # 3 /\ WholeTurns(s)
    BY <1>1 DEF FitsFactored, UseFactoredPath, WholeTurns
  <2>5. LegacyWords(s, x) =
            [p \in WordIndex(s) |->
                TwoFolds(Total(LanePartials(s, y, z, w, p[1], p[2]), Lanes))]
    BY <1>1 DEF LegacyWords, FactoredWords, LanePartials, LanePartial, LaneTerms
  <2> HIDE DEF y, z, w
  <2>6. ASSUME NEW i \in 0 .. Blocks(s) - 1, NEW j \in 0 .. Blocks(s) - 1
        PROVE  LegacyWords(s, x)[<<i, j>>] % Modulus = ExactWords(s, x)[<<i, j>>]
    <3> DEFINE v == TwoFolds(Total(LanePartials(s, y, z, w, i, j), Lanes))
    <3>1. <<i, j>> \in WordIndex(s)
      BY DEF WordIndex
    <3>2. LegacyWords(s, x)[<<i, j>>] = v
      BY <2>5, <3>1
    <3>3. v \in Int /\ Congruent(v, WordOf(s, y, z, w, i, j))
      BY <2>2, <2>3, <2>4, LanesCorrect
    <3> HIDE DEF v
    <3>4. v % Modulus = ExactWords(s, x)[<<i, j>>]
      BY <2>1, <3>3, WordIsExact DEF w
    <3> QED
      BY <3>2, <3>4
  <2> QED
    BY <2>6 DEF WordIndex
<1>2. CASE ~ UseFactoredPath(s)
  <2>1. LegacyWords(s, x) = ExactWords(s, x)
    BY <1>2, StepWordsExact DEF LegacyWords
  <2>2. ASSUME NEW p \in WordIndex(s)
        PROVE  ExactWords(s, x)[p] % Modulus = ExactWords(s, x)[p]
    <3>1. ExactWords(s, x)[p] \in 0 .. Modulus - 1
      BY ExactWordsAreElements DEF Elements
    <3> QED
      BY <3>1, ModulusAssumption
  <2> QED
    BY <2>1, <2>2
<1> QED
  BY <1>1, <1>2

-----------------------------------------------------------------------------
(* The trial of a nonce: where each side is, and what it has computed *)

CpuResult == CpuWords(draw.shape, CpuDraws(draw.oracles))
GpuResult ==
    IF job.height = "v1" THEN LegacyWords(draw.shape, GpuDraws(draw.oracles))
    ELSE BatchedWords(draw.shape, GpuDraws(draw.oracles))

CpuGatePasses ==
    \/ job.epsilon = 0 \/ job.block = None
    \/ SigmaBelowPreHashTarget(draw.sigma[SeedsOf(job)],
                               PreHashTargetShift(job.block, job.epsilon))
CpuMeetsTarget == DigestMeetsTarget(DigestOf(SeedsOf(job), CpuResult), job.share)
GpuGatePasses == GatePasses(GateSeedsOf(job))
GpuMeetsTarget ==
    IF job.height = "v1" THEN DigestMeetsTarget(DigestOf("job", GpuResult), job.share)
    ELSE MeetsATarget(DigestOf(GateSeedsOf(job), GpuResult))

TrialStages == {"new", "gated", "hit", "rejected"}
TriedBy(t) == job = StratumJobToPowJob(t.job) /\ draw = t.draw
TrialTypes ==
    /\ \E t \in Trials : TriedBy(t)
    /\ cpu \in [at : TrialStages, words : {<<>>, CpuResult}]
    /\ gpu \in [at : TrialStages, words : {<<>>, GpuResult}]
CpuVerdict ==
    /\ cpu.at \in {"new", "gated"} => cpu.words = <<>>
    /\ cpu.at = "gated" => CpuGatePasses
    /\ cpu.at = "hit" => CpuGatePasses /\ CpuMeetsTarget
    /\ cpu.at = "rejected" =>
           IF cpu.words = <<>> THEN ~ CpuGatePasses ELSE CpuGatePasses /\ ~ CpuMeetsTarget
GpuVerdict ==
    /\ gpu.at = "gated" => job.height # "v1" /\ GpuGatePasses
    /\ gpu.at = "hit" => GpuGatePasses /\ GpuMeetsTarget
    /\ gpu.at = "rejected" => ~ GpuGatePasses \/ ~ GpuMeetsTarget
TrialInv == TrialTypes /\ CpuVerdict /\ GpuVerdict

\* What a trial is made of.
LEMMA TrialParts ==
    ASSUME TrialTypes
    PROVE  /\ draw.shape \in Shape /\ OraclesOf(draw.shape, draw.oracles)
           /\ job.height \in {"v1", "v2", "v3"} /\ job.mtp \in BOOLEAN
           /\ job.share \in Number /\ job.epsilon \in Nat
           /\ job.bits # None => job.bits.size \in Nat /\ job.bits.word \in Nat
           /\ job.block = IF job.bits = None THEN None ELSE BlockTargetFromBits(job.bits)
           /\ draw.sigma \in [SeedKinds -> Number] /\ draw.digest \in [SeedKinds -> Number]
<1>1. PICK t \in Trials : TriedBy(t)
  BY DEF TrialTypes
<1>2. /\ t.job.height \in {"v1", "v2", "v3"} /\ t.job.mtp \in BOOLEAN
      /\ t.job.share \in Number
      /\ t.job.bits # None => {t.job.bits.size, t.job.bits.word} \subseteq Nat
      /\ t.job.epsilon \in Nat
      /\ t.draw.shape \in Shape /\ OraclesOf(t.draw.shape, t.draw.oracles)
      /\ t.draw.sigma \in [SeedKinds -> Number] /\ t.draw.digest \in [SeedKinds -> Number]
  BY PowAssumption
<1> QED
  BY <1>1, <1>2 DEF TriedBy, StratumJobToPowJob

\* Both sides draw the exact matrices.
LEMMA TrialDraws ==
    ASSUME TrialTypes
    PROVE  /\ draw.shape \in Shape /\ Drawn(draw.shape, CpuDraws(draw.oracles))
           /\ GpuDraws(draw.oracles) = CpuDraws(draw.oracles)
BY TrialParts, DrawsAgree

LEMMA WordsAreNotEmpty ==
    ASSUME NEW s \in Shape, NEW f, DOMAIN f = WordIndex(s)
    PROVE  f # <<>>
<1>1. Blocks(s) \in Nat \ {0}
  BY ShapeTypes
<1>2. 0 \in 0 .. Blocks(s) - 1
  BY <1>1
<1>3. <<0, 0>> \in WordIndex(s)
  BY <1>2 DEF WordIndex
<1> QED
  BY <1>3

\* The matrices do not change, and with them what the sides compute.
LEMMA TrialIsFixed ==
    ASSUME job' = job, draw' = draw
    PROVE  /\ CpuResult' = CpuResult /\ GpuResult' = GpuResult
           /\ CpuGatePasses' = CpuGatePasses /\ GpuGatePasses' = GpuGatePasses
           /\ CpuMeetsTarget' = CpuMeetsTarget /\ GpuMeetsTarget' = GpuMeetsTarget
           /\ \A t : TriedBy(t)' = TriedBy(t)
<1>1. CpuResult' = CpuResult /\ GpuResult' = GpuResult
  BY DEF CpuResult, GpuResult
<1>2. CpuGatePasses' = CpuGatePasses
  BY DEF CpuGatePasses
<1>3. GpuGatePasses' = GpuGatePasses
  BY DEF GpuGatePasses, GatePasses
<1>4. Exact' = Exact
  BY DEF Exact
<1>5. CpuMeetsTarget' = CpuMeetsTarget
  BY <1>1, <1>4 DEF CpuMeetsTarget, DigestOf
<1>6. GpuMeetsTarget' = GpuMeetsTarget
  BY <1>1, <1>4 DEF GpuMeetsTarget, DigestOf, MeetsATarget
<1>7. \A t : TriedBy(t)' = TriedBy(t)
  BY DEF TriedBy
<1> QED
  BY <1>1, <1>2, <1>3, <1>5, <1>6, <1>7

LEMMA TrialInitial == PowInit => TrialInv
<1> SUFFICES ASSUME PowInit PROVE TrialInv
  OBVIOUS
<1>1. cpu = NotTried /\ gpu = NotTried /\ \E t \in Trials : TriedBy(t)
  BY DEF PowInit, TriedBy
<1> QED
  BY <1>1 DEF TrialInv, TrialTypes, CpuVerdict, GpuVerdict, NotTried, TrialStages

LEMMA TrialStep == TrialInv /\ [PowNext]_powVars => TrialInv'
<1> SUFFICES ASSUME TrialInv, [PowNext]_powVars PROVE TrialInv'
  OBVIOUS
<1>1. job' = job /\ draw' = draw
  BY DEF powVars, PowNext, CpuGate, CpuDigest, LegacyKernel, SigmaGate, BatchedKernels
<1>2. /\ CpuResult' = CpuResult /\ GpuResult' = GpuResult
      /\ CpuGatePasses' = CpuGatePasses /\ GpuGatePasses' = GpuGatePasses
      /\ CpuMeetsTarget' = CpuMeetsTarget /\ GpuMeetsTarget' = GpuMeetsTarget
      /\ \A t : TriedBy(t)' = TriedBy(t)
  BY <1>1, TrialIsFixed
<1>3. /\ cpu \in [at : TrialStages, words : {<<>>, CpuResult}]
      /\ gpu \in [at : TrialStages, words : {<<>>, GpuResult}]
      /\ \E t \in Trials : TriedBy(t)'
  BY <1>2 DEF TrialInv, TrialTypes
<1>4. CpuVerdict /\ GpuVerdict /\ TrialTypes
  BY DEF TrialInv
<1>5. CASE CpuGate
  <2>1. gpu' = gpu /\ cpu.at = "new"
        /\ cpu' = [cpu EXCEPT !.at = IF CpuGatePasses THEN "gated" ELSE "rejected"]
    <3>1. job.epsilon \in Nat
      BY <1>4, TrialParts
    <3>2. (/\ job.epsilon > 0 /\ job.block # None
           /\ ~SigmaBelowPreHashTarget(draw.sigma[SeedsOf(job)],
                                       PreHashTargetShift(job.block, job.epsilon)))
          <=> ~ CpuGatePasses
      BY <3>1 DEF CpuGatePasses
    <3> QED
      BY <1>5, <3>2 DEF CpuGate
  <2>2. cpu'.words = <<>> /\ cpu'.at = IF CpuGatePasses THEN "gated" ELSE "rejected"
    BY <1>3, <1>4, <2>1 DEF CpuVerdict
  <2>3. TrialTypes'
    BY <1>2, <1>3, <2>1, <2>2 DEF TrialTypes, TrialStages
  <2>4. CpuVerdict'
    BY <1>2, <2>2 DEF CpuVerdict
  <2>5. GpuVerdict'
    BY <1>1, <1>2, <1>4, <2>1 DEF GpuVerdict
  <2> QED
    BY <2>3, <2>4, <2>5 DEF TrialInv
<1>6. CASE CpuDigest
  <2>1. gpu' = gpu /\ cpu.at = "gated"
        /\ cpu' = [words |-> CpuResult, at |-> IF CpuMeetsTarget THEN "hit" ELSE "rejected"]
    BY <1>6 DEF CpuDigest, CpuResult, CpuMeetsTarget
  <2>2. CpuResult # <<>>
    <3>1. draw.shape \in Shape
      BY <1>4, TrialDraws
    <3>2. DOMAIN CpuResult = WordIndex(draw.shape)
      BY DEF CpuResult, CpuWords
    <3> QED
      BY <3>1, <3>2, WordsAreNotEmpty
  <2>3. cpu'.words = CpuResult /\ cpu'.at = (IF CpuMeetsTarget THEN "hit" ELSE "rejected")
        /\ cpu' \in [at : TrialStages, words : {<<>>, CpuResult}]
    BY <2>1 DEF TrialStages
  <2>4. TrialTypes'
    BY <1>2, <1>3, <2>1, <2>3 DEF TrialTypes
  <2>5. CpuVerdict'
    BY <1>2, <1>4, <2>1, <2>2, <2>3 DEF CpuVerdict
  <2>6. GpuVerdict'
    BY <1>1, <1>2, <1>4, <2>1 DEF GpuVerdict
  <2> QED
    BY <2>4, <2>5, <2>6 DEF TrialInv
<1>7. CASE LegacyKernel
  <2>1. cpu' = cpu /\ gpu.at = "new" /\ job.height = "v1"
        /\ gpu' = IF ~GpuGatePasses THEN [gpu EXCEPT !.at = "rejected"]
                  ELSE [words |-> GpuResult, at |-> IF GpuMeetsTarget THEN "hit" ELSE "rejected"]
    BY <1>7 DEF LegacyKernel, GpuGatePasses, GateSeedsOf, GpuResult, GpuMeetsTarget
  <2>2. /\ gpu' \in [at : TrialStages, words : {<<>>, GpuResult}]
        /\ gpu'.at = IF GpuGatePasses /\ GpuMeetsTarget THEN "hit" ELSE "rejected"
    BY <1>3, <2>1 DEF TrialStages
  <2>3. TrialTypes'
    BY <1>2, <1>3, <2>1, <2>2 DEF TrialTypes
  <2>4. CpuVerdict'
    BY <1>2, <1>4, <2>1 DEF CpuVerdict
  <2>5. GpuVerdict'
    BY <1>1, <1>2, <2>1, <2>2 DEF GpuVerdict
  <2> QED
    BY <2>3, <2>4, <2>5 DEF TrialInv
<1>8. CASE SigmaGate
  <2>1. cpu' = cpu /\ job.height # "v1"
        /\ gpu' = [gpu EXCEPT !.at = IF GpuGatePasses THEN "gated" ELSE "rejected"]
    BY <1>8 DEF SigmaGate, GpuGatePasses
  <2>2. /\ gpu' \in [at : TrialStages, words : {<<>>, GpuResult}]
        /\ gpu'.at = IF GpuGatePasses THEN "gated" ELSE "rejected"
    BY <1>3, <2>1 DEF TrialStages
  <2>3. TrialTypes'
    BY <1>2, <1>3, <2>1, <2>2 DEF TrialTypes
  <2>4. CpuVerdict'
    BY <1>2, <1>4, <2>1 DEF CpuVerdict
  <2>5. GpuVerdict'
    BY <1>1, <1>2, <2>1, <2>2 DEF GpuVerdict
  <2> QED
    BY <2>3, <2>4, <2>5 DEF TrialInv
<1>9. CASE BatchedKernels
  <2>1. cpu' = cpu /\ gpu.at = "gated"
        /\ gpu' = [words |-> GpuResult, at |-> IF GpuMeetsTarget THEN "hit" ELSE "rejected"]
    BY <1>4, <1>9 DEF BatchedKernels, GpuResult, GpuMeetsTarget, GpuVerdict
  <2>2. /\ gpu' \in [at : TrialStages, words : {<<>>, GpuResult}]
        /\ gpu'.at = IF GpuMeetsTarget THEN "hit" ELSE "rejected"
    BY <1>3, <2>1 DEF TrialStages
  <2>3. TrialTypes'
    BY <1>2, <1>3, <2>1, <2>2 DEF TrialTypes
  <2>4. CpuVerdict'
    BY <1>2, <1>4, <2>1 DEF CpuVerdict
  <2>5. GpuVerdict'
    BY <1>1, <1>2, <1>4, <2>1, <2>2 DEF GpuVerdict
  <2> QED
    BY <2>3, <2>4, <2>5 DEF TrialInv
<1>10. CASE UNCHANGED powVars
  <2>1. cpu' = cpu /\ gpu' = gpu
    BY <1>10 DEF powVars
  <2> QED
    BY <1>1, <1>2, <1>3, <1>4, <2>1 DEF TrialInv, TrialTypes, CpuVerdict, GpuVerdict
<1> QED
  BY <1>5, <1>6, <1>7, <1>8, <1>9, <1>10 DEF PowNext

LEMMA TrialInvariant == PowSpec => []TrialInv
BY TrialInitial, TrialStep, PTL DEF PowSpec

\* "Match btxchain/btx": VerifySolution commits to the exact block products, for
\* every shape and whatever candidates the oracles reject on the way.
THEOREM CpuComputesExactWords == PowSpec => []CpuWordsAreExact
<1>1. TrialInv => CpuWordsAreExact
  <2> SUFFICES ASSUME TrialInv, cpu.words # <<>> PROVE cpu.words = Exact
    BY DEF CpuWordsAreExact
  <2>1. cpu.words = CpuResult
    BY DEF TrialInv, TrialTypes
  <2>2. draw.shape \in Shape /\ Drawn(draw.shape, CpuDraws(draw.oracles))
    BY TrialDraws DEF TrialInv
  <2>3. CpuResult = Exact
    BY <2>2, CpuWordsExact DEF CpuResult, Exact
  <2> QED
    BY <2>1, <2>3
<1> QED
  BY <1>1, TrialInvariant, PTL

\* Jobs from V2 on fit the unrolled loops and the thread blocks.
BatchedShapesFit ==
    \A t \in Trials : t.job.height # "v1" => FitsKernels(t.draw.shape)
\* Jobs below V2 fit the factored kernel, if they take it.
LegacyShapesFit ==
    \A t \in Trials : t.job.height = "v1" => FitsFactored(t.draw.shape)

\* The words of a trial's kernels.
LEMMA GpuResultExact ==
    ASSUME TrialTypes
    PROVE  /\ BatchedShapesFit /\ job.height # "v1" => GpuResult = Exact
           /\ LegacyShapesFit /\ job.height = "v1" =>
                  \A p \in WordIndex(draw.shape) : GpuResult[p] % Modulus = Exact[p]
<1>1. PICK t \in Trials : TriedBy(t)
  BY DEF TrialTypes
<1>2. job.height = t.job.height /\ draw = t.draw
  BY <1>1 DEF TriedBy, StratumJobToPowJob
<1>3. /\ draw.shape \in Shape /\ Drawn(draw.shape, CpuDraws(draw.oracles))
      /\ GpuDraws(draw.oracles) = CpuDraws(draw.oracles)
  BY TrialDraws
<1>4. ASSUME BatchedShapesFit, job.height # "v1" PROVE GpuResult = Exact
  <2>1. FitsKernels(draw.shape)
    BY <1>2, <1>4 DEF BatchedShapesFit
  <2> QED
    BY <1>3, <1>4, <2>1, BatchedWordsExact DEF GpuResult, Exact
<1>5. ASSUME LegacyShapesFit, job.height = "v1"
      PROVE  \A p \in WordIndex(draw.shape) : GpuResult[p] % Modulus = Exact[p]
  <2>1. FitsFactored(draw.shape)
    BY <1>2, <1>5 DEF LegacyShapesFit
  <2> QED
    BY <1>3, <1>5, <2>1, LegacyWordsExact DEF GpuResult, Exact
<1> QED
  BY <1>4, <1>5

\* The batched kernels, with half-finished reductions, halved warps and unrolled
\* loops, compute the words of the CPU.
THEOREM BatchedKernelsAreExact ==
    ASSUME BatchedShapesFit
    PROVE  PowSpec => []BatchedWordsAreExact
<1>1. TrialInv => BatchedWordsAreExact
  <2> SUFFICES ASSUME TrialInv, gpu.words # <<>>, job.height # "v1" PROVE gpu.words = Exact
    BY DEF BatchedWordsAreExact
  <2>1. gpu.words = GpuResult
    BY DEF TrialInv, TrialTypes
  <2> QED
    BY <2>1, GpuResultExact DEF TrialInv
<1> QED
  BY <1>1, TrialInvariant, PTL

\* The kernels below the V2 height compute them up to the representation of zero.
THEOREM LegacyKernelsAreCongruent ==
    ASSUME BatchedShapesFit, LegacyShapesFit
    PROVE  PowSpec => []LegacyWordsAreCongruent
<1>1. TrialInv => LegacyWordsAreCongruent
  <2> SUFFICES ASSUME TrialInv, gpu.words # <<>>, NEW p \in WordIndex(draw.shape)
               PROVE  gpu.words[p] % Modulus = Exact[p]
    BY DEF LegacyWordsAreCongruent
  <2>1. gpu.words = GpuResult /\ TrialTypes
    BY DEF TrialInv, TrialTypes
  <2>2. CASE job.height = "v1"
    BY <2>1, <2>2, GpuResultExact
  <2>3. CASE job.height # "v1"
    <3>1. GpuResult = Exact
      BY <2>1, <2>3, GpuResultExact
    <3>2. Exact[p] \in 0 .. Modulus - 1
      BY <2>1, TrialDraws, ExactWordsAreElements DEF Exact, Elements
    <3> QED
      BY <2>1, <3>1, <3>2, ModulusAssumption
  <2> QED
    BY <2>2, <2>3
<1> QED
  BY <1>1, TrialInvariant, PTL

-----------------------------------------------------------------------------
(* Numbers of Bytes digits: the first digit in which two numbers differ    *)
(* decides which one is larger.                                            *)

DigitTerms(x) == [i \in 0 .. Bytes - 1 |-> x[i + 1] * 2^(Bits * i)]
\* The number of the k lowest digits.
Low(x, k) == Total(DigitTerms(x), k)

LEMMA SizeTypes ==
    /\ Bytes \in Nat \ {0} /\ Bits \in Nat \ {0} /\ Mantissa \in Nat \ {0} /\ Mantissa <= Bytes
    /\ 2^Bits \in Nat \ {0} /\ \A k \in Nat : Bits * k \in Nat /\ 2^(Bits * k) \in Nat \ {0}
<1>1. Bytes \in Nat \ {0} /\ Bits \in Nat \ {0} /\ Mantissa \in Nat \ {0} /\ Mantissa <= Bytes
  BY PowAssumption
<1>2. \A k \in Nat : Bits * k \in Nat
  BY <1>1
<1> QED
  BY <1>1, <1>2, PowerPositive

LEMMA DigitWeight ==
    ASSUME NEW k \in Nat \ {0}
    PROVE  k - 1 \in Nat /\ 2^(Bits * k) = 2^(Bits * (k - 1)) * 2^Bits
<1>1. Bits \in Nat /\ k - 1 \in Nat
  BY SizeTypes
<1>2. Bits * k = Bits * (k - 1) + Bits /\ Bits * (k - 1) \in Nat
  BY <1>1
<1> QED
  BY <1>1, <1>2, PowerAdds

LEMMA LowUnfolds ==
    ASSUME NEW x \in Number
    PROVE  /\ LittleEndian(x) = Low(x, Bytes) /\ Low(x, 0) = 0
           /\ Terms(DigitTerms(x), Bytes)
           /\ \A k \in 0 .. Bytes : Low(x, k) \in Nat
           /\ \A k \in 1 .. Bytes :
                  /\ Low(x, k) = Low(x, k - 1) + x[k] * 2^(Bits * (k - 1))
                  /\ x[k] \in 0 .. 2^Bits - 1
<1> DEFINE f == DigitTerms(x)
<1>1. Bytes \in Nat /\ \A k \in Nat : 2^(Bits * k) \in Nat
  BY SizeTypes
<1>2. ASSUME NEW i \in 0 .. Bytes - 1
      PROVE  f[i] = x[i + 1] * 2^(Bits * i) /\ f[i] \in Nat /\ x[i + 1] \in 0 .. 2^Bits - 1
  <2> DEFINE u == x[i + 1]
             v == 2^(Bits * i)
             d == 2^Bits
  <2>1. f[i] = u * v
    BY DEF DigitTerms
  <2>2. i + 1 \in 1 .. Bytes
    BY <1>1
  <2>3. u \in 0 .. 2^Bits - 1
    BY <2>2 DEF Number, Digit
  <2>4. v \in Nat
    BY <1>1
  <2>5. u \in 0 .. d - 1
    BY <2>3
  <2> HIDE DEF u, v, d, f
  <2> QED
    BY <2>1, <2>3, <2>4, <2>5 DEF u, v
<1>3. LittleEndian(x) = Total(f, Bytes)
  BY DEF LittleEndian, DigitTerms
<1> HIDE DEF f
<1>4. Terms(f, Bytes) /\ \A i \in 0 .. Bytes - 1 : f[i] \in Nat
  BY <1>2 DEF Terms
<1>5. \A k \in 0 .. Bytes : Total(f, k) \in Nat
  BY <1>1, <1>4, TotalOfNaturals
<1>6. Total(f, 0) = 0 /\ \A k \in 1 .. Bytes : Total(f, k) = Total(f, k - 1) + f[k - 1]
  BY <1>1, <1>4, TotalUnfolds
<1>7. ASSUME NEW k \in 1 .. Bytes
      PROVE  f[k - 1] = x[k] * 2^(Bits * (k - 1)) /\ x[k] \in 0 .. 2^Bits - 1
  <2>1. k - 1 \in 0 .. Bytes - 1 /\ (k - 1) + 1 = k
    BY <1>1
  <2> QED
    BY <1>2, <2>1
<1> QED
  BY <1>3, <1>4, <1>5, <1>6, <1>7 DEF Low, f

LEMMA LowBounded ==
    ASSUME NEW x \in Number
    PROVE  \A k \in 0 .. Bytes : Low(x, k) \in 0 .. 2^(Bits * k) - 1
<1> DEFINE R == {k \in 0 .. Bytes : Low(x, k) \in 0 .. 2^(Bits * k) - 1}
<1>1. Bytes \in Nat /\ Bits \in Nat
  BY SizeTypes
<1>2. 0 \in R
  <2>1. Bits * 0 = 0 /\ Low(x, 0) = 0
    BY <1>1, LowUnfolds
  <2>2. 2^(Bits * 0) = 1
    BY <2>1, PowerOfZero
  <2>3. 0 \in 0 .. 1 - 1 /\ 0 \in 0 .. Bytes
    BY <1>1
  <2>4. Low(x, 0) \in 0 .. 2^(Bits * 0) - 1
    BY <2>1, <2>2, <2>3
  <2> QED
    BY <2>3, <2>4
<1>3. ASSUME NEW k \in 1 .. Bytes, k - 1 \in R PROVE k \in R
  <2> DEFINE p == 2^(Bits * (k - 1))
             d == 2^Bits
             w == 2^(Bits * k)
             u == x[k]
             a == Low(x, k - 1)
             b == Low(x, k)
  <2>1. p \in Nat \ {0} /\ d \in Nat \ {0} /\ w = p * d
    <3>1. k \in Nat \ {0}
      OBVIOUS
    <3> QED
      BY <3>1, DigitWeight, SizeTypes
  <2>2. a \in 0 .. p - 1
    BY <1>3
  <2>3. b = a + u * p /\ u \in 0 .. d - 1
    BY LowUnfolds
  <2> HIDE DEF p, d, w, u, a, b
  <2>4. u * p <= (d - 1) * p /\ u * p \in Nat
    BY <2>1, <2>3
  <2>5. (d - 1) * p = w - p /\ w \in Nat
    BY <2>1
  <2>6. b \in 0 .. w - 1
    BY <2>1, <2>2, <2>3, <2>4, <2>5
  <2> QED
    BY <1>1, <2>6 DEF b, w
<1> HIDE DEF R
<1>4. 0 .. Bytes \subseteq R
  BY <1>1, <1>2, <1>3, InductionOverTurns
<1> QED
  BY <1>4 DEF R

LEMMA DigitDecides ==
    ASSUME NEW p \in Nat, NEW a \in 0 .. p - 1, NEW b \in 0 .. p - 1,
           NEW u \in Nat, NEW v \in Nat, u < v
    PROVE  a + u * p < b + v * p
<1>1. (u + 1) * p <= v * p
  OBVIOUS
<1>2. (u + 1) * p = u * p + p /\ u * p \in Nat
  OBVIOUS
<1>3. v * p \in Nat
  OBVIOUS
<1> QED
  BY <1>1, <1>2, <1>3

\* The order of the k lowest digits.
SameFrom(x, y, i, k) == \A l \in i .. k : x[l] = y[l]
LowNotAbove(x, y, k) ==
    \/ SameFrom(x, y, 1, k)
    \/ \E i \in 1 .. k : x[i] < y[i] /\ SameFrom(x, y, i + 1, k)

LEMMA LowNotAboveUnfolds ==
    ASSUME NEW k \in Nat \ {0}, NEW x, NEW y
    PROVE  LowNotAbove(x, y, k) <=>
               x[k] < y[k] \/ (x[k] = y[k] /\ LowNotAbove(x, y, k - 1))
<1>1. ASSUME LowNotAbove(x, y, k)
      PROVE  x[k] < y[k] \/ (x[k] = y[k] /\ LowNotAbove(x, y, k - 1))
  <2>1. CASE SameFrom(x, y, 1, k)
    BY <2>1 DEF SameFrom, LowNotAbove
  <2>2. CASE \E i \in 1 .. k : x[i] < y[i] /\ SameFrom(x, y, i + 1, k)
    <3>1. PICK i \in 1 .. k : x[i] < y[i] /\ SameFrom(x, y, i + 1, k)
      BY <2>2
    <3>2. CASE i = k
      BY <3>1, <3>2
    <3>3. CASE i # k
      <4>1. i \in 1 .. k - 1 /\ k \in i + 1 .. k
        BY <3>3
      <4>2. x[k] = y[k] /\ SameFrom(x, y, i + 1, k - 1)
        BY <3>1, <4>1 DEF SameFrom
      <4> QED
        BY <3>1, <4>1, <4>2 DEF LowNotAbove
    <3> QED
      BY <3>2, <3>3
  <2> QED
    BY <1>1, <2>1, <2>2 DEF LowNotAbove
<1>2. ASSUME x[k] < y[k] PROVE LowNotAbove(x, y, k)
  <2>1. k \in 1 .. k /\ SameFrom(x, y, k + 1, k)
    BY DEF SameFrom
  <2> QED
    BY <1>2, <2>1 DEF LowNotAbove
<1>3. ASSUME x[k] = y[k], LowNotAbove(x, y, k - 1) PROVE LowNotAbove(x, y, k)
  <2>1. ASSUME NEW i \in 1 .. k, SameFrom(x, y, i, k - 1) PROVE SameFrom(x, y, i, k)
    <3> SUFFICES ASSUME NEW l \in i .. k PROVE x[l] = y[l]
      BY DEF SameFrom
    <3>1. CASE l = k
      BY <1>3, <3>1
    <3>2. CASE l # k
      BY <2>1, <3>2 DEF SameFrom
    <3> QED
      BY <3>1, <3>2
  <2>2. CASE SameFrom(x, y, 1, k - 1)
    BY <2>1, <2>2 DEF LowNotAbove
  <2>3. CASE \E i \in 1 .. k - 1 : x[i] < y[i] /\ SameFrom(x, y, i + 1, k - 1)
    <3>1. PICK i \in 1 .. k - 1 : x[i] < y[i] /\ SameFrom(x, y, i + 1, k - 1)
      BY <2>3
    <3>2. i + 1 \in 1 .. k /\ i \in 1 .. k
      OBVIOUS
    <3> QED
      BY <2>1, <3>1, <3>2 DEF LowNotAbove
  <2> QED
    BY <1>3, <2>2, <2>3 DEF LowNotAbove
<1> QED
  BY <1>1, <1>2, <1>3

LEMMA LowOrder ==
    ASSUME NEW x \in Number, NEW y \in Number
    PROVE  \A k \in 0 .. Bytes : Low(x, k) <= Low(y, k) <=> LowNotAbove(x, y, k)
<1> DEFINE R == {k \in 0 .. Bytes : Low(x, k) <= Low(y, k) <=> LowNotAbove(x, y, k)}
<1>1. Bytes \in Nat
  BY SizeTypes
<1>2. 0 \in R
  <2>1. Low(x, 0) = 0 /\ Low(y, 0) = 0
    BY LowUnfolds
  <2>2. LowNotAbove(x, y, 0)
    BY DEF LowNotAbove, SameFrom
  <2> QED
    BY <1>1, <2>1, <2>2
<1>3. ASSUME NEW k \in 1 .. Bytes, k - 1 \in R PROVE k \in R
  <2> DEFINE p == 2^(Bits * (k - 1))
             a == Low(x, k - 1)
             b == Low(y, k - 1)
             u == x[k]
             v == y[k]
  <2>1. k - 1 \in 0 .. Bytes /\ k \in 0 .. Bytes /\ k \in Nat \ {0} /\ k - 1 \in Nat
    BY <1>1
  <2>2. p \in Nat
    BY <2>1, SizeTypes
  <2>3. a \in 0 .. p - 1 /\ b \in 0 .. p - 1
    BY <2>1, LowBounded
  <2>4. Low(x, k) = a + u * p /\ Low(y, k) = b + v * p /\ u \in Nat /\ v \in Nat
    BY LowUnfolds, SizeTypes
  <2>5. a <= b <=> LowNotAbove(x, y, k - 1)
    BY <1>3
  <2>6. LowNotAbove(x, y, k) <=> u < v \/ (u = v /\ LowNotAbove(x, y, k - 1))
    BY <2>1, LowNotAboveUnfolds
  <2> HIDE DEF p, a, b, u, v
  <2>7. a + u * p \in Nat /\ b + v * p \in Nat
    BY <2>2, <2>3, <2>4
  <2>8. Low(x, k) <= Low(y, k) <=> LowNotAbove(x, y, k)
    <3>1. CASE u < v
      BY <2>2, <2>3, <2>4, <2>6, <2>7, <3>1, DigitDecides
    <3>2. CASE v < u
      <4>1. b + v * p < a + u * p
        BY <2>2, <2>3, <2>4, <3>2, DigitDecides
      <4>2. ~ u < v /\ u # v
        BY <2>4, <3>2
      <4> QED
        BY <2>4, <2>6, <2>7, <4>1, <4>2
    <3>3. CASE u = v
      <4>1. u * p \in Nat /\ a \in Nat /\ b \in Nat
        BY <2>2, <2>3, <2>4
      <4>2. a + u * p <= b + u * p <=> a <= b
        BY <4>1
      <4> QED
        BY <2>4, <2>5, <2>6, <3>3, <4>2
    <3> QED
      BY <2>4, <3>1, <3>2, <3>3
  <2> QED
    BY <2>1, <2>8
<1> HIDE DEF R
<1>4. 0 .. Bytes \subseteq R
  BY <1>1, <1>2, <1>3, InductionOverTurns
<1> QED
  BY <1>4 DEF R

LEMMA ReverseDigits ==
    ASSUME NEW x \in Number
    PROVE  /\ Reverse(x) \in Number /\ Reverse(Reverse(x)) = x
           /\ \A i \in 1 .. Bytes : Reverse(x)[i] = x[(Bytes - i) + 1]
<1>1. ASSUME NEW y \in Number
      PROVE  Reverse(y) = [i \in 1 .. Bytes |-> y[(Bytes - i) + 1]]
  <2>1. y \in [1 .. Bytes -> Digit] /\ Bytes \in Nat
    BY SizeTypes DEF Number
  <2>2. Len(y) = Bytes
    BY <2>1
  <2> QED
    BY <2>2 DEF Reverse
<1>2. ASSUME NEW y \in Number
      PROVE  Reverse(y) \in Number
  <2>1. y \in [1 .. Bytes -> Digit] /\ Bytes \in Nat
    BY SizeTypes DEF Number
  <2>2. \A i \in 1 .. Bytes : (Bytes - i) + 1 \in 1 .. Bytes
    BY <2>1
  <2>3. \A i \in 1 .. Bytes : y[(Bytes - i) + 1] \in Digit
    BY <2>1, <2>2
  <2> QED
    BY <1>1, <2>3 DEF Number
<1>3. Reverse(Reverse(x)) = x
  <2> DEFINE y == Reverse(x)
  <2>1. y \in Number /\ Bytes \in Nat
    BY <1>2, SizeTypes
  <2>2. Reverse(y) = [i \in 1 .. Bytes |-> y[(Bytes - i) + 1]]
    BY <1>1, <2>1
  <2>3. ASSUME NEW i \in 1 .. Bytes
        PROVE  y[(Bytes - i) + 1] = x[i]
    <3> DEFINE j == (Bytes - i) + 1
    <3>1. j \in 1 .. Bytes /\ (Bytes - j) + 1 = i
      BY <2>1
    <3>2. y = [k \in 1 .. Bytes |-> x[(Bytes - k) + 1]]
      BY <1>1
    <3> HIDE DEF y, j
    <3>3. y[j] = x[(Bytes - j) + 1]
      BY <3>1, <3>2
    <3> QED
      BY <3>1, <3>3 DEF j
  <2>4. x = [i \in 1 .. Bytes |-> x[i]]
    BY DEF Number
  <2> HIDE DEF y
  <2>5. Reverse(y) = [i \in 1 .. Bytes |-> x[i]]
    BY <2>2, <2>3
  <2> QED
    BY <2>4, <2>5 DEF y
<1> QED
  BY <1>1, <1>2, <1>3

\* Compared from the most significant digit on, as the numbers they stand for.
LEMMA OrderOfNumbers ==
    ASSUME NEW x \in Number, NEW y \in Number
    PROVE  NotAbove(Reverse(x), Reverse(y)) <=> LittleEndian(x) <= LittleEndian(y)
<1> DEFINE u == Reverse(x)
           v == Reverse(y)
<1>1. /\ u \in Number /\ v \in Number /\ Reverse(u) = x /\ Reverse(v) = y /\ Bytes \in Nat
      /\ \A i \in 1 .. Bytes : u[i] = x[(Bytes - i) + 1]
      /\ \A i \in 1 .. Bytes : v[i] = y[(Bytes - i) + 1]
  BY ReverseDigits, SizeTypes
<1> HIDE DEF u, v
<1>2. DOMAIN u = 1 .. Bytes
  BY <1>1 DEF Number
<1>3. NotAbove(u, v) => LowNotAbove(x, y, Bytes)
  <2>1. CASE u = v
    <3>1. x = y
      BY <1>1, <2>1
    <3> QED
      BY <3>1 DEF LowNotAbove, SameFrom
  <2>2. ASSUME NEW i \in 1 .. Bytes, u[i] < v[i], \A k \in 1 .. i - 1 : u[k] = v[k]
        PROVE  LowNotAbove(x, y, Bytes)
    <3> DEFINE j == (Bytes - i) + 1
    <3>1. j \in 1 .. Bytes /\ x[j] < y[j]
      BY <1>1, <2>2
    <3>2. ASSUME NEW l \in j + 1 .. Bytes PROVE x[l] = y[l]
      <4> DEFINE k == (Bytes - l) + 1
      <4>1. k \in 1 .. i - 1 /\ k \in 1 .. Bytes /\ (Bytes - k) + 1 = l
        BY <1>1
      <4>2. u[k] = v[k]
        BY <2>2, <4>1
      <4>3. u[k] = x[(Bytes - k) + 1] /\ v[k] = y[(Bytes - k) + 1]
        BY <1>1, <4>1
      <4> QED
        BY <4>1, <4>2, <4>3
    <3> HIDE DEF j
    <3> QED
      BY <3>1, <3>2 DEF LowNotAbove, SameFrom
  <2> QED
    BY <1>2, <2>1, <2>2 DEF NotAbove
<1>4. LowNotAbove(x, y, Bytes) => NotAbove(u, v)
  <2>1. CASE SameFrom(x, y, 1, Bytes)
    <3>1. x = [i \in 1 .. Bytes |-> x[i]] /\ y = [i \in 1 .. Bytes |-> y[i]]
      BY DEF Number
    <3>2. x = y
      BY <2>1, <3>1 DEF SameFrom
    <3> QED
      BY <3>2 DEF NotAbove, u, v
  <2>2. ASSUME NEW i \in 1 .. Bytes, x[i] < y[i], SameFrom(x, y, i + 1, Bytes)
        PROVE  NotAbove(u, v)
    <3> DEFINE j == (Bytes - i) + 1
    <3>1. j \in 1 .. Bytes /\ (Bytes - j) + 1 = i
      BY <1>1
    <3>2. u[j] < v[j]
      BY <1>1, <2>2, <3>1
    <3>3. ASSUME NEW k \in 1 .. j - 1 PROVE u[k] = v[k]
      <4> DEFINE l == (Bytes - k) + 1
      <4>1. l \in i + 1 .. Bytes /\ k \in 1 .. Bytes
        BY <1>1
      <4>2. x[l] = y[l]
        BY <2>2, <4>1 DEF SameFrom
      <4> QED
        BY <1>1, <4>1, <4>2
    <3> HIDE DEF j
    <3> QED
      BY <1>2, <3>1, <3>2, <3>3 DEF NotAbove
  <2> QED
    BY <2>1, <2>2 DEF LowNotAbove
<1>5. LittleEndian(x) <= LittleEndian(y) <=> LowNotAbove(x, y, Bytes)
  <2>1. Bytes \in 0 .. Bytes
    BY <1>1
  <2>2. LittleEndian(x) = Low(x, Bytes) /\ LittleEndian(y) = Low(y, Bytes)
    BY LowUnfolds
  <2> QED
    BY <2>1, <2>2, LowOrder
<1> QED
  BY <1>3, <1>4, <1>5 DEF u, v

-----------------------------------------------------------------------------
(* Both sides accept the same nonces *)

\* The sum of a warp is small enough that two foldings leave at most Modulus.
LEMMA PartialsFoldDown ==
    ASSUME NEW f, \A l \in 0 .. Lanes - 1 : f[l] \in 0 .. Modulus + 4
    PROVE  TwoFolds(Total(f, Lanes)) \in 0 .. Modulus
<1> DEFINE n == Lanes
           top == Modulus + 4
           x == Total(f, n)
           y == Fold(x)
           sq == Modulus * Modulus
<1>1. n \in Nat /\ 2 * n <= Modulus /\ top \in Nat /\ Modulus \in Nat /\ Modulus >= 7
      /\ top = Modulus + 4 /\ sq \in Nat /\ Base = Modulus + 1
  BY KernelAssumption, ModulusAssumption DEF Base
<1> HIDE DEF n, top
<1>2. \A l \in 0 .. n - 1 : f[l] \in 0 .. top
  BY DEF n, top
<1>3. x \in Nat /\ x <= n * top
  BY <1>1, <1>2, TotalBounded
<1> HIDE DEF x, y
<1>4. 2 * x <= sq + 4 * Modulus
  <2>1. (2 * n) * top <= Modulus * top
    BY <1>1
  <2>2. (2 * n) * top = 2 * (n * top) /\ n * top \in Nat
    BY <1>1
  <2>3. Modulus * top = sq + 4 * Modulus
    BY <1>1
  <2> HIDE DEF sq
  <2> QED
    BY <1>1, <1>3, <2>1, <2>2, <2>3
<1>5. y \in 0 .. 2 * Modulus - 1
  <2> DEFINE q == x \div Base
             r == x % Base
  <2>1. q \in Nat /\ r \in 0 .. Modulus /\ x = Base * q + r
    BY <1>3, Division
  <2>2. y = r + q
    BY DEF y, Fold
  <2> HIDE DEF q, r
  <2>3. q <= Modulus - 1
    <3> SUFFICES ASSUME q >= Modulus PROVE FALSE
      BY <1>1, <2>1
    <3>1. Base * q >= Base * Modulus
      BY <1>1, <2>1
    <3>2. Base * Modulus = sq + Modulus
      BY <1>1
    <3>3. Base * q \in Nat
      BY <1>1, <2>1
    <3>4. x >= sq + Modulus
      BY <1>1, <1>3, <2>1, <3>1, <3>2, <3>3
    <3>5. sq >= 7 * Modulus
      BY <1>1
    <3> HIDE DEF sq
    <3> QED
      BY <1>1, <1>3, <1>4, <3>4, <3>5
  <2> QED
    BY <1>1, <2>1, <2>2, <2>3
<1>6. Fold(y) \in 0 .. Modulus
  <2> DEFINE q == y \div Base
             r == y % Base
  <2>1. y \in Nat
    BY <1>1, <1>5
  <2>2. q \in Nat /\ r \in 0 .. Modulus /\ y = Base * q + r
    BY <2>1, Division
  <2>3. Fold(y) = r + q
    BY DEF Fold
  <2> HIDE DEF q, r
  <2>4. q = 0 \/ q = 1
    <3> SUFFICES ASSUME q >= 2 PROVE FALSE
      BY <2>2
    <3>1. Base * q >= Base * 2 /\ Base * q \in Nat
      BY <1>1, <2>2
    <3> QED
      BY <1>1, <1>5, <2>2, <3>1
  <2> QED
    BY <1>1, <1>5, <2>2, <2>3, <2>4
<1> QED
  BY <1>6 DEF TwoFolds, x, y, n

\* Without a zero word the kernel below the V2 height has the words themselves.
LEMMA LegacyWordsEqual ==
    ASSUME NEW s \in Shape, FitsFactored(s), NEW x, Drawn(s, x),
           \A p \in WordIndex(s) : ExactWords(s, x)[p] # 0
    PROVE  LegacyWords(s, x) = ExactWords(s, x)
<1>1. CASE ~ UseFactoredPath(s)
  BY <1>1, StepWordsExact DEF LegacyWords
<1>2. CASE UseFactoredPath(s)
  <2> DEFINE y == GpuPerturbed(x.a, x.el, x.er, s.r)
             z == GpuPerturbed(x.b, x.fl, x.fr, s.r)
             w == x.w
             L == LegacyWords(s, x)
             E == ExactWords(s, x)
  <2>1. L = [p \in WordIndex(s) |->
                TwoFolds(Total(LanePartials(s, y, z, w, p[1], p[2]), Lanes))]
    BY <1>2 DEF LegacyWords, FactoredWords, LanePartials, LanePartial, LaneTerms
  <2>2. s.b % ReduceInterval # 3
    BY <1>2 DEF FitsFactored
  <2>3. Faithful(s, y, ExactA(s, x)) /\ Faithful(s, z, ExactB(s, x))
    BY <1>2, DrawnIsDisturbed, GpuPerturbedIsFaithful DEF ExactA, ExactB, FitsFactored
  <2>4. Factor(s, y) /\ Factor(s, z) /\ Weights(s, w) /\ WholeTurns(s)
    BY <1>2, <2>3 DEF Faithful, Factor, Drawn, Weights, WholeTurns, UseFactoredPath
  <2> HIDE DEF y, z, w
  <2>5. ASSUME NEW i \in 0 .. Blocks(s) - 1, NEW j \in 0 .. Blocks(s) - 1
        PROVE  L[<<i, j>>] \in 0 .. Modulus
    <3> DEFINE f == LanePartials(s, y, z, w, i, j)
    <3>1. <<i, j>> \in WordIndex(s)
      BY DEF WordIndex
    <3>2. L[<<i, j>>] = TwoFolds(Total(f, Lanes))
      BY <2>1, <3>1
    <3>3. \A l \in 0 .. Lanes - 1 : f[l] \in 0 .. Modulus + 4
      BY <2>2, <2>4, LanesCorrect
    <3> HIDE DEF f, L
    <3> QED
      BY <3>2, <3>3, PartialsFoldDown
  <2>6. E = [p \in WordIndex(s) |-> E[p]]
    BY DEF ExactWords
  <2>7. ASSUME NEW p \in WordIndex(s) PROVE L[p] = E[p]
    <3>1. L[p] \in 0 .. Modulus
      BY <2>5 DEF WordIndex
    <3>2. L[p] % Modulus = E[p]
      BY LegacyWordsExact
    <3>3. E[p] # 0
      OBVIOUS
    <3> HIDE DEF L, E
    <3> QED
      BY <3>1, <3>2, <3>3, ModulusAssumption
  <2>8. L = [p \in WordIndex(s) |-> L[p]]
    BY <2>1
  <2> HIDE DEF L, E
  <2>9. L = E
    BY <2>6, <2>7, <2>8
  <2> QED
    BY <2>9 DEF L, E
<1> QED
  BY <1>1, <1>2

LEMMA DigitsAtTypes ==
    ASSUME NEW word \in Nat, NEW shift \in Nat
    PROVE  DigitsAt(word, shift) \in Number
<1>1. Bits \in Nat /\ 2^Bits \in Nat \ {0}
  BY SizeTypes
<1>2. ASSUME NEW i \in 1 .. Bytes, shift < i
      PROVE  (word \div 2^(Bits * (i - shift - 1))) % 2^Bits \in 0 .. 2^Bits - 1
  <2> DEFINE w == 2^(Bits * (i - shift - 1))
             d == 2^Bits
  <2>1. i - shift - 1 \in Nat
    BY <1>2
  <2>2. w \in Nat \ {0} /\ d \in Nat \ {0}
    BY <2>1, SizeTypes
  <2> HIDE DEF w, d
  <2>3. word \div w \in Nat
    BY <2>2, Quotient
  <2>4. (word \div w) % d \in 0 .. d - 1
    BY <2>2, <2>3
  <2> QED
    BY <2>4 DEF w, d
<1>3. 0 \in 0 .. 2^Bits - 1
  BY <1>1
<1> QED
  BY <1>2, <1>3 DEF DigitsAt, Number, Digit

LEMMA BlockTargetTypes ==
    ASSUME NEW bits, bits.size \in Nat, bits.word \in Nat
    PROVE  /\ BlockTargetFromBits(bits) # None => BlockTargetFromBits(bits) \in Number
           /\ Word(bits) \in Nat
<1>1. Bits \in Nat \ {0} /\ Mantissa \in Nat \ {0}
  BY SizeTypes
<1>2. Mantissa * Bits - 1 \in Nat
  <2>1. Mantissa * Bits >= 1 * Bits
    BY <1>1
  <2> QED
    BY <1>1, <2>1
<1>3. SignBit \in Nat \ {0}
  BY <1>2, PowerPositive DEF SignBit
<1>4. Word(bits) \in Nat
  BY <1>3 DEF Word
<1>5. ASSUME bits.size <= Mantissa
      PROVE  Word(bits) \div 2^(Bits * (Mantissa - bits.size)) \in Nat
  <2> DEFINE w == 2^(Bits * (Mantissa - bits.size))
  <2>1. Mantissa - bits.size \in Nat
    BY <1>1, <1>5
  <2>2. w \in Nat \ {0}
    BY <2>1, SizeTypes
  <2> HIDE DEF w
  <2>3. Word(bits) \div w \in Nat
    BY <1>4, <2>2, Quotient
  <2> QED
    BY <2>3 DEF w
<1>6. ASSUME ~ bits.size <= Mantissa PROVE bits.size - Mantissa \in Nat
  BY <1>1, <1>6
<1>7. 0 \in Nat
  OBVIOUS
<1> QED
  BY <1>4, <1>5, <1>6, <1>7, DigitsAtTypes DEF BlockTargetFromBits

\* A digest that meets a target meets every larger one.
LEMMA TargetsAreOrdered ==
    ASSUME NEW d \in Number, NEW x \in Number, NEW y \in Number,
           LittleEndian(x) <= LittleEndian(y), DigestMeetsTarget(d, x)
    PROVE  DigestMeetsTarget(d, y)
<1>1. LittleEndian(d) <= LittleEndian(x)
  BY OrderOfNumbers DEF DigestMeetsTarget
<1>2. LittleEndian(d) \in Nat /\ LittleEndian(x) \in Nat /\ LittleEndian(y) \in Nat
  <2>1. Bytes \in 0 .. Bytes
    BY SizeTypes
  <2> QED
    BY <2>1, LowUnfolds
<1>3. LittleEndian(d) <= LittleEndian(y)
  BY <1>1, <1>2
<1> QED
  BY <1>3, OrderOfNumbers DEF DigestMeetsTarget

-----------------------------------------------------------------------------
(* The gate: a target of Width bits, shifted to the left                   *)

\* Place k of v in base 2^c, and the number its places stand for.
Place(v, c, k) == (v \div 2^(c * k)) % 2^c
Places(v, c, m) == [k \in 0 .. m - 1 |-> Place(v, c, k) * 2^(c * k)]

LEMMA PlaceUnfolds ==
    ASSUME NEW v \in Nat, NEW c \in Nat, NEW k \in Nat
    PROVE  /\ Place(v, c, k) \in 0 .. 2^c - 1 /\ 2^(c * k) \in Nat \ {0}
           /\ v \div 2^(c * k) \in Nat /\ v \div 2^(c * (k + 1)) \in Nat
           /\ v \div 2^(c * k) = Place(v, c, k) + 2^c * (v \div 2^(c * (k + 1)))
           /\ 2^(c * (k + 1)) = 2^(c * k) * 2^c
<1> DEFINE p == 2^(c * k)
           d == 2^c
           w == 2^(c * (k + 1))
           q == v \div p
           e == q \div d
           r == q % d
           s == v - p * q
<1>1. c * k \in Nat /\ c * (k + 1) = c * k + c
  OBVIOUS
<1>2. p \in Nat \ {0} /\ d \in Nat \ {0} /\ w = p * d
  BY <1>1, PowerPositive, PowerAdds
<1>3. Place(v, c, k) = r
  BY DEF Place
<1> HIDE DEF p, d, w
<1>4. q \in Nat /\ p * q \in Nat /\ s \in 0 .. p - 1
  <2>1. q \in Nat /\ p * q <= v /\ v < p * q + p
    BY <1>2, Quotient
  <2>2. p * q \in Nat
    BY <1>2, <2>1
  <2> HIDE DEF q
  <2> QED
    BY <1>2, <2>1, <2>2
<1>5. v = p * q + s
  BY <1>4
<1> HIDE DEF q, s
<1>6. e \in Nat /\ r \in 0 .. d - 1 /\ q = d * e + r
  BY <1>2, <1>4, SMT
<1> HIDE DEF e, r
<1>7. v \div w = e
  <2> DEFINE t == p * r + s
             n == p * d
  <2>1. p * r <= p * (d - 1) /\ p * r \in Nat
    BY <1>2, <1>6
  <2>2. p * (d - 1) = p * d - p /\ n \in Nat \ {0} /\ n = p * d
    BY <1>2
  <2>3. t \in 0 .. n - 1
    <3> DEFINE a == p * r
               b == p * d
    <3>1. a <= b - p /\ a \in Nat /\ b \in Nat /\ n = b /\ t = a + s
      BY <2>1, <2>2
    <3> HIDE DEF a, b, n, t
    <3> QED
      BY <1>2, <1>4, <3>1
  <2>4. v = e * n + t
    <3>1. p * q = p * (d * e) + p * r
      BY <1>2, <1>6
    <3>2. p * (d * e) = e * n
      BY <1>2, <1>6
    <3>3. e * n \in Nat /\ p * r \in Nat
      BY <1>6, <2>1, <2>2
    <3> DEFINE y == e * n
               z == p * r
    <3>4. p * q = y + z /\ y \in Nat /\ z \in Nat /\ t = z + s /\ y = e * n
      BY <3>1, <3>2, <3>3
    <3> HIDE DEF y, z, t, n
    <3>5. v = y + t
      BY <1>4, <1>5, <3>4
    <3> QED
      BY <3>4, <3>5
  <2> HIDE DEF t, n
  <2>5. (e * n + t) \div n = e
    BY <1>6, <2>2, <2>3, DivideCell
  <2>6. w = n
    BY <1>2, <2>2
  <2> QED
    BY <2>4, <2>5, <2>6
<1>8. q = r + d * (v \div w) /\ v \div w \in Nat
  <2>1. d * e \in Nat
    BY <1>2, <1>6
  <2> QED
    BY <1>6, <1>7, <2>1
<1> QED
  BY <1>2, <1>3, <1>4, <1>6, <1>8 DEF p, d, w, q

\* A number is what its places stand for, if there are enough of them.
LEMMA PlacesAddUp ==
    ASSUME NEW v \in Nat, NEW c \in Nat, NEW m \in Nat, v < 2^(c * m)
    PROVE  Terms(Places(v, c, m), m) /\ Total(Places(v, c, m), m) = v
<1> DEFINE f == Places(v, c, m)
           rest(k) == v \div 2^(c * k)
           R == {k \in 0 .. m : v = Total(f, k) + 2^(c * k) * rest(k)}
<1>1. \A i \in 0 .. m - 1 : f[i] = Place(v, c, i) * 2^(c * i) /\ f[i] \in Int
  <2> SUFFICES ASSUME NEW i \in 0 .. m - 1
               PROVE  f[i] = Place(v, c, i) * 2^(c * i) /\ f[i] \in Int
    OBVIOUS
  <2> DEFINE a == Place(v, c, i)
             b == 2^(c * i)
  <2>1. a \in 0 .. 2^c - 1 /\ b \in Nat /\ 2^c \in Nat
    BY PlaceUnfolds, PowerPositive
  <2>2. f[i] = a * b
    BY DEF Places
  <2>3. a \in Int /\ b \in Int
    BY <2>1
  <2> HIDE DEF a, b, f
  <2> QED
    BY <2>2, <2>3 DEF a, b
<1> HIDE DEF f
<1>2. Terms(f, m)
  BY <1>1 DEF Terms
<1>3. 0 \in R
  <2>1. c * 0 = 0 /\ 2^0 = 1
    BY PowerOfZero
  <2>2. 2^(c * 0) = 1
    BY <2>1
  <2>3. Total(f, 0) = 0
    BY <1>2, TotalUnfolds
  <2>4. v \div 1 = v /\ 0 \in 0 .. m
    BY SMT
  <2> DEFINE w == 2^(c * 0)
  <2>5. w = 1 /\ v \div w = v
    <3>1. w = 1
      BY <2>2
    <3> HIDE DEF w
    <3> QED
      BY <2>4, <3>1
  <2>6. v = 0 + w * (v \div w)
    <3> HIDE DEF w
    <3> QED
      BY <2>5
  <2> QED
    BY <2>3, <2>4, <2>6
<1>4. ASSUME NEW k \in 1 .. m, k - 1 \in R PROVE k \in R
  <2> DEFINE p == 2^(c * (k - 1))
             d == 2^c
             w == 2^(c * k)
             q == rest(k - 1)
             e == rest(k)
             r == Place(v, c, k - 1)
             a == Total(f, k - 1)
  <2>1. k - 1 \in Nat /\ (k - 1) + 1 = k /\ k - 1 \in 0 .. m /\ k - 1 \in 0 .. m - 1
    OBVIOUS
  <2>2. p \in Nat \ {0} /\ r \in 0 .. d - 1 /\ q \in Nat /\ e \in Nat /\ q = r + d * e /\ w = p * d
    <3> DEFINE j == k - 1
    <3>1. j \in Nat /\ j + 1 = k
      BY <2>1
    <3> HIDE DEF j
    <3>2. /\ Place(v, c, j) \in 0 .. 2^c - 1 /\ 2^(c * j) \in Nat \ {0}
          /\ v \div 2^(c * j) \in Nat /\ v \div 2^(c * (j + 1)) \in Nat
          /\ v \div 2^(c * j) = Place(v, c, j) + 2^c * (v \div 2^(c * (j + 1)))
          /\ 2^(c * (j + 1)) = 2^(c * j) * 2^c
      BY <3>1, PlaceUnfolds
    <3> DEFINE next == j + 1
    <3>3. next = k
      BY <3>1
    <3>4. /\ Place(v, c, j) \in 0 .. 2^c - 1 /\ 2^(c * j) \in Nat \ {0}
          /\ v \div 2^(c * j) \in Nat /\ v \div 2^(c * next) \in Nat
          /\ v \div 2^(c * j) = Place(v, c, j) + 2^c * (v \div 2^(c * next))
          /\ 2^(c * next) = 2^(c * j) * 2^c
      BY <3>2
    <3> HIDE DEF next
    <3> QED
      BY <3>3, <3>4 DEF j
  <2>3. a \in Int /\ Total(f, k) = a + r * p
    BY <1>1, <1>2, <2>1, TotalUnfolds
  <2>4. v = a + p * q
    BY <1>4
  <2>5. d \in Nat
    BY PowerPositive
  <2> HIDE DEF p, d, w, q, e, r, a
  <2>6. p * q = r * p + w * e
    BY <2>2, <2>5
  <2>7. r * p \in Int /\ w * e \in Int
    BY <2>2, <2>5
  <2>8. v = Total(f, k) + w * e
    BY <2>3, <2>4, <2>6, <2>7
  <2> QED
    BY <2>8 DEF w, e
<1>5. 0 .. m \subseteq R
  <2> HIDE DEF R
  <2> QED
    BY <1>3, <1>4, InductionOverTurns
<1>6. rest(m) = 0
  <2> DEFINE p == 2^(c * m)
             q == v \div p
  <2>1. p \in Nat \ {0}
    BY PlaceUnfolds
  <2>2. v < p
    OBVIOUS
  <2> HIDE DEF p
  <2>3. q \in Nat /\ p * q <= v
    BY <2>1, Quotient
  <2> HIDE DEF q
  <2>4. q >= 1 => p * q >= p * 1
    BY <2>1, <2>3
  <2>5. q = 0
    BY <2>1, <2>2, <2>3, <2>4
  <2> QED
    BY <2>5 DEF p, q
<1>7. v = Total(f, m) + 2^(c * m) * rest(m) /\ Total(f, m) \in Int /\ 2^(c * m) \in Nat
  BY <1>2, <1>5, TotalUnfolds, PlaceUnfolds
<1> HIDE DEF rest
<1> QED
  BY <1>2, <1>6, <1>7 DEF f

\* Strings of bits, least significant first, and what they stand for.
BitString(n) == [0 .. n - 1 -> {0, 1}]
BitTerms(b) == [j \in DOMAIN b |-> b[j] * 2^j]
\* The number of the k lowest bits.
BitSum(b, k) == Total(BitTerms(b), k)

LEMMA BitSumTypes ==
    ASSUME NEW n \in Nat, NEW b \in BitString(n)
    PROVE  /\ Terms(BitTerms(b), n) /\ \A i \in 0 .. n - 1 : BitTerms(b)[i] \in Nat
           /\ \A i \in 0 .. n - 1 : BitTerms(b)[i] = b[i] * 2^i /\ b[i] \in {0, 1}
           /\ \A k \in 0 .. n : BitSum(b, k) \in 0 .. 2^k - 1
<1> DEFINE f == BitTerms(b)
           R == {k \in 0 .. n : Total(f, k) \in 0 .. 2^k - 1}
<1>1. ASSUME NEW i \in 0 .. n - 1
      PROVE  f[i] = b[i] * 2^i /\ b[i] \in {0, 1} /\ f[i] \in Nat
  <2> DEFINE u == b[i]
             p == 2^i
  <2>1. f[i] = u * p
    BY DEF BitTerms, BitString
  <2>2. u \in {0, 1}
    BY DEF BitString
  <2>3. i \in Nat
    OBVIOUS
  <2>4. p \in Nat
    BY <2>3, PowerPositive
  <2> HIDE DEF u, p, f
  <2> QED
    BY <2>1, <2>2, <2>4 DEF u, p
<1> HIDE DEF f
<1>2. Terms(f, n)
  BY <1>1 DEF Terms
<1>3. 0 \in R
  <2>1. Total(f, 0) = 0 /\ 2^0 = 1
    BY <1>2, TotalUnfolds, PowerOfZero
  <2> DEFINE p == 2^0
  <2>2. p = 1
    BY <2>1
  <2> HIDE DEF p
  <2>3. Total(f, 0) \in 0 .. p - 1
    BY <2>1, <2>2
  <2> QED
    BY <2>3 DEF p
<1>4. ASSUME NEW k \in 1 .. n, k - 1 \in R PROVE k \in R
  <2> DEFINE i == k - 1
             p == 2^i
             w == 2^k
             a == Total(f, i)
             u == b[i]
  <2>1. i \in Nat /\ i \in 0 .. n - 1 /\ k = i + 1
    OBVIOUS
  <2>2. p \in Nat /\ w = 2 * p
    <3> HIDE DEF i
    <3> QED
      BY <2>1, PowerDoubles
  <2>3. Total(f, k) = a + f[i]
    BY <1>2, TotalUnfolds
  <2>4. a \in 0 .. p - 1
    BY <1>4
  <2>5. f[i] = u * p /\ u \in {0, 1}
    <3> HIDE DEF i
    <3> QED
      BY <1>1, <2>1
  <2> HIDE DEF i, p, w, a, u
  <2>6. f[i] = 0 \/ f[i] = p
    BY <2>2, <2>5
  <2>7. Total(f, k) \in 0 .. w - 1
    BY <2>2, <2>3, <2>4, <2>6
  <2> QED
    BY <2>7 DEF w
<1> HIDE DEF R
<1>5. 0 .. n \subseteq R
  BY <1>3, <1>4, InductionOverTurns
<1> QED
  BY <1>1, <1>2, <1>5 DEF R, f, BitSum

\* A term of a sum of naturals is not above the sum.
LEMMA TermBelowTotal ==
    ASSUME NEW n \in Nat, NEW f, \A i \in 0 .. n - 1 : f[i] \in Nat, NEW i \in 0 .. n - 1
    PROVE  f[i] <= Total(f, n)
<1> DEFINE R == {k \in 0 .. n : i < k => f[i] <= Total(f, k)}
<1>1. Terms(f, n) /\ \A k \in 0 .. n : Total(f, k) \in Nat
  BY TotalOfNaturals DEF Terms
<1>2. 0 \in R
  OBVIOUS
<1>3. ASSUME NEW k \in 1 .. n, k - 1 \in R PROVE k \in R
  <2>1. /\ Total(f, k) = Total(f, k - 1) + f[k - 1] /\ f[k - 1] \in Nat
        /\ Total(f, k - 1) \in Nat
    BY <1>1, TotalUnfolds
  <2>2. CASE i = k - 1
    BY <2>1, <2>2
  <2>3. CASE i < k - 1
    <3>1. f[i] <= Total(f, k - 1)
      BY <1>3, <2>3
    <3>2. f[i] \in Nat
      OBVIOUS
    <3>3. f[i] <= Total(f, k)
      BY <2>1, <3>1, <3>2
    <3> QED
      BY <3>3
  <2> QED
    BY <2>2, <2>3
<1> HIDE DEF R
<1>4. 0 .. n \subseteq R
  BY <1>2, <1>3, InductionOverTurns
<1> QED
  BY <1>4 DEF R

\* The bits of digit l + 1.
DigitBits(b, l) == [t \in 0 .. Bits - 1 |-> b[l * Bits + t] * 2^t]
OfBits(y, b) ==
    /\ DOMAIN y = 1 .. Bytes
    /\ y = [d \in 1 .. Bytes |-> y[d]]
    /\ \A l \in 0 .. Bytes - 1 : y[l + 1] = Total(DigitBits(b, l), Bits)

LEMMA WidthTypes ==
    /\ Width \in Nat \ {0} /\ Width = Bytes * Bits /\ Width = Bits * Bytes
    /\ \A l \in 0 .. Bytes - 1 : \A t \in 0 .. Bits - 1 : l * Bits + t \in 0 .. Width - 1
<1>1. Bytes \in Nat \ {0} /\ Bits \in Nat \ {0}
  BY SizeTypes
<1>2. Width \in Nat \ {0} /\ Width = Bytes * Bits /\ Width = Bits * Bytes
  <2>1. Bytes * Bits \in Nat /\ Bytes * Bits = Bits * Bytes /\ Bytes * Bits # 0
    BY <1>1
  <2> QED
    BY <2>1 DEF Width
<1>3. ASSUME NEW l \in 0 .. Bytes - 1, NEW t \in 0 .. Bits - 1
      PROVE  l * Bits + t \in 0 .. Width - 1
  <2> DEFINE a == l * Bits
  <2>1. (l + 1) * Bits <= Bytes * Bits /\ (l + 1) * Bits = a + Bits /\ a \in Nat
    BY <1>1
  <2>2. a + Bits <= Width
    BY <1>2, <2>1
  <2> HIDE DEF a
  <2>3. a + t \in 0 .. Width - 1
    BY <1>1, <1>2, <2>1, <2>2
  <2> QED
    BY <2>3 DEF a
<1> QED
  BY <1>2, <1>3

\* A number whose digits are made of bits is what the bits stand for.
LEMMA BitsOfNumber ==
    ASSUME NEW b \in BitString(Width), NEW y, OfBits(y, b)
    PROVE  y \in Number /\ LittleEndian(y) = BitSum(b, Width)
<1>1. Bytes \in Nat \ {0} /\ Bits \in Nat \ {0} /\ Width \in Nat /\ Width = Bytes * Bits
  BY SizeTypes, WidthTypes
<1>2. ASSUME NEW l \in 0 .. Bytes - 1
      PROVE  /\ y[l + 1] \in Digit /\ Terms(DigitBits(b, l), Bits)
             /\ \A t \in 0 .. Bits - 1 : DigitBits(b, l)[t] = b[l * Bits + t] * 2^t
  <2> DEFINE c == [t \in 0 .. Bits - 1 |-> b[l * Bits + t]]
  <2>1. c \in BitString(Bits)
    <3>1. \A t \in 0 .. Bits - 1 : l * Bits + t \in 0 .. Width - 1
      BY WidthTypes
    <3>2. \A t \in 0 .. Bits - 1 : b[l * Bits + t] \in {0, 1}
      BY <3>1 DEF BitString
    <3> QED
      BY <3>2 DEF BitString
  <2>2. BitTerms(c) = DigitBits(b, l)
    BY DEF BitTerms, DigitBits
  <2> HIDE DEF c
  <2>3. Terms(BitTerms(c), Bits) /\ BitSum(c, Bits) \in 0 .. 2^Bits - 1
    <3>1. Bits \in 0 .. Bits /\ Bits \in Nat
      BY <1>1
    <3> QED
      BY <2>1, <3>1, BitSumTypes
  <2>4. y[l + 1] \in 0 .. 2^Bits - 1
    BY <2>2, <2>3 DEF OfBits, BitSum
  <2> QED
    BY <2>2, <2>3, <2>4 DEF Digit, DigitBits
<1>3. y \in Number
  <2>1. ASSUME NEW d \in 1 .. Bytes PROVE y[d] \in Digit
    <3> DEFINE l == d - 1
    <3>1. l \in 0 .. Bytes - 1 /\ l + 1 = d
      BY <1>1
    <3> HIDE DEF l
    <3> QED
      BY <1>2, <3>1
  <2> QED
    BY <2>1 DEF OfBits, Number
<1> DEFINE F == [p \in (0 .. Bytes - 1) \X (0 .. Bits - 1) |->
                    b[p[1] * Bits + p[2]] * 2^(p[1] * Bits + p[2])]
           f == BitTerms(b)
<1>4. /\ \A i \in 0 .. Width - 1 : f[i] = b[i] * 2^i
      /\ Terms(f, Width)
  BY <1>1, BitSumTypes
<1>5. \A l \in 0 .. Bytes - 1 : \A t \in 0 .. Bits - 1 :
          /\ F[<<l, t>>] = b[l * Bits + t] * 2^(l * Bits + t)
          /\ f[l * Bits + t] = F[<<l, t>>] /\ F[<<l, t>>] \in Int
  <2> SUFFICES ASSUME NEW l \in 0 .. Bytes - 1, NEW t \in 0 .. Bits - 1
               PROVE  /\ F[<<l, t>>] = b[l * Bits + t] * 2^(l * Bits + t)
                      /\ f[l * Bits + t] = F[<<l, t>>] /\ F[<<l, t>>] \in Int
    OBVIOUS
  <2> DEFINE j == l * Bits + t
  <2>1. F[<<l, t>>] = b[j] * 2^j
    OBVIOUS
  <2>2. j \in 0 .. Width - 1
    BY WidthTypes
  <2> HIDE DEF F, f, j
  <2>3. f[j] = b[j] * 2^j /\ f[j] \in Int
    BY <1>4, <2>2 DEF Terms
  <2> QED
    BY <2>1, <2>3 DEF j
<1> HIDE DEF F, f
<1>6. Table(F, Bytes, Bits)
  BY <1>5 DEF Table
<1>7. Total(f, Bytes * Bits) = ByRows(F, Bytes, Bits)
  BY <1>1, <1>5, <1>6, SumsFlatten
<1>8. ASSUME NEW l \in 0 .. Bytes - 1
      PROVE  Total(Row(F, l, Bits), Bits) = y[l + 1] * 2^(Bits * l)
  <2> DEFINE g == Row(F, l, Bits)
             h == DigitBits(b, l)
             w == 2^(Bits * l)
  <2>1. w \in Int /\ l \in Nat
    <3>1. l \in Nat
      BY <1>1
    <3> QED
      BY <3>1, SizeTypes
  <2>2. ASSUME NEW t \in 0 .. Bits - 1 PROVE g[t] = h[t] * w
    <3> DEFINE j == l * Bits + t
               u == b[j]
               p == 2^t
    <3>1. g[t] = u * 2^(l * Bits + t)
      BY <1>5 DEF Row
    <3>2. 2^(l * Bits + t) = w * p /\ p \in Nat
      <4>1. l * Bits \in Nat /\ l * Bits = Bits * l /\ t \in Nat
        BY <1>1, <2>1
      <4> QED
        BY <4>1, PowerAdds, PowerPositive
    <3>3. h[t] = u * p
      BY <1>2
    <3>4. u \in {0, 1}
      <4>1. j \in 0 .. Width - 1
        BY WidthTypes
      <4> HIDE DEF j
      <4> QED
        BY <4>1 DEF BitString
    <3> HIDE DEF j, u, p, w, h, g
    <3>5. u * (w * p) = (u * p) * w
      BY <2>1, <3>2, <3>4
    <3> QED
      BY <3>1, <3>2, <3>3, <3>5
  <2>3. Terms(h, Bits) /\ Total(h, Bits) = y[l + 1]
    BY <1>2 DEF OfBits
  <2> HIDE DEF g, h, w
  <2>4. Bits \in Nat
    BY <1>1
  <2>5. Total(g, Bits) = Total(h, Bits) * w
    BY <2>1, <2>2, <2>3, <2>4, TotalOfMultiples
  <2> QED
    BY <2>3, <2>5 DEF g, w
<1>9. ByRows(F, Bytes, Bits) = LittleEndian(y)
  <2> DEFINE g == RowTotals(F, Bytes, Bits)
             h == DigitTerms(y)
  <2>1. \A l \in 0 .. Bytes - 1 : g[l] = Total(Row(F, l, Bits), Bits)
    BY DEF RowTotals
  <2>2. \A l \in 0 .. Bytes - 1 : h[l] = y[l + 1] * 2^(Bits * l)
    BY DEF DigitTerms
  <2>3. Terms(h, Bytes) /\ LittleEndian(y) = Total(h, Bytes)
    BY <1>3, LowUnfolds DEF Low
  <2> HIDE DEF g, h
  <2>4. \A l \in 0 .. Bytes - 1 : h[l] = g[l]
    BY <1>8, <2>1, <2>2
  <2>5. Bytes \in Nat
    BY <1>1
  <2>6. Total(h, Bytes) = Total(g, Bytes)
    BY <2>3, <2>4, <2>5, TotalDepends
  <2> QED
    BY <2>3, <2>6 DEF g, ByRows
<1> QED
  BY <1>1, <1>3, <1>7, <1>9 DEF BitSum, f

BitsOf(x) == [j \in 0 .. Width - 1 |-> BitOf(x, j)]
ShiftedBits(x, e) == [j \in 0 .. Width - 1 |-> IF j >= e THEN BitOf(x, j - e) ELSE 0]

LEMMA BitTypes ==
    ASSUME NEW x \in Number, NEW j \in 0 .. Width - 1
    PROVE  /\ BitOf(x, j) \in {0, 1}
           /\ \A l \in 0 .. Bytes - 1 : \A t \in 0 .. Bits - 1 :
                  j = l * Bits + t => BitOf(x, j) = (x[l + 1] \div 2^t) % 2
<1>1. Bytes \in Nat \ {0} /\ Bits \in Nat \ {0} /\ Width = Bits * Bytes /\ j \in Nat
  BY SizeTypes, WidthTypes
<1> DEFINE q == j \div Bits
           r == j % Bits
<1>2. q \in Nat /\ r \in 0 .. Bits - 1 /\ j = Bits * q + r
  BY <1>1, SMT
<1>3. BitOf(x, j) = (x[q + 1] \div 2^r) % 2
  BY DEF BitOf
<1> HIDE DEF q, r
<1>4. q \in 0 .. Bytes - 1
  <2>1. q >= Bytes => Bits * q >= Bits * Bytes
    BY <1>1, <1>2
  <2>2. j < Width /\ Width \in Nat
    BY WidthTypes
  <2> DEFINE a == Bits * q
             b == Bits * Bytes
  <2>3. a \in Nat /\ j = a + r /\ b = Width /\ (q >= Bytes => a >= b)
    BY <1>1, <1>2, <2>1
  <2> HIDE DEF a, b
  <2>4. ~ q >= Bytes
    BY <1>2, <2>2, <2>3
  <2> QED
    BY <1>1, <1>2, <2>4
<1>5. BitOf(x, j) \in {0, 1}
  <2> DEFINE u == x[q + 1]
             p == 2^r
  <2>1. q + 1 \in 1 .. Bytes
    BY <1>1, <1>4
  <2>2. u \in 0 .. 2^Bits - 1
    BY <2>1 DEF Number, Digit
  <2>3. u \in Nat
    BY <2>2
  <2>4. p \in Nat \ {0}
    BY <1>2, PowerPositive
  <2> HIDE DEF u, p
  <2>5. u \div p \in Nat
    BY <2>3, <2>4, Quotient
  <2>6. (u \div p) % 2 \in {0, 1}
    BY <2>5
  <2> QED
    BY <1>3, <2>6 DEF u, p
<1>6. ASSUME NEW l \in 0 .. Bytes - 1, NEW t \in 0 .. Bits - 1, j = l * Bits + t
      PROVE  BitOf(x, j) = (x[l + 1] \div 2^t) % 2
  <2>1. l \in Nat
    BY <1>1
  <2>2. (l * Bits + t) \div Bits = l /\ (l * Bits + t) % Bits = t
    BY <1>1, <2>1, DivideCell
  <2>3. q = l /\ r = t
    BY <1>6, <2>2 DEF q, r
  <2> QED
    BY <1>3, <2>3
<1> QED
  BY <1>5, <1>6

LEMMA BitStringTypes ==
    ASSUME NEW x \in Number, NEW e \in Nat
    PROVE  BitsOf(x) \in BitString(Width) /\ ShiftedBits(x, e) \in BitString(Width)
<1>1. Width \in Nat
  BY WidthTypes
<1>2. \A j \in 0 .. Width - 1 : BitOf(x, j) \in {0, 1}
  BY BitTypes
<1>3. \A j \in 0 .. Width - 1 : j >= e => j - e \in 0 .. Width - 1
  BY <1>1
<1> QED
  BY <1>2, <1>3 DEF BitsOf, ShiftedBits, BitString

\* A number is what its bits stand for.
LEMMA NumberIsItsBits ==
    ASSUME NEW x \in Number
    PROVE  LittleEndian(x) = BitSum(BitsOf(x), Width)
<1>1. BitsOf(x) \in BitString(Width)
  <2>1. 0 \in Nat
    OBVIOUS
  <2> QED
    BY <2>1, BitStringTypes
<1>2. ASSUME NEW l \in 0 .. Bytes - 1
      PROVE  x[l + 1] = Total(DigitBits(BitsOf(x), l), Bits)
  <2> DEFINE u == x[l + 1]
             f == Places(u, 1, Bits)
             g == DigitBits(BitsOf(x), l)
  <2>1. Bytes \in Nat \ {0} /\ Bits \in Nat \ {0} /\ 1 * Bits = Bits /\ Bits \in Nat
    BY SizeTypes
  <2>2. u \in 0 .. 2^Bits - 1 /\ 2^Bits \in Nat
    <3>1. l + 1 \in 1 .. Bytes
      BY <2>1
    <3> QED
      BY <3>1, SizeTypes DEF Number, Digit
  <2>3. u \in Nat /\ u < 2^Bits
    <3> DEFINE d == 2^Bits
    <3>1. u \in 0 .. d - 1 /\ d \in Nat
      BY <2>2
    <3> HIDE DEF d, u
    <3>2. u \in Nat /\ u < d
      BY <3>1
    <3> QED
      BY <3>2 DEF d
  <2>4. 2^(1 * Bits) = 2^Bits
    BY <2>1
  <2>5. \A t \in 0 .. Bits - 1 : g[t] = f[t]
    <3> SUFFICES ASSUME NEW t \in 0 .. Bits - 1 PROVE g[t] = f[t]
      OBVIOUS
    <3> DEFINE j == l * Bits + t
    <3>1. g[t] = BitsOf(x)[j] * 2^t
      BY DEF DigitBits
    <3>2. j \in 0 .. Width - 1
      BY WidthTypes
    <3>3. BitsOf(x)[j] = BitOf(x, j)
      <4> HIDE DEF j
      <4> QED
        BY <3>2 DEF BitsOf
    <3>4. BitOf(x, j) = (u \div 2^t) % 2
      BY <3>2, BitTypes
    <3>5. f[t] = Place(u, 1, t) * 2^(1 * t)
      BY DEF Places
    <3>6. 1 * t = t /\ 2^1 = 2
      <4>1. 2^(0 + 1) = 2 * 2^0 /\ 2^0 = 1
        BY PowerDoubles, PowerOfZero
      <4>2. 0 + 1 = 1
        OBVIOUS
      <4>3. 2^1 = 2 * 2^0
        BY <4>1, <4>2
      <4> QED
        BY <4>1, <4>3
    <3>7. 2^(1 * t) = 2^t
      BY <3>6
    <3>8. Place(u, 1, t) = (u \div 2^t) % 2
      BY <3>6, <3>7 DEF Place
    <3> HIDE DEF u, f, g, j
    <3> QED
      BY <3>1, <3>3, <3>4, <3>5, <3>7, <3>8
  <2>6. Terms(f, Bits) /\ Total(f, Bits) = u
    <3> HIDE DEF u
    <3>1. 1 \in Nat /\ u < 2^(1 * Bits)
      BY <2>3, <2>4
    <3> QED
      BY <2>1, <2>3, <3>1, PlacesAddUp
  <2> HIDE DEF u, f, g
  <2>7. Total(f, Bits) = Total(g, Bits)
    BY <2>1, <2>5, <2>6, TotalDepends
  <2> QED
    BY <2>6, <2>7 DEF u, g
<1>3. OfBits(x, BitsOf(x))
  BY <1>2 DEF OfBits, Number
<1> QED
  BY <1>1, <1>3, BitsOfNumber

LEMMA ShiftIsItsBits ==
    ASSUME NEW x \in Number, NEW e \in Nat
    PROVE  /\ ShiftLeft(x, e) \in Number
           /\ LittleEndian(ShiftLeft(x, e)) = BitSum(ShiftedBits(x, e), Width)
<1> DEFINE b == ShiftedBits(x, e)
           y == ShiftLeft(x, e)
<1>1. Bytes \in Nat \ {0} /\ Bits \in Nat \ {0}
  BY SizeTypes
<1>2. ASSUME NEW l \in 0 .. Bytes - 1
      PROVE  y[l + 1] = Total(DigitBits(b, l), Bits)
  <2> DEFINE d == l + 1
             g == [i \in 0 .. Bits - 1 |->
                      LET from == (d - 1) * Bits + i - e
                      IN  IF from >= 0 THEN BitOf(x, from) * 2^i ELSE 0]
             h == DigitBits(b, l)
  <2>1. d \in 1 .. Bytes /\ d - 1 = l /\ l \in Nat
    BY <1>1
  <2>2. y[d] = Total(g, Bits)
    <3> HIDE DEF d
    <3> QED
      BY <2>1 DEF ShiftLeft
  <2>3. \A i \in 0 .. Bits - 1 : g[i] = h[i]
    <3> SUFFICES ASSUME NEW i \in 0 .. Bits - 1 PROVE g[i] = h[i]
      OBVIOUS
    <3> DEFINE j == l * Bits + i
               from == (d - 1) * Bits + i - e
    <3>1. j \in 0 .. Width - 1 /\ from = j - e /\ j \in Nat
      <4>1. l * Bits \in Nat /\ (d - 1) * Bits = l * Bits
        BY <1>1, <2>1
      <4> QED
        BY <4>1, WidthTypes
    <3>2. g[i] = IF from >= 0 THEN BitOf(x, from) * 2^i ELSE 0
      OBVIOUS
    <3>3. h[i] = b[j] * 2^i
      BY DEF DigitBits
    <3>4. b[j] = IF j >= e THEN BitOf(x, j - e) ELSE 0
      <4> HIDE DEF j
      <4> QED
        BY <3>1 DEF ShiftedBits
    <3>5. 2^i \in Nat
      BY PowerPositive
    <3> HIDE DEF from, j, g, h, b
    <3>6. CASE j >= e
      <4>1. from >= 0
        BY <3>1, <3>6
      <4> QED
        BY <3>1, <3>2, <3>3, <3>4, <3>6, <4>1
    <3>7. CASE ~ j >= e
      <4>1. ~ from >= 0
        BY <3>1, <3>7
      <4>2. g[i] = 0 /\ b[j] = 0
        BY <3>2, <3>4, <3>7, <4>1
      <4> QED
        BY <3>3, <3>5, <4>2
    <3> QED
      BY <3>6, <3>7
  <2>4. g = [i \in 0 .. Bits - 1 |-> g[i]] /\ h = [i \in 0 .. Bits - 1 |-> h[i]]
    BY DEF DigitBits
  <2> HIDE DEF g, h
  <2>5. g = h
    BY <2>3, <2>4
  <2> QED
    BY <2>2, <2>5 DEF h
<1>3. OfBits(y, b)
  <2>1. DOMAIN y = 1 .. Bytes /\ y = [d \in 1 .. Bytes |-> y[d]]
    BY DEF ShiftLeft
  <2> HIDE DEF y, b
  <2> QED
    BY <1>2, <2>1 DEF OfBits
<1>4. b \in BitString(Width)
  BY BitStringTypes
<1> QED
  BY <1>3, <1>4, BitsOfNumber

\* A one above the bits that stay: shifted, the number has more than Width bits.
LEMMA ShiftOverflows ==
    ASSUME NEW x \in Number, NEW e \in Nat, WouldOverflow(x, e)
    PROVE  LittleEndian(x) * 2^e >= 2^Width
<1>1. PICK i \in 0 .. Width - 1 : i >= Width - e /\ BitOf(x, i) = 1
  BY DEF WouldOverflow
<1> DEFINE b == BitsOf(x)
           v == LittleEndian(x)
           p == 2^i
           q == 2^e
<1>2. Width \in Nat /\ i \in Nat /\ Width <= i + e
  BY <1>1, WidthTypes
<1>3. b \in BitString(Width)
  BY BitStringTypes
<1>4. b[i] = 1
  BY <1>1 DEF BitsOf
<1>5. p \in Nat /\ q \in Nat /\ 2^(i + e) = p * q
  BY <1>2, PowerPositive, PowerAdds
<1>6. v = Total(BitTerms(b), Width)
  BY NumberIsItsBits DEF BitSum
<1> HIDE DEF b
<1>7. BitTerms(b)[i] = b[i] * 2^i /\ \A j \in 0 .. Width - 1 : BitTerms(b)[j] \in Nat
  BY <1>2, <1>3, BitSumTypes
<1>8. BitTerms(b)[i] <= Total(BitTerms(b), Width)
  BY <1>2, <1>7, TermBelowTotal
<1> HIDE DEF v, p, q
<1>9. b[i] * 2^i = p
  BY <1>4, <1>5 DEF p
<1>10. p <= v
  BY <1>6, <1>7, <1>8, <1>9
<1>11. v \in Nat
  <2>1. Bytes \in 0 .. Bytes
    BY SizeTypes
  <2> QED
    BY <2>1, LowUnfolds DEF v
<1>12. p * q <= v * q
  BY <1>5, <1>10, <1>11, ProductGrows
<1>13. 2^Width <= 2^(i + e)
  <2>1. i + e \in Nat
    BY <1>2
  <2> QED
    BY <1>2, <2>1, PowerGrows
<1>14. 2^Width \in Nat
  BY <1>2, PowerPositive
<1>15. v * q \in Nat /\ p * q \in Nat
  BY <1>5, <1>11
<1> DEFINE a == v * q
           c == p * q
           w == 2^Width
           z == 2^(i + e)
<1>16. c <= a /\ w <= z /\ z = c /\ a \in Nat /\ c \in Nat /\ w \in Nat
  BY <1>5, <1>12, <1>13, <1>14, <1>15
<1> HIDE DEF a, c, w, z
<1>17. a >= w
  BY <1>16
<1> QED
  BY <1>17 DEF a, w, v, q

\* Without one it is multiplied by 2^e.
LEMMA ShiftMultiplies ==
    ASSUME NEW x \in Number, NEW e \in Nat, ~ WouldOverflow(x, e)
    PROVE  LittleEndian(ShiftLeft(x, e)) = LittleEndian(x) * 2^e
<1> DEFINE b == BitsOf(x)
           c == ShiftedBits(x, e)
           f == BitTerms(b)
           g == BitTerms(c)
           q == 2^e
<1>1. Width \in Nat
  BY WidthTypes
<1>2. b \in BitString(Width) /\ c \in BitString(Width)
  BY BitStringTypes
<1>3. \A j \in 0 .. Width - 1 :
          /\ b[j] = BitOf(x, j) /\ c[j] = IF j >= e THEN BitOf(x, j - e) ELSE 0
          /\ b[j] \in {0, 1} /\ (j >= Width - e => b[j] = 0)
  <2>1. \A j \in 0 .. Width - 1 : BitOf(x, j) \in {0, 1}
    BY BitTypes
  <2> QED
    BY <2>1 DEF BitsOf, ShiftedBits, WouldOverflow
<1>4. LittleEndian(x) = Total(f, Width) /\ LittleEndian(ShiftLeft(x, e)) = Total(g, Width)
  BY NumberIsItsBits, ShiftIsItsBits DEF BitSum
<1> HIDE DEF b, c
<1>5. Terms(f, Width) /\ Terms(g, Width)
  BY <1>1, <1>2, BitSumTypes
<1>6. \A j \in 0 .. Width - 1 : f[j] = b[j] * 2^j /\ g[j] = c[j] * 2^j
  BY <1>1, <1>2, BitSumTypes
<1> HIDE DEF f, g, q
<1>7. q \in Nat
  BY PowerPositive DEF q
<1>8. \A j \in 0 .. Width - 1 : 2^j \in Nat /\ (b[j] = 0 => f[j] = 0) /\ (c[j] = 0 => g[j] = 0)
  <2> SUFFICES ASSUME NEW j \in 0 .. Width - 1
               PROVE  2^j \in Nat /\ (b[j] = 0 => f[j] = 0) /\ (c[j] = 0 => g[j] = 0)
    OBVIOUS
  <2>1. 2^j \in Nat
    <3>1. j \in Nat
      OBVIOUS
    <3> QED
      BY <3>1, PowerPositive
  <2> QED
    BY <1>6, <2>1
<1>9. CASE e > Width
  <2>1. \A j \in 0 .. Width - 1 : f[j] = 0 /\ g[j] = 0
    <3>1. \A j \in 0 .. Width - 1 : j >= Width - e /\ ~ j >= e
      BY <1>1, <1>9
    <3> QED
      BY <1>3, <1>8, <3>1
  <2>2. Total(f, Width) = 0 /\ Total(g, Width) = 0
    BY <1>1, <2>1, TotalOfZeros
  <2>3. 0 * q = 0
    BY <1>7
  <2> QED
    BY <1>4, <2>2, <2>3 DEF q
<1>10. CASE e <= Width
  <2> DEFINE m == Width - e
             kept == [i \in 0 .. m - 1 |-> f[i]]
             moved == [i \in 0 .. m - 1 |-> g[e + i]]
             lost == [i \in 0 .. e - 1 |-> f[m + i]]
  <2>1. m \in Nat /\ m + e = Width /\ e + m = Width
    BY <1>1, <1>10
  <2>2. Total(f, Width) = Total(f, m)
    <3>1. \A i \in 0 .. e - 1 : lost[i] = f[m + i]
      OBVIOUS
    <3>2. \A i \in 0 .. e - 1 : lost[i] = 0
      <4> SUFFICES ASSUME NEW i \in 0 .. e - 1 PROVE f[m + i] = 0
        OBVIOUS
      <4> DEFINE j == m + i
      <4>1. j \in 0 .. Width - 1 /\ j >= Width - e
        BY <1>1, <1>10
      <4> HIDE DEF j
      <4>2. f[j] = 0
        BY <1>3, <1>8, <4>1
      <4> QED
        BY <4>2 DEF j
    <3> HIDE DEF lost, m
    <3>3. Terms(f, m + e)
      BY <1>5, <2>1
    <3>4. Total(f, m + e) = Total(f, m) + Total(lost, e)
      BY <2>1, <3>1, <3>3, TotalSplits
    <3>5. Total(lost, e) = 0
      BY <3>2, TotalOfZeros
    <3>6. Total(f, m) \in Int
      <4>1. m \in 0 .. Width
        BY <1>1, <2>1
      <4> QED
        BY <1>1, <1>5, <4>1, TotalUnfolds
    <3> QED
      BY <2>1, <3>4, <3>5, <3>6
  <2>3. Total(g, Width) = Total(moved, m)
    <3>1. \A i \in 0 .. m - 1 : moved[i] = g[e + i]
      OBVIOUS
    <3>2. \A i \in 0 .. e - 1 : g[i] = 0
      <4> SUFFICES ASSUME NEW i \in 0 .. e - 1 PROVE g[i] = 0
        OBVIOUS
      <4>1. i \in 0 .. Width - 1 /\ ~ i >= e
        BY <1>1, <1>10
      <4> QED
        BY <1>3, <1>8, <4>1
    <3> HIDE DEF moved, m
    <3>3. Terms(g, e + m)
      BY <1>5, <2>1
    <3>4. Total(g, e + m) = Total(g, e) + Total(moved, m)
      BY <2>1, <3>1, <3>3, TotalSplits
    <3>5. Total(g, e) = 0
      BY <3>2, TotalOfZeros
    <3>6. Total(moved, m) \in Int
      <4>1. \A i \in 0 .. m - 1 : e + i \in 0 .. Width - 1
        BY <1>1, <2>1
      <4>2. Terms(moved, m)
        BY <1>5, <3>1, <4>1 DEF Terms
      <4>3. m \in 0 .. m
        BY <2>1
      <4> QED
        BY <2>1, <4>2, <4>3, TotalUnfolds
    <3> QED
      BY <2>1, <3>4, <3>5, <3>6
  <2>4. Total(moved, m) = Total(f, m) * q
    <3>1. \A i \in 0 .. m - 1 : moved[i] = f[i] * q
      <4> SUFFICES ASSUME NEW i \in 0 .. m - 1 PROVE moved[i] = f[i] * q
        OBVIOUS
      <4> DEFINE j == e + i
                 p == 2^i
                 u == b[i]
                 w == 2^j
      <4>1. j \in 0 .. Width - 1 /\ i \in 0 .. Width - 1 /\ j >= e /\ j - e = i /\ i \in Nat
        BY <1>1, <1>10
      <4>2. moved[i] = g[j]
        OBVIOUS
      <4>3. w = q * p /\ p \in Nat
        BY <4>1, PowerAdds, PowerPositive DEF q
      <4> HIDE DEF moved, j, m
      <4>4. c[j] = u
        BY <1>3, <4>1
      <4>5. g[j] = u * w /\ f[i] = u * p
        BY <1>6, <4>1, <4>4
      <4>6. u \in {0, 1}
        BY <1>3, <4>1
      <4> HIDE DEF p, u, w
      <4>7. u * (q * p) = (u * p) * q
        BY <1>7, <4>3, <4>6
      <4> QED
        BY <4>2, <4>3, <4>5, <4>7
    <3> HIDE DEF moved, m
    <3>2. Terms(f, m) /\ q \in Int
      <4>1. \A i \in 0 .. m - 1 : i \in 0 .. Width - 1
        BY <1>1, <2>1
      <4> QED
        BY <1>5, <1>7, <4>1 DEF Terms
    <3> QED
      BY <2>1, <3>1, <3>2, TotalOfMultiples
  <2> QED
    BY <1>4, <2>2, <2>3, <2>4 DEF q
<1> QED
  BY <1>1, <1>9, <1>10

\* A word of Mantissa digits, moved up by shift of them.
LEMMA DigitsAtValue ==
    ASSUME NEW word \in Nat, NEW shift \in Nat, word < 2^(Bits * Mantissa),
           shift + Mantissa <= Bytes
    PROVE  /\ DigitsAt(word, shift) \in Number
           /\ LittleEndian(DigitsAt(word, shift)) = word * 2^(Bits * shift)
<1> DEFINE y == DigitsAt(word, shift)
           f == DigitTerms(y)
           above == Bytes - (shift + Mantissa)
           g == [i \in 0 .. (Mantissa + above) - 1 |-> f[shift + i]]
           top == [i \in 0 .. above - 1 |-> g[Mantissa + i]]
           h == Places(word, Bits, Mantissa)
           w == 2^(Bits * shift)
<1>1. /\ Bytes \in Nat \ {0} /\ Bits \in Nat \ {0} /\ Mantissa \in Nat \ {0}
      /\ above \in Nat /\ shift + (Mantissa + above) = Bytes /\ Mantissa + above \in Nat
      /\ w \in Nat
  <2>1. Bytes \in Nat \ {0} /\ Bits \in Nat \ {0} /\ Mantissa \in Nat \ {0} /\ w \in Nat
    BY SizeTypes
  <2> HIDE DEF w
  <2>2. above \in Nat /\ shift + (Mantissa + above) = Bytes /\ Mantissa + above \in Nat
    BY <2>1
  <2> QED
    BY <2>1, <2>2
<1>2. y \in Number
  BY DigitsAtTypes
<1>3. Terms(f, Bytes) /\ LittleEndian(y) = Total(f, Bytes)
  BY <1>2, LowUnfolds DEF Low
<1>4. Terms(h, Mantissa) /\ Total(h, Mantissa) = word
  BY <1>1, PlacesAddUp
<1>5. ASSUME NEW i \in 0 .. Bytes - 1
      PROVE  f[i] = IF shift <= i /\ i < shift + Mantissa
                    THEN Place(word, Bits, i - shift) * 2^(Bits * i) ELSE 0
  <2> DEFINE d == i + 1
             p == 2^(Bits * i)
  <2>1. d \in 1 .. Bytes /\ d - shift - 1 = i - shift /\ i \in Nat
    BY <1>1
  <2>2. f[i] = y[d] * p
    BY DEF DigitTerms
  <2>3. y[d] = IF shift < d /\ d <= shift + Mantissa
               THEN (word \div 2^(Bits * (d - shift - 1))) % 2^Bits ELSE 0
    <3> HIDE DEF d
    <3> QED
      BY <2>1 DEF DigitsAt
  <2>4. p \in Nat
    BY <2>1, SizeTypes
  <2>5. (shift < d <=> shift <= i) /\ (d <= shift + Mantissa <=> i < shift + Mantissa)
    BY <1>1, <2>1
  <2>6. (word \div 2^(Bits * (d - shift - 1))) % 2^Bits = Place(word, Bits, i - shift)
    BY <2>1 DEF Place
  <2> HIDE DEF d, p, f, y
  <2>7. 0 * p = 0
    BY <2>4
  <2> QED
    BY <2>2, <2>3, <2>5, <2>6, <2>7 DEF p
<1>6. \A i \in 0 .. (Mantissa + above) - 1 : g[i] = f[shift + i]
  OBVIOUS
<1>7. \A i \in 0 .. above - 1 : top[i] = g[Mantissa + i]
  OBVIOUS
<1> HIDE DEF y, f, g, top, h, w, above
<1>8. Total(f, shift) = 0
  <2>1. \A i \in 0 .. shift - 1 : i \in 0 .. Bytes - 1 /\ ~ shift <= i
    BY <1>1
  <2>2. \A i \in 0 .. shift - 1 : f[i] = 0
    BY <1>5, <2>1
  <2> QED
    BY <2>2, TotalOfZeros
<1>9. Terms(g, Mantissa + above)
  <2>1. \A i \in 0 .. (Mantissa + above) - 1 : shift + i \in 0 .. Bytes - 1
    BY <1>1
  <2> QED
    BY <1>3, <1>6, <2>1 DEF Terms
<1>10. Total(f, Bytes) = Total(f, shift) + Total(g, Mantissa + above)
  <2>1. Terms(f, shift + (Mantissa + above))
    BY <1>1, <1>3
  <2>2. Total(f, shift + (Mantissa + above)) = Total(f, shift) + Total(g, Mantissa + above)
    BY <1>1, <1>6, <2>1, TotalSplits
  <2> QED
    BY <1>1, <2>2
<1>11. Total(g, Mantissa + above) = Total(g, Mantissa) + Total(top, above)
  BY <1>1, <1>7, <1>9, TotalSplits
<1>12. Total(top, above) = 0
  <2>1. ASSUME NEW i \in 0 .. above - 1 PROVE top[i] = 0
    <3> DEFINE j == shift + (Mantissa + i)
    <3>1. j \in 0 .. Bytes - 1 /\ ~ j < shift + Mantissa
      BY <1>1
    <3>2. Mantissa + i \in 0 .. (Mantissa + above) - 1
      BY <1>1
    <3>3. top[i] = f[j]
      BY <1>6, <1>7, <3>2
    <3> HIDE DEF j
    <3> QED
      BY <1>5, <3>1, <3>3
  <2> QED
    BY <1>1, <2>1, TotalOfZeros
<1>13. Total(g, Mantissa) = Total(h, Mantissa) * w
  <2>1. ASSUME NEW i \in 0 .. Mantissa - 1 PROVE g[i] = h[i] * w
    <3> DEFINE j == shift + i
               a == Place(word, Bits, i)
               p == 2^(Bits * i)
    <3>1. j \in 0 .. Bytes - 1 /\ shift <= j /\ j < shift + Mantissa /\ j - shift = i
          /\ i \in 0 .. (Mantissa + above) - 1 /\ i \in Nat
      BY <1>1
    <3>2. g[i] = f[j]
      BY <1>6, <3>1
    <3>3. 2^(Bits * j) = w * p /\ p \in Nat
      <4>1. Bits * j = Bits * shift + Bits * i /\ Bits * shift \in Nat /\ Bits * i \in Nat
        BY <1>1, <3>1
      <4> QED
        BY <4>1, PowerAdds, PowerPositive DEF w
    <3>4. h[i] = a * p
      BY DEF h, Places
    <3>5. a \in Int
      <4>1. a \in 0 .. 2^Bits - 1 /\ Bits \in Nat
        BY <1>1, <3>1, PlaceUnfolds
      <4> QED
        BY <4>1
    <3> HIDE DEF j
    <3>6. f[j] = a * 2^(Bits * j)
      BY <1>5, <3>1
    <3> HIDE DEF a, p
    <3>7. a * (w * p) = (a * p) * w
      BY <1>1, <3>3, <3>5
    <3> QED
      BY <3>2, <3>3, <3>4, <3>6, <3>7
  <2>2. Mantissa \in Nat /\ w \in Int
    BY <1>1
  <2> QED
    BY <1>4, <2>1, <2>2, TotalOfMultiples
<1>14. word * w \in Nat
  BY <1>1
<1>15. Total(f, Bytes) = word * w
  <2> DEFINE a == word * w
  <2>1. Total(g, Mantissa) = a /\ a \in Nat
    BY <1>4, <1>13, <1>14
  <2> HIDE DEF a
  <2>2. Total(f, Bytes) = 0 + (a + 0)
    BY <1>8, <1>10, <1>11, <1>12, <2>1
  <2> QED
    BY <2>1, <2>2 DEF a
<1> QED
  BY <1>2, <1>3, <1>15 DEF y, w

\* nBits is expanded to the number it stands for.
LEMMA BlockTargetValue ==
    ASSUME NEW bits, bits.size \in Nat, bits.word \in Nat,
           Word(bits) # 0, bits.size <= Bytes
    PROVE  /\ BlockTargetFromBits(bits) \in Number /\ BlockTargetFromBits(bits) # None
           /\ LittleEndian(BlockTargetFromBits(bits)) = Expanded(bits)
<1> DEFINE word == Word(bits)
           size == bits.size
           top == 2^(Bits * Mantissa)
<1>1. Bytes \in Nat \ {0} /\ Bits \in Nat \ {0} /\ Mantissa \in Nat \ {0} /\ Mantissa <= Bytes
  BY SizeTypes
<1>2. word \in Nat /\ word < top /\ top \in Nat
  <2>1. Mantissa * Bits - 1 \in Nat /\ Mantissa * Bits - 1 <= Bits * Mantissa
        /\ Bits * Mantissa \in Nat
    <3>1. Mantissa * Bits >= 1 * Bits /\ Mantissa * Bits = Bits * Mantissa
          /\ Mantissa * Bits \in Nat
      BY <1>1
    <3> DEFINE a == Mantissa * Bits
               b == Bits * Mantissa
    <3>2. a >= Bits /\ a = b /\ a \in Nat
      BY <1>1, <3>1
    <3> HIDE DEF a, b
    <3>3. a - 1 \in Nat /\ a - 1 <= b /\ b \in Nat
      BY <1>1, <3>2
    <3> QED
      BY <3>3 DEF a, b
  <2>2. SignBit <= top
    BY <2>1, PowerGrows DEF SignBit
  <2>3. SignBit \in Nat \ {0} /\ top \in Nat
    BY <2>1, PowerPositive DEF SignBit
  <2> DEFINE n == bits.word
  <2>4. n \in Nat /\ word = n % SignBit
    BY DEF Word
  <2> HIDE DEF n, word, top
  <2>5. word \in 0 .. SignBit - 1
    BY <2>3, <2>4
  <2> QED
    BY <2>2, <2>3, <2>5
<1>0. ~ (Word(bits) = 0 \/ bits.size > Bytes)
  BY <1>1
<1>3. ASSUME size <= Mantissa
      PROVE  /\ BlockTargetFromBits(bits) \in Number
             /\ LittleEndian(BlockTargetFromBits(bits)) = Expanded(bits)
  <2> DEFINE p == 2^(Bits * (Mantissa - size))
             v == word \div p
  <2>1. p \in Nat \ {0}
    <3>1. Mantissa - size \in Nat
      BY <1>1, <1>3
    <3> QED
      BY <3>1, SizeTypes
  <2>2. BlockTargetFromBits(bits) = DigitsAt(v, 0)
    BY <1>0, <1>3 DEF BlockTargetFromBits
  <2>3. Expanded(bits) = IF size < Mantissa THEN v
                         ELSE word * 2^(Bits * (size - Mantissa))
    BY DEF Expanded
  <2>4. v \in Nat /\ v <= word
    <3> HIDE DEF p, word
    <3>1. v \in Nat /\ p * v <= word
      BY <1>2, <2>1, Quotient
    <3> HIDE DEF v
    <3>2. p * v >= 1 * v /\ p * v \in Nat
      BY <2>1, <3>1
    <3> DEFINE a == p * v
    <3>3. a >= v /\ a <= word /\ a \in Nat
      BY <3>1, <3>2
    <3> HIDE DEF a
    <3> QED
      BY <1>2, <3>1, <3>3
  <2>5. Bits * 0 = 0
    BY <1>1
  <2>6. 2^(Bits * 0) = 1
    BY <2>5, PowerOfZero
  <2>7. size = Mantissa => Expanded(bits) = v
    <3> SUFFICES ASSUME size = Mantissa PROVE Expanded(bits) = v
      OBVIOUS
    <3>1. Mantissa - size = 0 /\ size - Mantissa = 0 /\ ~ size < Mantissa
      BY <1>1
    <3>2. p = 1 /\ Expanded(bits) = word * 2^(Bits * 0)
      BY <2>3, <2>6, <3>1
    <3>3. Expanded(bits) = word * 1
      BY <2>6, <3>2
    <3> HIDE DEF p, word
    <3>4. word \div p = word /\ word * 1 = word
      BY <1>2, <3>2
    <3> QED
      BY <3>3, <3>4
  <2> HIDE DEF v, word, size, p
  <2>8. Expanded(bits) = v
    <3>1. size < Mantissa \/ size = Mantissa
      BY <1>1, <1>3 DEF size
    <3> QED
      BY <2>3, <2>7, <3>1
  <2>9. v < 2^(Bits * Mantissa) /\ 0 + Mantissa <= Bytes /\ 0 \in Nat
    <3>1. v < top
      <4> HIDE DEF top
      <4> QED
        BY <1>2, <2>4
    <3> QED
      BY <1>1, <3>1
  <2>10. /\ DigitsAt(v, 0) \in Number
         /\ LittleEndian(DigitsAt(v, 0)) = v * 2^(Bits * 0)
    BY <2>4, <2>9, DigitsAtValue
  <2>11. v * 2^(Bits * 0) = v
    BY <2>4, <2>6
  <2> QED
    BY <2>2, <2>8, <2>10, <2>11
<1>4. ASSUME ~ size <= Mantissa
      PROVE  /\ BlockTargetFromBits(bits) \in Number
             /\ LittleEndian(BlockTargetFromBits(bits)) = Expanded(bits)
  <2> DEFINE s == size - Mantissa
  <2>1. s \in Nat /\ s + Mantissa <= Bytes
    BY <1>1, <1>4
  <2>2. BlockTargetFromBits(bits) = DigitsAt(word, s)
    BY <1>0, <1>4 DEF BlockTargetFromBits
  <2>3. ~ size < Mantissa
    BY <1>1, <1>4
  <2>4. Expanded(bits) = word * 2^(Bits * s)
    BY <2>3 DEF Expanded
  <2> HIDE DEF s, word
  <2>5. word < 2^(Bits * Mantissa)
    BY <1>2
  <2>6. /\ DigitsAt(word, s) \in Number
        /\ LittleEndian(DigitsAt(word, s)) = word * 2^(Bits * s)
    BY <1>2, <2>1, <2>5, DigitsAtValue
  <2> QED
    BY <2>2, <2>4, <2>6
<1>5. ASSUME NEW y \in Number PROVE y # None
  <2>1. 1 \in 1 .. Bytes /\ DOMAIN y = 1 .. Bytes
    BY <1>1 DEF Number
  <2>2. DOMAIN y # {}
    BY <2>1
  <2>3. y # <<>>
    BY <2>2
  <2> QED
    BY <2>3 DEF None
<1> QED
  BY <1>3, <1>4, <1>5

LEMMA MaxNumberIsLargest ==
    ASSUME NEW x \in Number
    PROVE  MaxNumber \in Number /\ LittleEndian(x) <= LittleEndian(MaxNumber)
<1> DEFINE R == {k \in 0 .. Bytes : Low(x, k) <= Low(MaxNumber, k)}
           d == 2^Bits
<1>1. Bytes \in Nat /\ d \in Nat \ {0}
  BY SizeTypes
<1>2. MaxNumber \in Number /\ \A i \in 1 .. Bytes : MaxNumber[i] = d - 1
  <2>1. MaxNumber = [i \in 1 .. Bytes |-> d - 1] /\ Digit = 0 .. d - 1
    BY DEF MaxNumber, Digit
  <2> HIDE DEF d
  <2>2. d - 1 \in Digit
    BY <1>1, <2>1
  <2> QED
    BY <2>1, <2>2 DEF Number
<1>3. 0 \in R
  BY <1>1, <1>2, LowUnfolds
<1>4. ASSUME NEW k \in 1 .. Bytes, k - 1 \in R PROVE k \in R
  <2> DEFINE p == 2^(Bits * (k - 1))
             u == x[k]
             v == MaxNumber[k]
  <2>1. /\ Low(x, k) = Low(x, k - 1) + u * p
        /\ Low(MaxNumber, k) = Low(MaxNumber, k - 1) + v * p
        /\ u \in 0 .. d - 1
    BY <1>2, LowUnfolds
  <2>2. Low(x, k - 1) <= Low(MaxNumber, k - 1)
    BY <1>4
  <2>3. Low(x, k - 1) \in Nat /\ Low(MaxNumber, k - 1) \in Nat
    <3>1. k - 1 \in 0 .. Bytes
      BY <1>1
    <3> QED
      BY <1>2, <3>1, LowUnfolds
  <2>4. p \in Nat
    <3>1. k - 1 \in Nat
      OBVIOUS
    <3> QED
      BY <3>1, SizeTypes
  <2>5. v = d - 1
    BY <1>2
  <2> HIDE DEF p, u, v, d
  <2>6. u \in Nat /\ v \in Nat /\ u <= v
    BY <1>1, <2>1, <2>5
  <2>7. u * p \in Nat /\ v * p \in Nat /\ u * p <= v * p
    BY <2>4, <2>6, ProductGrows
  <2>8. Low(x, k) <= Low(MaxNumber, k)
    BY <2>1, <2>2, <2>3, <2>7
  <2> QED
    BY <2>8
<1>5. 0 .. Bytes \subseteq R
  <2> HIDE DEF R
  <2> QED
    BY <1>1, <1>3, <1>4, InductionOverTurns
<1>6. Bytes \in 0 .. Bytes
  BY <1>1
<1> QED
  BY <1>2, <1>5, <1>6, LowUnfolds

\* Sigma passes unless it is above 2^e times the target and that is a number.
LEMMA GateDecides ==
    ASSUME NEW x \in Number, NEW sigma \in Number, NEW e \in Nat
    PROVE  SigmaBelowPreHashTarget(sigma, PreHashTargetShift(x, e)) <=>
               ~ (/\ LittleEndian(Reverse(sigma)) > LittleEndian(x) * 2^e
                  /\ LittleEndian(x) * 2^e < 2^Width)
<1> DEFINE scaled == LittleEndian(x) * 2^e
           s == LittleEndian(Reverse(sigma))
           limit == 2^Width
<1>1. /\ Bytes \in 0 .. Bytes /\ Width = Bits * Bytes /\ Width \in Nat
      /\ Reverse(sigma) \in Number /\ Reverse(Reverse(sigma)) = sigma
  BY SizeTypes, WidthTypes, ReverseDigits
<1>2. \A y \in Number : LittleEndian(y) \in Nat /\ LittleEndian(y) < 2^Width
  <2> SUFFICES ASSUME NEW y \in Number
               PROVE  LittleEndian(y) \in Nat /\ LittleEndian(y) < 2^Width
    OBVIOUS
  <2> DEFINE w == 2^(Bits * Bytes)
             v == LittleEndian(y)
  <2>1. v \in 0 .. w - 1 /\ w \in Nat
    BY <1>1, LowUnfolds, LowBounded, SizeTypes
  <2>2. w = 2^Width
    BY <1>1
  <2> HIDE DEF w, v
  <2>3. v \in Nat /\ v < w
    BY <2>1
  <2> QED
    BY <2>2, <2>3 DEF v
<1>3. ASSUME NEW y \in Number
      PROVE  SigmaBelowPreHashTarget(sigma, y) <=> s <= LittleEndian(y)
  BY <1>1, OrderOfNumbers DEF SigmaBelowPreHashTarget
<1>4. s \in Nat /\ limit \in Nat /\ scaled \in Nat
  <2> DEFINE a == LittleEndian(x)
             b == 2^e
  <2>1. a \in Nat /\ b \in Nat /\ scaled = a * b
    BY <1>2, PowerPositive
  <2> HIDE DEF a, b, scaled
  <2> QED
    BY <1>1, <1>2, <2>1, PowerPositive
<1>5. CASE WouldOverflow(x, e)
  <2>1. scaled >= limit
    BY <1>5, ShiftOverflows
  <2>2. PreHashTargetShift(x, e) = MaxNumber
    BY <1>5 DEF PreHashTargetShift
  <2>3. SigmaBelowPreHashTarget(sigma, MaxNumber)
    BY <1>1, <1>3, MaxNumberIsLargest
  <2> HIDE DEF scaled, limit, s
  <2>4. ~ scaled < limit
    BY <1>4, <2>1
  <2> QED
    BY <2>2, <2>3, <2>4 DEF scaled, limit
<1>6. CASE ~ WouldOverflow(x, e)
  <2> DEFINE y == ShiftLeft(x, e)
  <2>1. y \in Number /\ LittleEndian(y) = scaled
    BY <1>6, ShiftIsItsBits, ShiftMultiplies
  <2>2. PreHashTargetShift(x, e) = y
    BY <1>6 DEF PreHashTargetShift
  <2> HIDE DEF y
  <2>3. scaled < limit
    BY <1>2, <2>1
  <2>4. SigmaBelowPreHashTarget(sigma, y) <=> s <= scaled
    BY <1>3, <2>1
  <2> HIDE DEF scaled, limit, s
  <2>5. s <= scaled <=> ~ s > scaled
    BY <1>4
  <2> QED
    BY <2>2, <2>3, <2>4, <2>5 DEF scaled, limit, s
<1> QED
  BY <1>5, <1>6

\* From the nBits of the notify on, a nonce passes the CPU gate exactly if sigma is
\* at most 2^epsilon times the target or the largest number there is.
THEOREM GateComparesNumbers == PowSpec => []GateScalesTheTarget
<1>1. TrialInv => GateScalesTheTarget
  <2> SUFFICES ASSUME TrialInv, cpu.at # "new", job.epsilon > 0,
                      job.bits # None, Word(job.bits) # 0, job.bits.size <= Bytes
               PROVE  (cpu.at = "rejected" /\ cpu.words = <<>>) <=>
                          /\ LittleEndian(Reverse(draw.sigma[SeedsOf(job)])) >
                                 Expanded(job.bits) * 2^job.epsilon
                          /\ Expanded(job.bits) * 2^job.epsilon < 2^Width
    BY DEF GateScalesTheTarget
  <2> DEFINE sigma == draw.sigma[SeedsOf(job)]
             x == BlockTargetFromBits(job.bits)
             e == job.epsilon
  <2>1. TrialTypes /\ CpuVerdict
    BY DEF TrialInv
  <2>2. job.bits.size \in Nat /\ job.bits.word \in Nat /\ e \in Nat /\ job.block = x
    BY <2>1, TrialParts
  <2>3. sigma \in Number
    <3>1. SeedsOf(job) \in SeedKinds
      BY <2>1, TrialParts DEF SeedsOf, SeedKinds
    <3> QED
      BY <2>1, <3>1, TrialParts
  <2>4. x \in Number /\ x # None /\ LittleEndian(x) = Expanded(job.bits)
    BY <2>2, BlockTargetValue
  <2>5. CpuGatePasses <=> SigmaBelowPreHashTarget(sigma, PreHashTargetShift(x, e))
    BY <2>2, <2>4 DEF CpuGatePasses
  <2>6. (cpu.at = "rejected" /\ cpu.words = <<>>) <=> ~ CpuGatePasses
    <3>1. cpu.at \in {"gated", "hit", "rejected"}
      BY <2>1 DEF TrialTypes, TrialStages
    <3> QED
      BY <2>1, <3>1 DEF CpuVerdict
  <2> HIDE DEF sigma, x, e
  <2>7. SigmaBelowPreHashTarget(sigma, PreHashTargetShift(x, e)) <=>
            ~ (/\ LittleEndian(Reverse(sigma)) > LittleEndian(x) * 2^e
               /\ LittleEndian(x) * 2^e < 2^Width)
    BY <2>2, <2>3, <2>4, GateDecides
  <2> QED
    BY <2>4, <2>5, <2>6, <2>7 DEF sigma, e
<1> QED
  BY <1>1, TrialInvariant, PTL

\* For a job of a pool with the median time, or below the V2 height without a zero
\* word, no hit of the kernels is thrown away and no share is missed, but for those
\* that are gated by the share target in want of a block target.
THEOREM NoHitIsThrownAway ==
    ASSUME BatchedShapesFit, LegacyShapesFit
    PROVE  PowSpec => []BothAcceptTheSame
<1>1. TrialInv => BothAcceptTheSame
  <2> SUFFICES ASSUME TrialInv, Done(cpu), Done(gpu), PoolJob,
                      job.height = "v1" => \A p \in WordIndex(draw.shape) : Exact[p] # 0,
                      job.height # "v1" => job.mtp
               PROVE  gpu.at = "hit" <=> cpu.at = "hit" /\ ~GatedByTheShare
    BY DEF BothAcceptTheSame
  <2>1. TrialTypes /\ CpuVerdict /\ GpuVerdict
    BY DEF TrialInv
  <2>2. /\ draw.shape \in Shape /\ Drawn(draw.shape, CpuDraws(draw.oracles))
        /\ GpuDraws(draw.oracles) = CpuDraws(draw.oracles)
    BY <2>1, TrialDraws
  <2>3. CpuResult = Exact
    BY <2>2, CpuWordsExact DEF CpuResult, Exact
  <2>4. GpuResult = Exact
    <3>1. CASE job.height = "v1"
      <4>1. FitsFactored(draw.shape)
        BY <2>1, <3>1 DEF LegacyShapesFit, TrialTypes, TriedBy, StratumJobToPowJob
      <4>2. LegacyWords(draw.shape, CpuDraws(draw.oracles)) = Exact
        BY <2>2, <3>1, <4>1, LegacyWordsEqual DEF Exact
      <4> QED
        BY <2>2, <3>1, <4>2 DEF GpuResult
    <3>2. CASE job.height # "v1"
      BY <2>1, <3>2, GpuResultExact
    <3> QED
      BY <3>1, <3>2
  <2>5. GateSeedsOf(job) = SeedsOf(job) /\ SeedsOf(job) \in SeedKinds
        /\ (job.height = "v1" => SeedsOf(job) = "job")
    BY <2>1, TrialParts DEF GateSeedsOf, SeedsOf, SeedKinds
  <2>6. /\ job.block # None =>
             job.block \in Number /\ LittleEndian(job.block) <= LittleEndian(job.share)
        /\ job.share \in Number /\ job.epsilon \in Nat
        /\ draw.sigma[SeedsOf(job)] \in Number
    BY <2>1, <2>5, TrialParts, BlockTargetTypes DEF PoolJob
  <2>7. GpuGatePasses <=> CpuGatePasses /\ ~GatedByTheShare
    <3>1. CASE job.block # None
      <4>1. GpuGatePasses <=> CpuGatePasses
        BY <2>5, <2>6, <3>1 DEF GpuGatePasses, GatePasses, CpuGatePasses
      <4> QED
        BY <3>1, <4>1 DEF GatedByTheShare
    <3>2. CASE job.block = None
      <4> DEFINE sigma == draw.sigma[SeedsOf(job)]
                 x == job.share
                 e == job.epsilon
                 above == /\ LittleEndian(Reverse(sigma)) > LittleEndian(x) * 2^e
                          /\ LittleEndian(x) * 2^e < 2^Width
      <4>1. SigmaBelowPreHashTarget(sigma, PreHashTargetShift(x, e)) <=> ~above
        BY <2>6, GateDecides
      <4>2. CpuGatePasses
        BY <3>2 DEF CpuGatePasses
      <4>3. GatedByTheShare <=> e > 0 /\ above
        BY <3>2 DEF GatedByTheShare
      <4>4. GpuGatePasses <=>
                e = 0 \/ SigmaBelowPreHashTarget(sigma, PreHashTargetShift(x, e))
        BY <2>5, <3>2 DEF GpuGatePasses, GatePasses
      <4>5. e > 0 <=> ~(e = 0)
        BY <2>6
      <4> HIDE DEF sigma, x, e, above
      <4> QED
        BY <4>1, <4>2, <4>3, <4>4, <4>5
    <3> QED
      BY <3>1, <3>2
  <2> DEFINE d == draw.digest[SeedsOf(job)]
  <2>8. DigestOf(SeedsOf(job), Exact) = d /\ d \in Number
    BY <2>1, <2>5, TrialParts DEF DigestOf
  <2> HIDE DEF d
  <2>9. CpuMeetsTarget <=> DigestMeetsTarget(d, job.share)
    BY <2>3, <2>8 DEF CpuMeetsTarget
  <2>10. GpuMeetsTarget <=> DigestMeetsTarget(d, job.share)
    <3>1. CASE job.height = "v1"
      BY <2>4, <2>5, <2>8, <3>1 DEF GpuMeetsTarget
    <3>2. CASE job.height # "v1"
      <4> DEFINE first == IF job.block # None THEN job.block ELSE job.share
      <4>1. GpuMeetsTarget <=> DigestMeetsTarget(d, first) \/ DigestMeetsTarget(d, job.share)
        BY <2>4, <2>5, <2>8, <3>2 DEF GpuMeetsTarget, MeetsATarget
      <4>2. DigestMeetsTarget(d, first) => DigestMeetsTarget(d, job.share)
        BY <2>6, <2>8, TargetsAreOrdered
      <4> QED
        BY <4>1, <4>2
    <3> QED
      BY <3>1, <3>2
  <2>11. cpu.at \in {"hit", "rejected"} /\ gpu.at \in {"hit", "rejected"}
    BY DEF Done
  <2>12. cpu.at = "hit" <=> CpuGatePasses /\ CpuMeetsTarget
    BY <2>1, <2>11 DEF CpuVerdict
  <2>13. gpu.at = "hit" <=> GpuGatePasses /\ GpuMeetsTarget
    BY <2>1, <2>11 DEF GpuVerdict
  <2> QED
    BY <2>7, <2>9, <2>10, <2>11, <2>12, <2>13
<1> QED
  BY <1>1, TrialInvariant, PTL
=============================================================================
