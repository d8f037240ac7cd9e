--------------------------- MODULE NaturalLemmas ---------------------------
(***************************************************************************)
(* What the proofs of several components need of natural numbers:          *)
(* induction, stated for a set, functions that are defined by recursion    *)
(* over an interval, powers of two, and quotients.                         *)
(***************************************************************************)
EXTENDS Integers, FiniteSetTheorems, FunctionTheorems, WellFoundedInduction, TLAPS

-----------------------------------------------------------------------------
(* Induction, and functions defined by recursion over an interval *)

Below == {ss \in Nat \X Nat : ss[1] < ss[2]}

LEMMA LeastNatural ==
    ASSUME NEW T \in SUBSET Nat, T # {}
    PROVE  \E x \in T : \A y \in T : x <= y
<1>1. IsWellFoundedOn(Below, Nat)
  BY NatLessThanWellFounded DEF OpToRel, Below
<1>2. PICK x \in T : \A y \in T : <<y, x>> \notin Below
  BY <1>1, WFMin
<1>3. \A y \in T : ~(y < x)
  BY <1>2 DEF Below
<1> QED
  BY <1>3

LEMMA InductionOverNat ==
    ASSUME NEW S, 0 \in S, \A n \in Nat : n \in S => n + 1 \in S
    PROVE  Nat \subseteq S
<1> SUFFICES ASSUME Nat \ S # {} PROVE FALSE
  OBVIOUS
<1>1. PICK x \in Nat \ S : \A y \in Nat \ S : x <= y
  BY LeastNatural
<1>2. x - 1 \in Nat /\ x - 1 \in S
  BY <1>1
<1>3. (x - 1) + 1 \in S
  BY <1>2
<1> QED
  BY <1>1, <1>2, <1>3

\* Iterating a step, which may depend on the number of the turn, gives a value
\* for every turn.
Iterates(f, n, first, step) ==
    f = [k \in 0 .. n |-> IF k = 0 THEN first ELSE step[k][f[k - 1]]]

LEMMA IterationExists ==
    ASSUME NEW n \in Nat, NEW S, NEW first \in S, NEW step \in [1 .. n -> [S -> S]]
    PROVE  \E f \in [0 .. n -> S] : Iterates(f, n, first, step)
<1> DEFINE Reaches(m) == \E f \in [0 .. m -> S] : Iterates(f, m, first, step)
           R == {m \in Nat : m <= n => Reaches(m)}
<1>1. 0 \in R
  <2> DEFINE f == [k \in 0 .. 0 |-> first]
  <2>1. f \in [0 .. 0 -> S] /\ Iterates(f, 0, first, step)
    BY DEF Iterates
  <2> QED
    BY <2>1
<1>2. ASSUME NEW m \in Nat, m \in R PROVE m + 1 \in R
  <2> SUFFICES ASSUME m + 1 <= n PROVE Reaches(m + 1)
    OBVIOUS
  <2>1. PICK f \in [0 .. m -> S] : Iterates(f, m, first, step)
    BY <1>2
  <2> DEFINE g == [k \in 0 .. m + 1 |-> IF k = m + 1 THEN step[m + 1][f[m]] ELSE f[k]]
  <2>2. step[m + 1] \in [S -> S] /\ f[m] \in S
    BY <1>2
  <2>3. g \in [0 .. m + 1 -> S]
    BY <2>2
  <2>4. \A k \in 0 .. m + 1 : g[k] = IF k = 0 THEN first ELSE step[k][g[k - 1]]
    <3> SUFFICES ASSUME NEW k \in 0 .. m + 1
                 PROVE  g[k] = IF k = 0 THEN first ELSE step[k][g[k - 1]]
      OBVIOUS
    <3>1. CASE k = m + 1
      BY <1>2, <3>1
    <3>2. CASE k # m + 1
      <4>1. k \in 0 .. m /\ g[k] = f[k]
        BY <1>2, <3>2
      <4>2. f[k] = IF k = 0 THEN first ELSE step[k][f[k - 1]]
        BY <2>1, <4>1 DEF Iterates
      <4>3. k # 0 => k - 1 \in 0 .. m /\ g[k - 1] = f[k - 1]
        BY <1>2, <4>1
      <4> QED
        BY <4>1, <4>2, <4>3
    <3> QED
      BY <3>1, <3>2
  <2> HIDE DEF g
  <2>5. Iterates(g, m + 1, first, step)
    BY <2>3, <2>4 DEF Iterates
  <2> QED
    BY <2>3, <2>5
<1>3. n \in R
  BY <1>1, <1>2, InductionOverNat
<1> QED
  BY <1>3

LEMMA InductionOverTurns ==
    ASSUME NEW n \in Nat, NEW S, 0 \in S, \A k \in 1 .. n : k - 1 \in S => k \in S
    PROVE  0 .. n \subseteq S
<1> DEFINE R == {k \in Nat : k <= n => k \in S}
<1>1. 0 \in R
  OBVIOUS
<1>2. ASSUME NEW k \in Nat, k \in R PROVE k + 1 \in R
  <2>1. CASE k + 1 <= n
    <3>1. k + 1 \in 1 .. n /\ (k + 1) - 1 = k /\ k \in S
      BY <1>2, <2>1
    <3> QED
      BY <3>1
  <2> QED
    BY <2>1
<1>3. Nat \subseteq R
  BY <1>1, <1>2, InductionOverNat
<1> QED
  BY <1>3

LEMMA ShorterIterationExists ==
    ASSUME NEW n \in Nat, NEW S, NEW first \in S, NEW step \in [1 .. n -> [S -> S]],
           NEW m \in 0 .. n
    PROVE  \E f \in [0 .. m -> S] : Iterates(f, m, first, step)
<1> DEFINE part == [k \in 1 .. m |-> step[k]]
<1>1. part \in [1 .. m -> [S -> S]] /\ m \in Nat
  OBVIOUS
<1> HIDE DEF part
<1>2. PICK f \in [0 .. m -> S] : Iterates(f, m, first, part)
  BY <1>1, IterationExists
<1>3. \A k \in 0 .. m : f[k] = IF k = 0 THEN first ELSE part[k][f[k - 1]]
  BY <1>2 DEF Iterates
<1>4. \A k \in 0 .. m : k # 0 => part[k] = step[k]
  BY DEF part
<1>5. f = [k \in 0 .. m |-> IF k = 0 THEN first ELSE step[k][f[k - 1]]]
  BY <1>3, <1>4
<1> QED
  BY <1>5 DEF Iterates

\* A function h over 0 .. n that is first at 0 and, as long as its values are in
\* S, goes on by step.
Solves(h, n, S, first, step) ==
    /\ h[0] = first
    /\ \A i \in 1 .. n : h[i - 1] \in S => h[i] = step[i][h[i - 1]]

LEMMA SolutionTypes ==
    ASSUME NEW n \in Nat, NEW S, NEW first \in S, NEW step \in [1 .. n -> [S -> S]],
           NEW h, Solves(h, n, S, first, step)
    PROVE  \A i \in 0 .. n : h[i] \in S
<1> DEFINE R == {i \in 0 .. n : h[i] \in S}
<1>1. 0 \in R
  BY DEF Solves
<1>2. ASSUME NEW k \in 1 .. n, k - 1 \in R PROVE k \in R
  <2>1. h[k] = step[k][h[k - 1]] /\ h[k - 1] \in S /\ step[k] \in [S -> S]
    BY <1>2 DEF Solves
  <2> QED
    BY <2>1
<1> HIDE DEF R
<1>3. 0 .. n \subseteq R
  BY <1>1, <1>2, InductionOverTurns
<1> QED
  BY <1>3 DEF R

\* The value at the end goes on from that of the recursion that ends before.
LEMMA SolutionUnfolds ==
    ASSUME NEW n \in Nat \ {0}, NEW S, NEW first \in S, NEW step \in [1 .. n -> [S -> S]],
           NEW h, Solves(h, n, S, first, step), NEW g, Solves(g, n - 1, S, first, step)
    PROVE  g[n - 1] \in S /\ h[n] = step[n][g[n - 1]] /\ h[n] \in S
<1> DEFINE R == {i \in 0 .. n - 1 : h[i] = g[i]}
<1>1. \A i \in 0 .. n : h[i] \in S
  BY SolutionTypes
<1>2. 0 \in R
  BY DEF Solves
<1>3. ASSUME NEW k \in 1 .. n - 1, k - 1 \in R PROVE k \in R
  <2>1. h[k - 1] = g[k - 1] /\ h[k - 1] \in S /\ k \in 1 .. n
    BY <1>1, <1>3
  <2>2. h[k] = step[k][h[k - 1]] /\ g[k] = step[k][g[k - 1]]
    BY <1>3, <2>1 DEF Solves
  <2> QED
    BY <2>1, <2>2
<1> HIDE DEF R
<1>4. 0 .. n - 1 \subseteq R
  <2>1. n - 1 \in Nat
    OBVIOUS
  <2> QED
    BY <1>2, <1>3, <2>1, InductionOverTurns
<1>5. h[n - 1] = g[n - 1] /\ h[n - 1] \in S
  BY <1>1, <1>4 DEF R
<1> QED
  BY <1>1, <1>5 DEF Solves

\* The values at the end of recursions of every length are a recursion.
LEMMA RecursionUnfolds ==
    ASSUME NEW n \in Nat, NEW S, NEW first \in S, NEW step \in [1 .. n -> [S -> S]],
           NEW value,
           \A m \in 0 .. n : \E h : Solves(h, m, S, first, step) /\ value[m] = h[m]
    PROVE  /\ value[0] = first
           /\ \A k \in 0 .. n : value[k] \in S
           /\ \A k \in 1 .. n : value[k] = step[k][value[k - 1]]
<1>1. value[0] = first
  BY DEF Solves
<1>2. ASSUME NEW k \in 1 .. n
      PROVE  value[k - 1] \in S /\ value[k] \in S /\ value[k] = step[k][value[k - 1]]
  <2> DEFINE part == [i \in 1 .. k |-> step[i]]
  <2>1. /\ k \in Nat \ {0} /\ k \in 0 .. n /\ k - 1 \in 0 .. n
        /\ part \in [1 .. k -> [S -> S]] /\ part[k] = step[k]
        /\ \A i \in 1 .. k : part[i] = step[i]
    OBVIOUS
  <2> HIDE DEF part
  <2>2. PICK h : Solves(h, k, S, first, step) /\ value[k] = h[k]
    BY <2>1
  <2>3. PICK g : Solves(g, k - 1, S, first, step) /\ value[k - 1] = g[k - 1]
    BY <2>1
  <2>4. Solves(h, k, S, first, part) /\ Solves(g, k - 1, S, first, part)
    BY <2>1, <2>2, <2>3 DEF Solves
  <2>5. g[k - 1] \in S /\ h[k] = part[k][g[k - 1]] /\ h[k] \in S
    BY <2>1, <2>4, SolutionUnfolds
  <2> QED
    BY <2>1, <2>2, <2>3, <2>5
<1> QED
  BY <1>1, <1>2

-----------------------------------------------------------------------------
(* Powers of two: 2^n is counted as the subsets of an n-element set. *)

LEMMA SubsetsOfInterval ==
    ASSUME NEW n \in Nat
    PROVE  /\ IsFiniteSet(SUBSET (1 .. n))
           /\ Cardinality(SUBSET (1 .. n)) = 2^n /\ 2^n \in Nat
<1>1. IsFiniteSet(1 .. n) /\ Cardinality(1 .. n) = n
  BY FS_Interval
<1> QED
  BY <1>1, FS_SUBSET, FS_CardinalityType

LEMMA PowerDoubles ==
    ASSUME NEW n \in Nat
    PROVE  2^n \in Nat /\ 2^(n + 1) = 2 * 2^n
<1> DEFINE A == SUBSET (1 .. n)
           B == {T \cup {n + 1} : T \in A}
           f == [T \in A |-> T \cup {n + 1}]
<1>1. IsFiniteSet(A) /\ Cardinality(A) = 2^n /\ 2^n \in Nat
  BY SubsetsOfInterval
<1>2. f \in Bijection(A, B)
  <2>1. f \in [A -> B]
    OBVIOUS
  <2>2. \A S, T \in A : f[S] = f[T] => S = T
    <3> SUFFICES ASSUME NEW S \in A, NEW T \in A, S \cup {n + 1} = T \cup {n + 1}
                 PROVE  S = T
      OBVIOUS
    <3>1. n + 1 \notin S /\ n + 1 \notin T
      OBVIOUS
    <3> QED
      BY <3>1
  <2>3. \A b \in B : \E T \in A : f[T] = b
    OBVIOUS
  <2> QED
    BY <2>1, <2>2, <2>3, Fun_IsBij
<1>3. IsFiniteSet(B) /\ Cardinality(B) = 2^n
  BY <1>1, <1>2, FS_Bijection DEF ExistsBijection
<1>4. A \cap B = {}
  <2>1. n + 1 \notin 1 .. n
    OBVIOUS
  <2> QED
    BY <2>1
<1>5. A \cup B = SUBSET (1 .. (n + 1))
  <2>1. 1 .. (n + 1) = (1 .. n) \cup {n + 1}
    OBVIOUS
  <2>2. ASSUME NEW S \in SUBSET (1 .. (n + 1)) PROVE S \in A \cup B
    <3>1. CASE n + 1 \in S
      <4>1. S = (S \ {n + 1}) \cup {n + 1} /\ S \ {n + 1} \in A
        BY <2>1, <3>1
      <4> QED
        BY <4>1
    <3>2. CASE n + 1 \notin S
      BY <2>1, <3>2
    <3> QED
      BY <3>1, <3>2
  <2>3. ASSUME NEW S \in A \cup B PROVE S \in SUBSET (1 .. (n + 1))
    BY <2>1
  <2> HIDE DEF A, B
  <2> QED
    BY <2>2, <2>3
<1>6. Cardinality(A \cup B) = 2^n + 2^n
  <2>1. Cardinality({}) = 0
    BY FS_EmptySet
  <2> HIDE DEF A, B
  <2>2. Cardinality(A \cup B) = 2^n + 2^n - 0
    BY <1>1, <1>3, <1>4, <2>1, FS_Union
  <2> QED
    BY <1>1, <2>2
<1>7. Cardinality(A \cup B) = 2^(n + 1)
  <2>1. n + 1 \in Nat
    OBVIOUS
  <2> HIDE DEF A, B
  <2> QED
    BY <1>5, <2>1, SubsetsOfInterval
<1> QED
  BY <1>1, <1>6, <1>7

LEMMA PowerPositive == \A n \in Nat : 2^n \in Nat \ {0}
<1> SUFFICES ASSUME NEW n \in Nat PROVE 2^n \in Nat \ {0}
  OBVIOUS
<1>1. SUBSET (1 .. n) # {}
  OBVIOUS
<1> QED
  BY <1>1, SubsetsOfInterval, FS_EmptySet

LEMMA PowerOfZero == 2^0 = 1
<1>1. 2^0 = Cardinality(SUBSET (1 .. 0))
  BY SubsetsOfInterval
<1>2. SUBSET (1 .. 0) = {{}}
  OBVIOUS
<1> QED
  BY <1>1, <1>2, FS_Singleton

LEMMA PowerAdds ==
    ASSUME NEW a \in Nat, NEW b \in Nat
    PROVE  2^(a + b) = 2^a * 2^b
<1> DEFINE R == {k \in Nat : 2^(a + k) = 2^a * 2^k}
<1>1. 0 \in R
  <2>1. 2^0 = 1
    BY PowerOfZero
  <2>2. 2^a \in Nat /\ a + 0 = a
    BY PowerDoubles
  <2> QED
    BY <2>1, <2>2
<1>2. ASSUME NEW k \in Nat, k \in R PROVE k + 1 \in R
  <2>1. 2^(a + k) = 2^a * 2^k
    BY <1>2
  <2>2. 2^(k + 1) = 2 * 2^k /\ 2^((a + k) + 1) = 2 * 2^(a + k) /\ 2^a \in Nat /\ 2^k \in Nat
    BY PowerDoubles
  <2>3. (a + k) + 1 = a + (k + 1) /\ k + 1 \in Nat
    OBVIOUS
  <2> DEFINE p == 2^a
             q == 2^k
             w == 2^(k + 1)
  <2>4. p \in Nat /\ q \in Nat /\ w = 2 * q
    BY <2>2
  <2>5. 2^(a + (k + 1)) = 2 * (p * q)
    BY <2>1, <2>2, <2>3
  <2> HIDE DEF p, q, w
  <2>6. p * w = 2 * (p * q)
    BY <2>4
  <2>7. 2^(a + (k + 1)) = p * w
    BY <2>5, <2>6
  <2> QED
    BY <2>3, <2>7 DEF p, w
<1> HIDE DEF R
<1>3. Nat \subseteq R
  BY <1>1, <1>2, InductionOverNat
<1> QED
  BY <1>3 DEF R

LEMMA PowerGrows ==
    ASSUME NEW a \in Nat, NEW b \in Nat, a <= b
    PROVE  2^a <= 2^b
<1> DEFINE p == 2^a
           q == 2^(b - a)
<1>1. b - a \in Nat /\ a + (b - a) = b
  OBVIOUS
<1>2. 2^b = p * q /\ p \in Nat \ {0} /\ q \in Nat \ {0}
  BY <1>1, PowerAdds, PowerPositive
<1> HIDE DEF p, q
<1>3. p <= p * q
  BY <1>2
<1> QED
  BY <1>2, <1>3 DEF p

-----------------------------------------------------------------------------
(* Products and quotients *)

LEMMA ProductGrows ==
    ASSUME NEW a \in Nat, NEW b \in Nat, NEW c \in Nat, a <= b
    PROVE  a * c \in Nat /\ b * c \in Nat /\ a * c <= b * c
  OBVIOUS

LEMMA Quotient ==
    ASSUME NEW a \in Nat, NEW n \in Nat \ {0}
    PROVE  /\ a \div n \in Nat
           /\ n * (a \div n) <= a /\ a < n * (a \div n) + n
  OBVIOUS

LEMMA QuotientGrows ==
    ASSUME NEW a \in Nat, NEW b \in Nat, NEW n \in Nat \ {0}, a <= b
    PROVE  a \div n <= b \div n
<1> DEFINE q == a \div n
           p == b \div n
<1>1. q \in Nat /\ p \in Nat /\ n * q <= a /\ b < n * p + n
  BY Quotient
<1> HIDE DEF q, p
<1>2. ASSUME p + 1 <= q PROVE FALSE
  <2>1. n * (p + 1) <= n * q
    BY <1>1, <1>2
  <2>2. n * (p + 1) = n * p + n
    BY <1>1
  <2> QED
    BY <1>1, <2>1, <2>2
<1>3. q <= p
  BY <1>1, <1>2
<1> QED
  BY <1>3 DEF q, p
=============================================================================
