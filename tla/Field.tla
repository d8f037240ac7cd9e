-------------------------------- MODULE Field --------------------------------
(***************************************************************************)
(* Arithmetic modulo q = 2^31 - 1 as pow/field.cpp and its CUDA copies do  *)
(* it: products are summed in a 64-bit word that is folded every fourth    *)
(* term.  The sizes are scaled: a 32-bit element becomes one below         *)
(* Modulus, 2^31 becomes Modulus + 1 and 2^64, which is 4 * (2^31)^2,      *)
(* becomes Wide.                                                           *)
(***************************************************************************)
EXTENDS Integers

CONSTANT Modulus        \* MODULUS, a Mersenne number

ASSUME ModulusAssumption == Modulus \in Nat /\ Modulus >= 7

Elements == 0 .. Modulus - 1
Base == Modulus + 1
Wide == 4 * Base * Base
\* Mutation: one product too many for the word.
ReduceIntervalLong == 5
ReduceInterval == 4

\* (x & MODULUS) + (x >> 31)
Fold(x) == (x % Base) + (x \div Base)

\* Mutation: one fold only.
FoldOnce(x) == Fold(x)
\* d_reduce64, which stops short of the last subtraction.
TwoFolds(x) == Fold(Fold(x))

\* Mutation: without the subtraction.
Reduce64Unfinished(x) == TwoFolds(x)
Reduce64(x) ==
    IF TwoFolds(x) >= Modulus THEN TwoFolds(x) - Modulus ELSE TwoFolds(x)

Add(a, b) == IF a + b >= Modulus THEN a + b - Modulus ELSE a + b
Mul(a, b) == Reduce64(a * b)

\* pending, which counts up to REDUCE_INTERVAL, is due after the i-th term.
Due(i) == i % ReduceInterval = 0

\* One turn of the loop of ScalarDot, and of d_dot and its like.
CpuStep(acc, product, i) ==
    IF Due(i) THEN Reduce64((acc + product) % Wide) ELSE (acc + product) % Wide
GpuStep(acc, product, i) ==
    IF Due(i) THEN TwoFolds((acc + product) % Wide) ELSE (acc + product) % Wide

\* The accumulators after len terms, term[0] to term[len - 1].
CpuAcc(term, len) ==
    LET acc[i \in 0 .. len] ==
            IF i = 0 THEN 0 ELSE CpuStep(acc[i - 1], term[i - 1], i)
    IN  acc[len]
GpuAcc(term, len) ==
    LET acc[i \in 0 .. len] ==
            IF i = 0 THEN 0 ELSE GpuStep(acc[i - 1], term[i - 1], i)
    IN  acc[len]

ScalarDot(term, len) == Reduce64(CpuAcc(term, len))
GpuDot(term, len) == Reduce64(GpuAcc(term, len))
=============================================================================
