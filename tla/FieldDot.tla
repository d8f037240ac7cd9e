------------------------------ MODULE FieldDot ------------------------------
(***************************************************************************)
(* The dot product of two rows of any length, on the CPU (ScalarDot) and   *)
(* on the GPU (d_dot): the two loops side by side over the same elements,  *)
(* with the exact sum beside them.                                         *)
(***************************************************************************)
EXTENDS Field

CONSTANT Samples        \* the elements that occur

ASSUME SamplesAssumption == Samples \subseteq Elements

VARIABLES
    acc,        \* ScalarDot's accumulator
    gpuAcc,     \* d_dot's
    pending,    \* terms since the last fold
    exact       \* history: the sum itself, modulo Modulus

dotVars == <<acc, gpuAcc, pending, exact>>

\* After a fold the CPU holds an element again, the GPU a little more.
DotTypeOK ==
    /\ acc \in 0 .. Wide - 1
    /\ gpuAcc \in 0 .. Wide - 1
    /\ pending \in 0 .. ReduceInterval - 1
    /\ exact \in Elements
    /\ pending = 0 => acc \in Elements /\ gpuAcc \in 0 .. Modulus + 3

DotInit ==
    /\ acc = 0
    /\ gpuAcc = 0
    /\ pending = 0
    /\ exact = 0

Accumulate ==
    \E a, b \in Samples :
        /\ acc' = CpuStep(acc, a * b, pending + 1)
        /\ gpuAcc' = GpuStep(gpuAcc, a * b, pending + 1)
        /\ pending' = (pending + 1) % ReduceInterval
        /\ exact' = (exact + a * b) % Modulus

DotSpec == DotInit /\ [][Accumulate]_dotVars

\* However long the rows, the product of two more elements still fits the 64-bit
\* word, although it is folded only every fourth term.
ProductStillFits ==
    /\ acc + (Modulus - 1) * (Modulus - 1) < Wide
    /\ gpuAcc + (Modulus - 1) * (Modulus - 1) < Wide

\* "Safe for all uint64 inputs" (field.cpp:19): whatever the elements and
\* however long the rows, reduce64 of either accumulator is the dot product;
\* d_dot, whose folds leave numbers that are not elements, included.
DotIsExact ==
    /\ Reduce64(acc) = exact
    /\ Reduce64(gpuAcc) = exact
=============================================================================
