---------------------------- MODULE MatMulWords ----------------------------
(***************************************************************************)
(* The compressed words of a nonce: the random matrices A and B, disturbed *)
(* by the low-rank noise EL * ER and FL * FR, are multiplied block by      *)
(* block, and the products of a row and a column of blocks are added up    *)
(* with the weights W to one word.  pow/matmul_pow.cpp computes the words  *)
(* on the CPU; matmul_kernel.cu has three ways of its own.                 *)
(*                                                                         *)
(* A shape [n, b, r] gives the size of the matrices, of the blocks and the *)
(* rank of the noise.  A matrix is a function of <<row, column>>.          *)
(***************************************************************************)
EXTENDS Field

CONSTANTS Lanes,            \* threads per warp (32)
          Warps,            \* warps per thread block (8)
          UnrolledRank,     \* terms of the unrolled noise loop (8)
          UnrolledBlock     \* terms of the unrolled product loop (16)

\* Halving such a number again and again ends with 1.
PowerOfTwo(width) == \A d \in 2 .. width : width % d = 0 => d % 2 = 0

ASSUME KernelAssumption ==
    /\ {Lanes, Warps, UnrolledRank, UnrolledBlock} \subseteq Nat \ {0}
    /\ PowerOfTwo(Lanes) /\ PowerOfTwo(Warps)
    /\ 2 * Lanes <= Modulus

\* The shapes StratumJobToPowJob lets through.
Shape == {s \in [n : Nat \ {0}, b : Nat \ {0}, r : Nat \ {0}] :
             s.n % s.b = 0 /\ s.r <= s.n}

Least(x, y) == IF x < y THEN x ELSE y
Blocks(s) == s.n \div s.b
Cells(s) == s.b * s.b
WordIndex(s) == (0 .. Blocks(s) - 1) \X (0 .. Blocks(s) - 1)

\* The sum of f[0] to f[len - 1]: the number, and with field::add.
Total(f, len) ==
    LET sum[i \in 0 .. len] == IF i = 0 THEN 0 ELSE sum[i - 1] + f[i - 1]
    IN  sum[len]
FieldTotal(f, len) ==
    LET sum[i \in 0 .. len] == IF i = 0 THEN 0 ELSE Add(sum[i - 1], f[i - 1])
    IN  sum[len]

----------------------------------------------------------------------------
(* field::from_oracle hashes the seed, the index and the number of the     *)
(* attempt until 31 bits of the hash are an element.  An oracle is what    *)
(* the hashes yield: tries[0], tries[1], ... and fallback.                 *)
FromOracle(o) ==
    LET accepted == {k \in DOMAIN o.tries : o.tries[k] < Modulus}
    IN  IF accepted = {} THEN o.fallback % Modulus
        ELSE o.tries[CHOOSE k \in accepted : \A l \in accepted : k <= l]

\* Mutation: the masked candidate is taken without a look.
FromMidstateUnchecked(o) == o.tries[0]
\* d_from_oracle_midstate: the first try from the midstate, the rest again.
FromMidstate(o) == IF o.tries[0] < Modulus THEN o.tries[0] ELSE FromOracle(o)

\* What the hashes yield for each element of the matrices, the noise and the
\* weights; the mask leaves 31 bits of a try.
IsOracle(o) ==
    /\ DOMAIN o.tries \subseteq Nat /\ 0 \in DOMAIN o.tries
    /\ \A k \in DOMAIN o.tries : o.tries[k] \in 0 .. Modulus
    /\ o.fallback \in Nat
OraclesOf(s, oracles) ==
    LET filled(m, rows, cols) ==
            /\ DOMAIN m = (0 .. rows - 1) \X (0 .. cols - 1)
            /\ \A p \in DOMAIN m : IsOracle(m[p])
    IN  /\ DOMAIN oracles = {"a", "b", "el", "er", "fl", "fr", "w"}
        /\ filled(oracles.a, s.n, s.n) /\ filled(oracles.b, s.n, s.n)
        /\ filled(oracles.el, s.n, s.r) /\ filled(oracles.er, s.r, s.n)
        /\ filled(oracles.fl, s.n, s.r) /\ filled(oracles.fr, s.r, s.n)
        /\ DOMAIN oracles.w = 0 .. Cells(s) - 1
        /\ \A c \in DOMAIN oracles.w : IsOracle(oracles.w[c])

\* Matrices, noise and weights, element by element.
CpuDraws(oracles) ==
    [m \in DOMAIN oracles |-> [i \in DOMAIN oracles[m] |-> FromOracle(oracles[m][i])]]
GpuDraws(oracles) ==
    [m \in DOMAIN oracles |-> [i \in DOMAIN oracles[m] |-> FromMidstate(oracles[m][i])]]

----------------------------------------------------------------------------
(* The CPU: Matrix products, sums and ComputeProductCommittedDigest.       *)
RowTimesColumn(left, right, i, j, len) ==
    [k \in 0 .. len - 1 |-> left[<<i, k>>] * right[<<k, j>>]]

Perturbed(s, base, left, right) ==
    [p \in DOMAIN base |->
        Add(base[p], ScalarDot(RowTimesColumn(left, right, p[1], p[2], s.r), s.r))]

\* The terms of cell c of the product of block (i, l) of a and (l, j) of b.
CellTerms(s, a, b, i, l, j, c) ==
    [k \in 0 .. s.b - 1 |-> a[<<i * s.b + (c \div s.b), l * s.b + k>>]
                            * b[<<l * s.b + k, j * s.b + (c % s.b)>>]]

CpuWords(s, x) ==
    LET a == Perturbed(s, x.a, x.el, x.er)
        b == Perturbed(s, x.b, x.fl, x.fr)
        compressed(i, l, j) ==
            ScalarDot([c \in 0 .. Cells(s) - 1 |->
                          ScalarDot(CellTerms(s, a, b, i, l, j, c), s.b) * x.w[c]],
                      Cells(s))
    IN  [p \in WordIndex(s) |->
            FieldTotal([l \in 0 .. Blocks(s) - 1 |-> compressed(p[1], l, p[2])], Blocks(s))]

----------------------------------------------------------------------------
(* The batched kernels, for jobs of the V2 height and above: a thread per  *)
(* cell of a word.  d_reduce64 stops short of the last subtraction.        *)
GpuPerturbed(base, left, right, len) ==
    [p \in DOMAIN base |->
        Add(base[p], TwoFolds(GpuAcc(
            RowTimesColumn(left, right, p[1], p[2], len), len)))]

\* Mutation: only the first warp is added.
BlockReduceFirstWarp(val) ==
    FieldTotal([l \in 0 .. Lanes - 1 |-> val[l]], Lanes)

\* One halving of a warp: __shfl_down_sync gives a thread the value of the
\* one offset further, or its own when there is none.
ShuffleDown(val, width, offset) ==
    [t \in 0 .. width - 1 |->
        Add(val[t], val[IF t + offset < width THEN t + offset ELSE t])]

\* What lane 0 of width lanes, a power of two, holds in the end: the loop halves
\* offset until it is 0, which takes less than width turns.
WarpReduce(val, width) ==
    LET lanes[turn \in 0 .. width] ==
            IF turn = 0 THEN [offset |-> width, val |-> val]
            ELSE LET before == lanes[turn - 1]
                     offset == before.offset \div 2
                 IN  IF offset = 0 THEN before
                     ELSE [offset |-> offset,
                           val |-> ShuffleDown(before.val, width, offset)]
    IN  lanes[width].val[0]

\* d_block_reduce_add_u32: warps first, then their sums.
BlockReduce(val) ==
    WarpReduce([w \in 0 .. Warps - 1 |->
                   WarpReduce([l \in 0 .. Lanes - 1 |-> val[w * Lanes + l]], Lanes)],
               Warps)

BatchedWords(s, x) ==
    LET rank == Least(s.r, UnrolledRank)
        a == GpuPerturbed(x.a, x.el, x.er, rank)
        b == GpuPerturbed(x.b, x.fl, x.fr, rank)
        len == Least(s.b, UnrolledBlock)
        term(i, l, j, t) ==
            Mul(TwoFolds(GpuAcc(CellTerms(s, a, b, i, l, j, t), len)), x.w[t])
        thread(i, j, t) ==
            IF t < Cells(s)
            THEN FieldTotal([l \in 0 .. Blocks(s) - 1 |-> term(i, l, j, t)], Blocks(s))
            ELSE 0
    IN  [p \in WordIndex(s) |->
            BlockReduce([t \in 0 .. Lanes * Warps - 1 |-> thread(p[1], p[2], t)])]

----------------------------------------------------------------------------
(* Below the V2 height matmul_nonce_kernel works step by step, or, when    *)
(* the shape allows, factored: the weights times B first, then A.          *)
UseFactoredPath(s) == s.n % Lanes = 0 /\ Blocks(s) % 2 = 0

Products(f, g, len) == [k \in 0 .. len - 1 |-> Mul(f[k], g[k])]

StepPerturbed(s, base, left, right) ==
    [p \in DOMAIN base |->
        Add(base[p], FieldTotal(Products([k \in 0 .. s.r - 1 |-> left[<<p[1], k>>]],
                                       [k \in 0 .. s.r - 1 |-> right[<<k, p[2]>>]],
                                       s.r), s.r))]

StepWords(s, x) ==
    LET a == StepPerturbed(s, x.a, x.el, x.er)
        b == StepPerturbed(s, x.b, x.fl, x.fr)
        cell(i, l, j, c) ==
            FieldTotal(Products([k \in 0 .. s.b - 1 |-> a[<<i * s.b + (c \div s.b), l * s.b + k>>]],
                              [k \in 0 .. s.b - 1 |-> b[<<l * s.b + k, j * s.b + (c % s.b)>>]],
                              s.b), s.b)
        step(i, l, j) ==
            GpuDot([c \in 0 .. Cells(s) - 1 |-> cell(i, l, j, c) * x.w[c]], Cells(s))
    IN  [p \in WordIndex(s) |->
            FieldTotal([l \in 0 .. Blocks(s) - 1 |-> step(p[1], l, p[2])], Blocks(s))]

\* d_build_factored_rhs: row x of the weights times columns j of b.
FactoredRhs(s, b, w, x, j, m) ==
    TwoFolds(GpuAcc([y \in 0 .. s.b - 1 |-> w[x * s.b + y] * b[<<m, j * s.b + y>>]], s.b))

\* d_compute_factored_words: lane takes every Lanes-th column for each x.
FactoredWords(s, x) ==
    LET a == GpuPerturbed(x.a, x.el, x.er, s.r)
        b == GpuPerturbed(x.b, x.fl, x.fr, s.r)
        turns == s.n \div Lanes
        partial(i, j, lane) ==
            TwoFolds(GpuAcc(
                [k \in 0 .. s.b * turns - 1 |->
                    LET row == k \div turns
                        m == lane + Lanes * (k % turns)
                    IN  a[<<i * s.b + row, m>>] * FactoredRhs(s, b, x.w, row, j, m)],
                s.b * turns))
    IN  [p \in WordIndex(s) |->
            TwoFolds(Total([l \in 0 .. Lanes - 1 |-> partial(p[1], p[2], l)], Lanes))]

LegacyWords(s, x) ==
    IF UseFactoredPath(s) THEN FactoredWords(s, x) ELSE StepWords(s, x)

----------------------------------------------------------------------------
\* What the words are, in exact arithmetic.
ExactWords(s, x) ==
    LET exact(base, left, right) ==
            [p \in DOMAIN base |->
                base[p] + Total(RowTimesColumn(left, right, p[1], p[2], s.r), s.r)]
        a == exact(x.a, x.el, x.er)
        b == exact(x.b, x.fl, x.fr)
        cell(i, j, c) ==
            Total(RowTimesColumn(a, b, i * s.b + (c \div s.b),
                                  j * s.b + (c % s.b), s.n), s.n)
    IN  [p \in WordIndex(s) |->
            Total([c \in 0 .. Cells(s) - 1 |-> (cell(p[1], p[2], c) % Modulus) * x.w[c]],
                Cells(s)) % Modulus]
=============================================================================
