----------------------------- MODULE MCPowTrial -----------------------------
\* Instances of PowTrial for TLC: four families of trials.
EXTENDS PowTrial

Flipped(x) == [i \in 1 .. Bytes |-> 2^Bits - 1 - x[i]]
Heights == {[height |-> "v1", mtp |-> FALSE], [height |-> "v2", mtp |-> TRUE],
            [height |-> "v2", mtp |-> FALSE], [height |-> "v3", mtp |-> TRUE],
            [height |-> "v3", mtp |-> FALSE]}
\* With the median time, if the height asks for it.
Sent == {k \in Heights : k.mtp \/ k.height = "v1"}

\* Candidates that follow a linear pattern c, from the matrix m on, over the
\* rows and columns (or cells) i and k; one in Modulus + 1 is rejected.
Candidate(c, m, i, k) ==
    LET v == c[1] * (i + 1) + c[2] * (k + m) + c[3]
    IN  [tries |-> [t \in 0 .. 1 |-> (v + t * (c[1] + c[2])) % Base],
         fallback |-> v + 1]
Filled(c, m, rows, cols) ==
    [p \in (0 .. rows - 1) \X (0 .. cols - 1) |-> Candidate(c, m, p[1], p[2])]
Oracles(s, c) ==
    [a |-> Filled(c, 0, s.n, s.n), b |-> Filled(c, 1, s.n, s.n),
     el |-> Filled(c, 2, s.n, s.r), er |-> Filled(c, 3, s.r, s.n),
     fl |-> Filled(c, 4, s.n, s.r), fr |-> Filled(c, 5, s.r, s.n),
     w |-> [k \in 0 .. Cells(s) - 1 |-> Candidate(c, 6, k, k)]]

\* Other seeds than the CPU's give another sigma and another digest.
Drawing(h, s, c, sigma, digest) ==
    LET own(k, x) == IF k = SeedsOf(h) THEN x ELSE Flipped(x)
    IN  [shape |-> s, oracles |-> Oracles(s, c),
         sigma |-> [k \in SeedKinds |-> own(k, sigma)],
         digest |-> [k \in SeedKinds |-> own(k, digest)],
         otherDigest |-> MaxNumber]
Job(h, epsilon, share, bits) ==
    [height |-> h.height, mtp |-> h.mtp, epsilon |-> epsilon,
     share |-> share, bits |-> bits]

Tiny == [n |-> 1, b |-> 1, r |-> 1]
Half == [i \in 1 .. Bytes |-> IF i = Bytes THEN 1 ELSE 2]
\* nBits of every size up to one that is too long; words with one digit, with
\* two, and with the bit that is left out.
Compact == [size : 0 .. Bytes + 1, word : {0, 1, 2, SignBit - 2, SignBit - 1, SignBit + 2}]
HalfBits == [size |-> Bytes, word |-> 2^Bits + 2]

\* Every sigma against every block target, shifted by up to the width and more.
GateTrials ==
    {[job |-> Job(h, e, MaxNumber, b), draw |-> Drawing(h, Tiny, <<1, 1, 1>>, x, Half)] :
        h \in {k \in Sent : k.height # "v2"}, e \in {1, 3, 7}, b \in Compact,
        x \in Number}
\* Every digest against share targets below, above and at it, with and without a block target.
DigestTrials ==
    {[job |-> Job(h, 0, s, b), draw |-> Drawing(h, Tiny, <<1, 1, 1>>, Half, x)] :
        h \in Heights, s \in {y \in Number : y[2] = 1 /\ y[1] # 2}, b \in {None, HalfBits},
        x \in Number}
\* Jobs without a block target, every sigma against small shifted share targets.
SmallShares == {[i \in 1 .. Bytes |-> IF i = k THEN 1 ELSE 0] : k \in {1, Bytes - 1}}
NoBlockTrials ==
    {[job |-> Job(h, e, s, None), draw |-> Drawing(h, Tiny, <<1, 1, 1>>, x, s)] :
        h \in Sent, e \in {1, 3}, s \in SmallShares,
        x \in Number}
\* Dense and sparse matrices of several shapes.
Shapes == {[n |-> 8, b |-> 2, r |-> 5], [n |-> 5, b |-> 1, r |-> 4]}
Coefficients == {0, 1, Modulus \div 3, Modulus - 1}
WordTrials ==
    {[job |-> Job(h, 0, MaxNumber, HalfBits), draw |-> Drawing(h, s, c, Half, Half)] :
        h \in Sent, s \in Shapes,
        c \in Coefficients \X Coefficients \X Coefficients}
\* The nonces of the CUDA test: V2 without the median time, V3 with it.
TestTrials ==
    {[job |-> Job(h, 0, MaxNumber, None),
      draw |-> Drawing(h, CHOOSE s \in Shapes : s.b = 2, c, Half, Half)] :
        h \in {[height |-> "v2", mtp |-> FALSE], [height |-> "v3", mtp |-> TRUE]},
        c \in Coefficients \X {1} \X {1}}
MCTrials == GateTrials \cup NoBlockTrials \cup DigestTrials \cup WordTrials
=============================================================================
