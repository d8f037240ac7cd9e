------------------------------ MODULE PowTrial ------------------------------
(***************************************************************************)
(* One nonce of one job of the pool, tried by the CPU reference            *)
(* (VerifySolution) and by the kernels: the block target from nBits, seeds, *)
(* sigma, the pre-hash gate, the words, and their digest against the       *)
(* targets.  Every hit of the GPU is tried again on the CPU before it is   *)
(* submitted, so that a share is lost whenever the two disagree.           *)
(*                                                                         *)
(* A 256-bit number is a sequence of Bytes digits, least significant       *)
(* first, as in a target; sigma is held most significant first.  Hashes    *)
(* are not computed: a draw says what they yield for each kind of seeds.   *)
(***************************************************************************)
EXTENDS MatMulWords, Sequences, SequencesExt

CONSTANTS Bytes,        \* digits of a 256-bit number (32)
          Bits,         \* bits per digit (8)
          Mantissa,     \* digits of the mantissa of nBits (3)
          Trials        \* the jobs and draws to try

VARIABLES job,          \* MatMulJob
          draw,         \* what the hashes yield for this nonce
          cpu, gpu      \* how far each side is, with the words it computed

powVars == <<job, draw, cpu, gpu>>

None == <<>>            \* no nBits, no block target
Digit == 0 .. 2^Bits - 1
Number == [1 .. Bytes -> Digit]
MaxNumber == [i \in 1 .. Bytes |-> 2^Bits - 1]
SeedKinds == {"job", "v2", "v3"}

ASSUME PowAssumption ==
    /\ {Bytes, Bits, Mantissa} \subseteq Nat \ {0} /\ Mantissa <= Bytes
    /\ \A t \in Trials :
          /\ t.job.height \in {"v1", "v2", "v3"} /\ t.job.mtp \in BOOLEAN
          /\ t.job.share \in Number
          /\ t.job.bits # None => {t.job.bits.size, t.job.bits.word} \subseteq Nat
          /\ t.job.epsilon \in Nat
          /\ t.draw.shape \in Shape /\ OraclesOf(t.draw.shape, t.draw.oracles)
          /\ t.draw.sigma \in [SeedKinds -> Number]
          /\ t.draw.digest \in [SeedKinds -> Number] /\ t.draw.otherDigest \in Number

----------------------------------------------------------------------------
\* The first digit in which two numbers differ decides.
NotAbove(x, y) ==
    \/ x = y
    \/ \E i \in DOMAIN x : x[i] < y[i] /\ \A k \in 1 .. i - 1 : x[k] = y[k]

\* Mutation: sigma is read like a digest.
SigmaBelowUnreversed(sigma, target) == NotAbove(Reverse(sigma), Reverse(target))
SigmaBelowPreHashTarget(sigma, target) == NotAbove(sigma, Reverse(target))
DigestMeetsTarget(digest, target) == NotAbove(Reverse(digest), Reverse(target))

BitOf(x, i) == (x[i \div Bits + 1] \div 2^(i % Bits)) % 2
Width == Bytes * Bits

\* SaturatingShiftTargetLeft.
WouldOverflow(x, shift) ==
    \E i \in 0 .. Width - 1 : i >= Width - shift /\ BitOf(x, i) = 1
ShiftLeft(x, shift) ==
    [d \in 1 .. Bytes |->
        Total([i \in 0 .. Bits - 1 |->
                  LET from == (d - 1) * Bits + i - shift
                  IN  IF from >= 0 THEN BitOf(x, from) * 2^i ELSE 0], Bits)]
\* Mutation: bits shifted out are lost.
PreHashTargetUnsaturated(x, epsilon) == ShiftLeft(x, epsilon)
PreHashTargetShift(x, epsilon) ==
    IF WouldOverflow(x, epsilon) THEN MaxNumber ELSE ShiftLeft(x, epsilon)

\* Compact numbers: a mantissa, whose uppermost bit is not part of it, and the
\* number of digits.  Numbers that are too long give no target.
SignBit == 2^(Mantissa * Bits - 1)
Word(bits) == bits.word % SignBit

DigitsAt(word, shift) ==
    [i \in 1 .. Bytes |->
        IF shift < i /\ i <= shift + Mantissa
        THEN (word \div 2^(Bits * (i - shift - 1))) % 2^Bits ELSE 0]

BlockTargetFromBits(bits) ==
    IF Word(bits) = 0 \/ bits.size > Bytes THEN None
    ELSE IF bits.size <= Mantissa
    THEN DigitsAt(Word(bits) \div 2^(Bits * (Mantissa - bits.size)), 0)
    ELSE DigitsAt(Word(bits), bits.size - Mantissa)

\* What the miner makes of a notify.
StratumJobToPowJob(j) ==
    [height |-> j.height, mtp |-> j.mtp, epsilon |-> j.epsilon,
     share |-> j.share, bits |-> j.bits,
     block |-> IF j.bits = None THEN None ELSE BlockTargetFromBits(j.bits)]

----------------------------------------------------------------------------
\* Which seeds VerifySolution computes with: from V2 on they depend on the
\* nonce, from V3 on on the parent's median time as well, if the pool sent it.
SeedsOf(j) ==
    CASE j.height = "v3" /\ j.mtp -> "v3"
      [] j.height = "v2" \/ (j.height = "v3" /\ ~j.mtp) -> "v2"
      [] j.height = "v1" -> "job"

\* Mutation: the kernel knows nothing of V3.
GateSeedsV2Only(j) == IF j.height = "v1" \/ ~j.mtp THEN "job" ELSE "v2"
\* sigma_gate_kernel derives seeds only for jobs that carry the median time.
GateSeedsOf(j) ==
    IF j.height = "v1" \/ ~j.mtp THEN "job" ELSE SeedsOf(j)

\* Matrices, noise and weights of both sides come from the same hashes.
Exact == ExactWords(draw.shape, CpuDraws(draw.oracles))

\* FinalizeProductCommittedDigest: other words, another digest.
DigestOf(seeds, words) ==
    IF words = Exact THEN draw.digest[seeds] ELSE draw.otherDigest

----------------------------------------------------------------------------
NotTried == [at |-> "new", words |-> <<>>]

PowInit ==
    /\ \E t \in Trials : job = StratumJobToPowJob(t.job) /\ draw = t.draw
    /\ cpu = NotTried
    /\ gpu = NotTried

\* VerifySolution up to the gate, which needs a block target.
CpuGate ==
    /\ cpu.at = "new"
    /\ cpu' = [cpu EXCEPT !.at =
           IF /\ job.epsilon > 0 /\ job.block # None
              /\ ~SigmaBelowPreHashTarget(draw.sigma[SeedsOf(job)],
                                          PreHashTargetShift(job.block, job.epsilon))
           THEN "rejected" ELSE "gated"]
    /\ UNCHANGED <<job, draw, gpu>>

\* The rest of it.
CpuDigest ==
    /\ cpu.at = "gated"
    /\ LET words == CpuWords(draw.shape, CpuDraws(draw.oracles))
       IN  cpu' = [words |-> words,
                   at |-> IF DigestMeetsTarget(DigestOf(SeedsOf(job), words), job.share)
                          THEN "hit" ELSE "rejected"]
    /\ UNCHANGED <<job, draw, gpu>>

\* MakeCudaJobParams: without a block target the share target is shifted.
GatePasses(seeds) ==
    job.epsilon = 0 \/
    SigmaBelowPreHashTarget(draw.sigma[seeds],
        PreHashTargetShift(IF job.block # None THEN job.block ELSE job.share,
                           job.epsilon))

\* matmul_nonce_kernel, below the V2 height.
LegacyKernel ==
    /\ gpu.at = "new" /\ job.height = "v1"
    /\ gpu' = IF ~GatePasses("job") THEN [gpu EXCEPT !.at = "rejected"]
              ELSE LET words == LegacyWords(draw.shape, GpuDraws(draw.oracles))
                   IN  [words |-> words,
                        at |-> IF DigestMeetsTarget(DigestOf("job", words), job.share)
                               THEN "hit" ELSE "rejected"]
    /\ UNCHANGED <<job, draw, cpu>>

SigmaGate ==
    /\ gpu.at = "new" /\ job.height # "v1"
    /\ gpu' = [gpu EXCEPT !.at =
                  IF GatePasses(GateSeedsOf(job)) THEN "gated" ELSE "rejected"]
    /\ UNCHANGED <<job, draw, cpu>>

\* d_compare_digest_targets: meeting either target is a hit.
MeetsATarget(digest) ==
    \/ DigestMeetsTarget(digest, IF job.block # None THEN job.block ELSE job.share)
    \/ DigestMeetsTarget(digest, job.share)

\* The batched kernels, with the seeds and the sigma of the gate.
BatchedKernels ==
    /\ gpu.at = "gated"
    /\ LET words == BatchedWords(draw.shape, GpuDraws(draw.oracles))
       IN  gpu' = [words |-> words,
                   at |-> IF MeetsATarget(DigestOf(GateSeedsOf(job), words))
                          THEN "hit" ELSE "rejected"]
    /\ UNCHANGED <<job, draw, cpu>>

PowNext == CpuGate \/ CpuDigest \/ LegacyKernel \/ SigmaGate \/ BatchedKernels
PowSpec == PowInit /\ [][PowNext]_powVars
----------------------------------------------------------------------------
Done(side) == side.at \in {"hit", "rejected"}
Elementwise(words) == \A p \in DOMAIN words : words[p] \in Elements

\* "Match btxchain/btx": the words VerifySolution commits to are the exact
\* block products, whatever candidates the oracle rejects on the way.
CpuWordsAreExact == cpu.words # <<>> => cpu.words = Exact

\* The batched kernels, with half-finished reductions, halved warps and
\* unrolled loops, compute the words of the CPU, as elements.
BatchedWordsAreExact ==
    gpu.words # <<>> /\ job.height # "v1" => gpu.words = Exact

\* The kernels below the V2 height do so up to the representation of zero.
LegacyWordsAreCongruent ==
    gpu.words # <<>> =>
        \A p \in WordIndex(draw.shape) : gpu.words[p] % Modulus = Exact[p]

LittleEndian(x) == Total([i \in 0 .. Bytes - 1 |-> x[i + 1] * 2^(Bits * i)], Bytes)

\* What nBits stands for.
Expanded(bits) ==
    IF bits.size < Mantissa THEN Word(bits) \div 2^(Bits * (Mantissa - bits.size))
    ELSE Word(bits) * 2^(Bits * (bits.size - Mantissa))

\* "sigma must be <= target << N" (matmul_pow.h:36): from the nBits of the notify
\* on, a nonce passes the CPU gate exactly if sigma is at most 2^epsilon times
\* the target or the largest number there is.
GateScalesTheTarget ==
    /\ cpu.at # "new" /\ job.epsilon > 0
    /\ job.bits # None /\ Word(job.bits) # 0 /\ job.bits.size <= Bytes
    => LET scaled == Expanded(job.bits) * 2^job.epsilon
           sigma == LittleEndian(Reverse(draw.sigma[SeedsOf(job)]))
           stopped == cpu.at = "rejected" /\ cpu.words = <<>>
       IN  stopped <=> sigma > scaled /\ scaled < 2^Width

\* The block target, if there is one, is not above the share's.
PoolJob ==
    job.block # None => LittleEndian(job.block) <= LittleEndian(job.share)

\* Without a block target only the kernels have a gate: sigma above 2^epsilon
\* times the share target is dropped there.
GatedByTheShare ==
    /\ job.block = None /\ job.epsilon > 0
    /\ LET scaled == LittleEndian(job.share) * 2^job.epsilon
           sigma == LittleEndian(Reverse(draw.sigma[SeedsOf(job)]))
       IN  sigma > scaled /\ scaled < 2^Width

\* For a job of a pool with the median time, or below the V2 height without a
\* zero word, both sides accept the same nonces: no hit is thrown away by the
\* verification, and no share is missed, but for those that the kernels gate by
\* the share target in want of a block target.
BothAcceptTheSame ==
    /\ Done(cpu) /\ Done(gpu) /\ PoolJob
    /\ job.height = "v1" => \A p \in WordIndex(draw.shape) : Exact[p] # 0
    /\ job.height # "v1" => job.mtp
    => (gpu.at = "hit" <=> cpu.at = "hit" /\ ~GatedByTheShare)

\* The assertion of the CUDA test (test_cuda_pow.cpp:65): the same digest and
\* the same verdict for each of its nonces, whatever the job carries.
GpuMatchesReference ==
    cpu.words # <<>> /\ gpu.words # <<>> =>
        /\ DigestOf(GateSeedsOf(job), gpu.words) = DigestOf(SeedsOf(job), cpu.words)
        /\ cpu.at = gpu.at
=============================================================================
