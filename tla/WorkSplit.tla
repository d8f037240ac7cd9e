------------------------------ MODULE WorkSplit ------------------------------
(***************************************************************************)
(* One call of SolveBatchCuda: which devices take part, how many nonces    *)
(* each of their launches takes (ResolveLaunchBatch and the binary search  *)
(* of AutoBatchSizeForDevice), how the range of nonces is split over them  *)
(* or over the threads of the CPU, and how the solutions are put together. *)
(* What one device does with its part is GpuPipeline; here it reports its  *)
(* launches one after the other and may fail after any of them.            *)
(*                                                                         *)
(* Memory is counted in units small enough for TLC; the sizes that the     *)
(* code has as numbers are constants.                                      *)
(***************************************************************************)
EXTENDS Integers, Sequences, FiniteSets, SequencesExt

CONSTANTS
    Rigs,          \* machines and options to look at
    Ranges,        \* start and number of nonces of a call
    Winners,       \* the nonces that are solutions
    MinBatch,      \* 1024
    CapOf,         \* CapOf[total]: AutoBatchCapForDevice
    LargeBatch,    \* 4194304, in MaxResolvedLaunchBatch and RecommendJobChunkSize
    ReserveBytes,  \* kReserveBytes
    GateBytes,     \* gate buffers of a nonce
    PoolBytes,     \* batched pool, for a nonce that passes the gate
    LegacyBytes,   \* WorkspaceBytesPerNonce
    MinPassed,     \* 64, the least number of slots for nonces that pass
    IntWidth,      \* bits of int (32)
    CpuThreads     \* hardware threads, at most 16

ASSUME WorkSplitAssumption ==
    /\ {MinBatch, LargeBatch, GateBytes, IntWidth, CpuThreads} \subseteq Nat \ {0}
    /\ {ReserveBytes, PoolBytes, LegacyBytes, MinPassed} \subseteq Nat
    /\ Ranges \subseteq [start : Nat, count : Nat \ {0}]
    /\ Winners \subseteq Nat

\* A machine with its options: usable are the devices CUDA finds, requested those
\* of --devices; free is the memory of a device when a call is made.
ASSUME RigAssumption ==
    \A r \in Rigs :
        /\ r.usable \in Seq(Nat) /\ r.requested \in Seq(Nat)
        /\ r.forceCpu \in BOOLEAN /\ r.legacy \in BOOLEAN
        /\ r.epsilon \in Nat /\ r.global \in Int /\ r.perDevice \in Seq(Int)
        /\ \A d \in ToSet(r.usable) :
              /\ r.free[d] \in Nat /\ r.freeAtStart[d] \in Nat
              /\ CapOf[r.total[d]] \in Nat

VARIABLES
    rig,       \* the machine (memory free at the start of the miner and at
               \* that of the call), its options and the job's kind
    range,     \* start_nonce and max_tries
    workers,   \* a thread per device, or the CPU's threads
    merged     \* the solutions put together so far

splitVars == <<rig, range, workers, merged>>

Lesser(a, b) == IF a < b THEN a ELSE b
Greater(a, b) == IF a > b THEN a ELSE b

-----------------------------------------------------------------------------
\* GetActiveDevices: all usable devices, or the requested ones among them, in
\* the order of the request; Kept[k] are those among the first k.
ActiveDevices(r) ==
    LET Kept[k \in 0 .. Len(r.requested)] ==
            IF k = 0 THEN <<>>
            ELSE IF r.requested[k] \in ToSet(r.usable)
                 THEN Append(Kept[k - 1], r.requested[k])
                 ELSE Kept[k - 1]
    IN  IF r.forceCpu THEN <<>>
        ELSE IF r.requested = <<>> THEN r.usable
        ELSE Kept[Len(r.requested)]

\* ExpectedPassedCap
PassedCap(r, batch) ==
    IF r.epsilon = 0 THEN batch
    ELSE Greater(MinPassed,
                 Lesser(batch, 4 * Greater(1, batch \div 2^Lesser(r.epsilon, 20))))

LaunchBatchBytes(r, batch) ==
    IF r.legacy THEN batch * LegacyBytes
    ELSE batch * GateBytes + PassedCap(r, batch) * PoolBytes + LegacyBytes

Usable(free) == ((free - ReserveBytes) * 7) \div 10

Fits(r, batch, free) == LaunchBatchBytes(r, batch) <= Usable(free)

\* A turn of the binary search: lo .. hi is left, best is the last that fitted.
\* Mutation: the search ends when one candidate is left, without trying it.
TurnUntried(r, free, b) ==
    LET mid == b.lo + (b.hi - b.lo) \div 2
    IN  IF b.lo >= b.hi THEN b
        ELSE IF Fits(r, mid, free) THEN [lo |-> mid + 1, hi |-> b.hi, best |-> mid]
        ELSE [lo |-> b.lo, hi |-> mid - 1, best |-> b.best]
Turn(r, free, b) ==
    LET mid == b.lo + (b.hi - b.lo) \div 2
    IN  IF b.lo > b.hi THEN b
        ELSE IF Fits(r, mid, free) THEN [lo |-> mid + 1, hi |-> b.hi, best |-> mid]
        ELSE [lo |-> b.lo, hi |-> mid - 1, best |-> b.best]

\* Bracket[k] is what is left after k turns, of which there are never more than
\* cap: every turn shrinks the interval.
AutoBatchSizeForDevice(r, d, free) ==
    LET cap == CapOf[r.total[d]]
        Bracket[k \in 0 .. cap] ==
            IF k = 0 THEN [lo |-> MinBatch, hi |-> cap, best |-> MinBatch]
            ELSE Turn(r, free, Bracket[k - 1])
    IN  IF free <= ReserveBytes THEN MinBatch ELSE Bracket[cap].best

\* --batch: one number for all devices, or a list in the order of the active
\* ones; a number that is missing or not positive means automatic.
Requested(r, i) ==
    IF r.perDevice = <<>> THEN r.global
    ELSE IF i \in DOMAIN r.perDevice THEN r.perDevice[i] ELSE 0

ResolveLaunchBatch(r, i, free) ==
    IF Requested(r, i) > 0 THEN Requested(r, i)
    ELSE AutoBatchSizeForDevice(r, ActiveDevices(r)[i], free[ActiveDevices(r)[i]])

MaxResolvedLaunchBatch(r) ==
    LET sizes == {LargeBatch} \cup
                 {ResolveLaunchBatch(r, i, r.freeAtStart) : i \in DOMAIN ActiveDevices(r)}
    IN  CHOOSE s \in sizes : \A t \in sizes : t <= s

\* A signed overflow, which the compilers let wrap here.
AsInt(x) == ((x + 2^(IntWidth - 1)) % 2^IntWidth) - 2^(IntWidth - 1)
FourPerDevice(r) == MaxResolvedLaunchBatch(r) * Greater(1, Len(ActiveDevices(r))) * 4

\* Mutation: the chunk does not grow with the devices.
ChunkForOneDevice(r) == Greater(LargeBatch, AsInt(MaxResolvedLaunchBatch(r) * 4))
\* What main asks for, when it starts, as the chunk of a call (with a sample job,
\* which is of the call's own kind here).
RecommendJobChunkSize(r) == Greater(LargeBatch, AsInt(FourPerDevice(r)))

-----------------------------------------------------------------------------
\* Mutation: equal parts, the rest of the division is forgotten.
PartOfDeviceEven(i, n) ==
    [from |-> range.start + (i - 1) * (range.count \div n),
     to |-> range.start + i * (range.count \div n)]
\* [from, to) for the i-th of n devices.
PartOfDevice(i, n) ==
    [from |-> range.start + (range.count * (i - 1)) \div n,
     to |-> range.start + (range.count * i) \div n]

\* SolveOnCpu: the last threads may get less, or nothing.
PartOfThread(t) ==
    LET perThread == (range.count + CpuThreads - 1) \div CpuThreads
        from == range.start + (t - 1) * perThread
        to == Lesser(range.start + range.count, from + perThread)
    IN  [from |-> from, to |-> Greater(from, to)]

\* A thread with its part, the next nonce of it and how it is getting on.
Worker(part, launch) ==
    [from |-> part.from, to |-> part.to, next |-> part.from, launch |-> launch,
     found |-> {}, at |-> "search"]

SplitInit ==
    /\ rig \in Rigs
    /\ range \in Ranges \cup {[start |-> 0, count |-> RecommendJobChunkSize(rig)]}
    /\ workers = <<>>
    /\ merged = {}

OnGpus == ActiveDevices(rig) # <<>>

\* The threads are created one after the other, but share nothing before they
\* merge.
Dispatch ==
    /\ workers = <<>>
    /\ workers' =
          IF OnGpus
          THEN [i \in DOMAIN ActiveDevices(rig) |->
                   Worker(PartOfDevice(i, Len(ActiveDevices(rig))),
                          ResolveLaunchBatch(rig, i, rig.free))]
          ELSE [t \in 1 .. CpuThreads |-> Worker(PartOfThread(t), 1)]
    /\ UNCHANGED <<rig, range, merged>>

\* The next launch of SolveOnDevice, or the next nonce of a CPU thread.
SearchesOn(i) ==
    LET w == workers[i]
        to == w.next + Lesser(w.launch, w.to - w.next)
        hits == {x \in Winners : w.next <= x /\ x < to}
    IN  /\ w.at = "search" /\ w.next < w.to
        /\ workers' = [workers EXCEPT ![i].next = to,
                                      ![i].found = IF OnGpus THEN @ \cup hits ELSE @]
        /\ merged' = IF OnGpus THEN merged ELSE merged \cup hits
        /\ UNCHANGED <<rig, range>>

\* A launch, or the collecting of its results, fails: SolveOnDevice leaves its
\* loop.
DeviceFails(i) ==
    /\ OnGpus
    /\ workers[i].at = "search" /\ workers[i].next < workers[i].to
    /\ workers' = [workers EXCEPT ![i].at = "failed"]
    /\ UNCHANGED <<rig, range, merged>>

\* The thread has come to its end: its solutions are appended to the call's.
Merge(i) ==
    /\ \/ workers[i].at = "search" /\ workers[i].next = workers[i].to
       \/ workers[i].at = "failed"
    /\ merged' = merged \cup workers[i].found
    /\ workers' = [workers EXCEPT ![i].at =
                      IF @ = "failed" THEN "stopped" ELSE "done"]
    /\ UNCHANGED <<rig, range>>

SplitNext ==
    \/ Dispatch
    \/ \E i \in DOMAIN workers : SearchesOn(i) \/ DeviceFails(i) \/ Merge(i)

SplitSpec == SplitInit /\ [][SplitNext]_splitVars

-----------------------------------------------------------------------------
(* Properties *)

Joined == workers # <<>> /\ \A i \in DOMAIN workers : workers[i].at \in {"done", "stopped"}
Asked == range.start .. range.start + range.count - 1

\* However the range is divided, no nonce is in two parts, and when all threads
\* have been joined the call returns every solution of the range but those that
\* a failed device had not come to: nothing is lost between the parts, at the
\* ends of the range or in the merge.
RangeIsSearchedOnce ==
    /\ \A i, j \in DOMAIN workers :
          i # j => workers[i].to <= workers[j].from \/ workers[j].to <= workers[i].from
                   \/ workers[i].from = workers[i].to
    /\ Joined => merged = {x \in Winners \cap Asked :
                              \A i \in DOMAIN workers :
                                  workers[i].at = "stopped" =>
                                      x < workers[i].next \/ workers[i].to <= x}

\* "Binary-search the largest batch that fits" (cuda_solver.cpp:127): an automatic
\* launch is the largest within the cap that fits, and the smallest there is when
\* none does, however the memory it needs grows with it.
AutoBatchIsLargestThatFits ==
    OnGpus =>
        \A i \in DOMAIN workers :
            LET d == ActiveDevices(rig)[i]
                fitting == {b \in MinBatch .. CapOf[rig.total[d]] : Fits(rig, b, rig.free[d])}
            IN  Requested(rig, i) <= 0 =>
                    IF fitting = {} \/ rig.free[d] <= ReserveBytes
                    THEN workers[i].launch = MinBatch
                    ELSE /\ workers[i].launch \in fitting
                         /\ \A b \in fitting : b <= workers[i].launch

\* "Use large outer chunks so multi-GPU dispatch with big per-GPU launch batches
\* keeps all GPUs fed" (cuda_solver.cpp:175): of a chunk of the recommended size
\* every device gets four full launches or more, so that its pipeline overlaps;
\* although the launch batch is resolved again at every call, when the miner's
\* own pools take memory.  The product must fit an int.
EveryGpuIsFed ==
    /\ OnGpus /\ range.count = RecommendJobChunkSize(rig)
    /\ FourPerDevice(rig) < 2^(IntWidth - 1)
    => \A i \in DOMAIN workers :
            workers[i].to - workers[i].from >= 4 * workers[i].launch
=============================================================================
