-------------------------- MODULE WorkSplitProofs --------------------------
(***************************************************************************)
(* Proofs about WorkSplit, for every machine, every request and every      *)
(* range of nonces: the binary search finds the largest launch that fits,  *)
(* the parts of the devices or threads make up the range, and a chunk of   *)
(* the recommended size feeds every device.                                *)
(***************************************************************************)
EXTENDS WorkSplit, NaturalLemmas

-----------------------------------------------------------------------------
(* The devices *)

LEMMA ActiveTypes ==
    ASSUME NEW r \in Rigs
    PROVE  ActiveDevices(r) \in Seq(ToSet(r.usable)) /\ ToSet(r.usable) \subseteq Nat
<1> DEFINE D == ToSet(r.usable)
           n == Len(r.requested)
           req == r.requested
           isKept(f) == f = [k \in 0 .. n |->
                               IF k = 0 THEN <<>>
                               ELSE IF req[k] \in D THEN Append(f[k - 1], req[k])
                               ELSE f[k - 1]]
           Kept == CHOOSE f : isKept(f)
<1>1. r.usable \in Seq(Nat) /\ req \in Seq(Nat) /\ n \in Nat
  BY RigAssumption
<1>2. D \subseteq Nat /\ r.usable \in Seq(D)
  BY <1>1 DEF ToSet
<1>3. \E f : isKept(f)
  <2> DEFINE step == [k \in 1 .. n |-> [s \in Seq(D) |->
                          IF req[k] \in D THEN Append(s, req[k]) ELSE s]]
  <2>1. step \in [1 .. n -> [Seq(D) -> Seq(D)]]
    <3>1. ASSUME NEW k \in 1 .. n, NEW s \in Seq(D)
          PROVE  (IF req[k] \in D THEN Append(s, req[k]) ELSE s) \in Seq(D)
      <4> HIDE DEF D, req, n
      <4> QED
        OBVIOUS
    <3> HIDE DEF D, req, n
    <3> QED
      BY <3>1
  <2>2. <<>> \in Seq(D)
    OBVIOUS
  <2>3. PICK f \in [0 .. n -> Seq(D)] : Iterates(f, n, <<>>, step)
    BY <1>1, <2>1, <2>2, IterationExists
  <2>4. \A k \in 0 .. n : f[k] = IF k = 0 THEN <<>>
                               ELSE IF req[k] \in D THEN Append(f[k - 1], req[k])
                               ELSE f[k - 1]
    <3> SUFFICES ASSUME NEW k \in 0 .. n
                 PROVE  f[k] = IF k = 0 THEN <<>>
                               ELSE IF req[k] \in D THEN Append(f[k - 1], req[k])
                               ELSE f[k - 1]
      OBVIOUS
    <3>1. f[k] = IF k = 0 THEN <<>> ELSE step[k][f[k - 1]]
      BY <2>3 DEF Iterates
    <3>2. k # 0 => k \in 1 .. n /\ k - 1 \in 0 .. n /\ f[k - 1] \in Seq(D)
      <4>1. f \in [0 .. n -> Seq(D)] /\ n \in Nat
        BY <1>1, <2>3
      <4> HIDE DEF n, D
      <4> QED
        BY <4>1
    <3>3. k # 0 => step[k][f[k - 1]] =
                     IF req[k] \in D THEN Append(f[k - 1], req[k]) ELSE f[k - 1]
      BY <3>2
    <3> HIDE DEF step
    <3> QED
      BY <3>1, <3>3
  <2> QED
    BY <2>4
<1>4. isKept(Kept)
  BY <1>3, Zenon
<1>5. ASSUME r.requested # <<>>, ~r.forceCpu PROVE ActiveDevices(r) = Kept[n]
  BY <1>5 DEF ActiveDevices
<1> HIDE DEF Kept
<1>6. \A k \in 0 .. n : Kept[k] = IF k = 0 THEN <<>>
                               ELSE IF req[k] \in D THEN Append(Kept[k - 1], req[k])
                               ELSE Kept[k - 1]
  BY <1>4
<1> HIDE DEF D, req, n
<1>7. \A k \in 1 .. n : Kept[k - 1] \in Seq(D) => Kept[k] \in Seq(D)
  <2> SUFFICES ASSUME NEW k \in 1 .. n, Kept[k - 1] \in Seq(D) PROVE Kept[k] \in Seq(D)
    OBVIOUS
  <2>1. k \in 0 .. n /\ k # 0
    BY <1>1
  <2>2. Kept[k] = IF req[k] \in D THEN Append(Kept[k - 1], req[k]) ELSE Kept[k - 1]
    BY <1>6, <2>1
  <2> QED
    BY <2>2
<1>8. Kept[n] \in Seq(D)
  <2> DEFINE S == {k \in 0 .. n : Kept[k] \in Seq(D)}
  <2>1. 0 \in 0 .. n /\ n \in 0 .. n
    BY <1>1
  <2>2. Kept[0] = <<>>
    BY <1>6, <2>1
  <2>6. Kept[0] \in Seq(D)
    BY <2>2
  <2>3. 0 \in S
    BY <2>1, <2>6
  <2>4. \A k \in 1 .. n : k - 1 \in S => k \in S
    BY <1>1, <1>7
  <2> HIDE DEF S
  <2>5. 0 .. n \subseteq S
    BY <1>1, <2>3, <2>4, InductionOverTurns
  <2> QED
    BY <2>1, <2>5 DEF S
<1>9. <<>> \in Seq(D)
  OBVIOUS
<1>10. CASE r.forceCpu
  BY <1>2, <1>9, <1>10 DEF ActiveDevices, D
<1>11. CASE ~r.forceCpu /\ r.requested = <<>>
  BY <1>2, <1>11 DEF ActiveDevices, D
<1>12. CASE ~r.forceCpu /\ r.requested # <<>>
  BY <1>2, <1>5, <1>8, <1>12 DEF D
<1> QED
  BY <1>10, <1>11, <1>12

-----------------------------------------------------------------------------
(* The binary search *)

LEMMA SplitTypes ==
    /\ MinBatch \in Nat \ {0} /\ LargeBatch \in Nat \ {0} /\ GateBytes \in Nat
    /\ PoolBytes \in Nat /\ LegacyBytes \in Nat /\ MinPassed \in Nat
    /\ ReserveBytes \in Nat /\ CpuThreads \in Nat \ {0} /\ IntWidth \in Nat \ {0}
  BY WorkSplitAssumption

\* The memory of a launch grows with the launch, although the slots for nonces
\* that pass come in steps.
LEMMA SizeGrows ==
    ASSUME NEW r \in Rigs, NEW b \in Nat, NEW c \in Nat, b <= c
    PROVE  /\ LaunchBatchBytes(r, b) \in Nat /\ LaunchBatchBytes(r, c) \in Nat
           /\ LaunchBatchBytes(r, b) <= LaunchBatchBytes(r, c)
<1> DEFINE p == 2^Lesser(r.epsilon, 20)
<1>1. r.epsilon \in Nat /\ r.legacy \in BOOLEAN
  BY RigAssumption
<1>2. p \in Nat \ {0}
  BY <1>1, PowerPositive DEF Lesser
<1>3. b \div p \in Nat /\ c \div p \in Nat /\ b \div p <= c \div p
  BY <1>2, Quotient, QuotientGrows
<1> HIDE DEF p
<1>4. PassedCap(r, b) \in Nat /\ PassedCap(r, c) \in Nat /\ PassedCap(r, b) <= PassedCap(r, c)
  BY <1>3, SplitTypes DEF PassedCap, Lesser, Greater, p
<1>5. /\ PassedCap(r, b) * PoolBytes \in Nat /\ PassedCap(r, c) * PoolBytes \in Nat
      /\ PassedCap(r, b) * PoolBytes <= PassedCap(r, c) * PoolBytes
  BY <1>4, SplitTypes, ProductGrows
<1>6. /\ b * GateBytes \in Nat /\ c * GateBytes \in Nat /\ b * GateBytes <= c * GateBytes
      /\ b * LegacyBytes \in Nat /\ c * LegacyBytes \in Nat
      /\ b * LegacyBytes <= c * LegacyBytes
  BY SplitTypes, ProductGrows
<1>7. \A k \in {b, c} : LaunchBatchBytes(r, k) =
          IF r.legacy THEN k * LegacyBytes
          ELSE k * GateBytes + PassedCap(r, k) * PoolBytes + LegacyBytes
  BY DEF LaunchBatchBytes
<1> QED
  BY <1>5, <1>6, <1>7, SplitTypes

\* What the search has found out when lo .. hi is left: best, just below lo, is
\* the largest that is known to fit, and nothing above hi does.
Narrowed(r, free, cap, b) ==
    /\ b \in [lo : Nat, hi : Nat, best : Nat]
    /\ MinBatch <= b.lo /\ b.hi <= cap
    /\ \/ b.best = MinBatch /\ b.lo = MinBatch
       \/ b.best + 1 = b.lo /\ b.best \in MinBatch .. cap /\ Fits(r, b.best, free)
    /\ \A c \in MinBatch .. cap : b.hi < c => ~Fits(r, c, free)

LEMMA TurnNarrows ==
    ASSUME NEW r \in Rigs, NEW free \in Nat, ReserveBytes < free, NEW cap \in Nat,
           NEW b, Narrowed(r, free, cap, b)
    PROVE  /\ Narrowed(r, free, cap, Turn(r, free, b))
           /\ b.lo > b.hi => Turn(r, free, b) = b
           /\ b.lo <= b.hi => Turn(r, free, b).hi - Turn(r, free, b).lo < b.hi - b.lo
<1> DEFINE mid == b.lo + (b.hi - b.lo) \div 2
<1>1. b.lo \in Nat /\ b.hi \in Nat /\ b.best \in Nat
  BY DEF Narrowed
<1>2. CASE b.lo > b.hi
  BY <1>1, <1>2 DEF Turn
<1>3. CASE b.lo <= b.hi
  <2>1. mid \in Nat /\ b.lo <= mid /\ mid <= b.hi
    BY <1>1, <1>3
  <2>2. /\ Fits(r, mid, free) => Turn(r, free, b) = [lo |-> mid + 1, hi |-> b.hi, best |-> mid]
        /\ ~Fits(r, mid, free) => Turn(r, free, b) = [lo |-> b.lo, hi |-> mid - 1, best |-> b.best]
    BY <1>1, <1>3 DEF Turn
  <2> HIDE DEF mid
  <2>3. mid \in MinBatch .. cap /\ MinBatch \in Nat \ {0}
    BY <1>1, <2>1, SplitTypes DEF Narrowed
  <2>4. CASE Fits(r, mid, free)
    BY <1>1, <2>1, <2>2, <2>3, <2>4 DEF Narrowed
  <2>5. CASE ~Fits(r, mid, free)
    <3>1. ASSUME NEW c \in MinBatch .. cap, mid <= c PROVE ~Fits(r, c, free)
      <4>1. /\ LaunchBatchBytes(r, mid) \in Nat /\ LaunchBatchBytes(r, c) \in Nat
            /\ LaunchBatchBytes(r, mid) <= LaunchBatchBytes(r, c)
        BY <2>1, <2>3, <3>1, SizeGrows
      <4>2. Usable(free) \in Int
        BY SplitTypes DEF Usable
      <4> QED
        BY <2>5, <4>1, <4>2 DEF Fits
    <3>2. mid - 1 \in Nat /\ mid - 1 <= cap
      BY <2>1, <2>3
    <3>3. \A c \in MinBatch .. cap : mid - 1 < c => ~Fits(r, c, free)
      BY <2>1, <2>3, <3>1
    <3> QED
      BY <1>1, <2>1, <2>2, <2>5, <3>2, <3>3 DEF Narrowed
  <2> QED
    BY <2>4, <2>5
<1> QED
  BY <1>1, <1>2, <1>3

\* The search of the code, for any memory above the reserve, ends with lo above hi
\* within cap turns.
LEMMA SearchEnds ==
    ASSUME NEW r \in Rigs, NEW d, NEW free \in Nat, ReserveBytes < free,
           NEW cap \in Nat, cap = CapOf[r.total[d]]
    PROVE  \E b : /\ Narrowed(r, free, cap, b) /\ b.hi < b.lo
                  /\ AutoBatchSizeForDevice(r, d, free) = b.best
<1> DEFINE first == [lo |-> MinBatch, hi |-> cap, best |-> MinBatch]
           N == {b \in [lo : Nat, hi : Nat, best : Nat] : Narrowed(r, free, cap, b)}
           isBracket(f) == f = [k \in 0 .. cap |->
                                  IF k = 0 THEN first ELSE Turn(r, free, f[k - 1])]
           Bracket == CHOOSE f : isBracket(f)
<1>1. first \in N
  BY SplitTypes DEF Narrowed
<1>2. \A b \in N : Turn(r, free, b) \in N
  <2> SUFFICES ASSUME NEW b \in N PROVE Turn(r, free, b) \in N
    OBVIOUS
  <2>1. Narrowed(r, free, cap, Turn(r, free, b))
    BY TurnNarrows
  <2>2. Turn(r, free, b) \in [lo : Nat, hi : Nat, best : Nat]
    BY <2>1 DEF Narrowed
  <2> QED
    BY <2>1, <2>2
<1> HIDE DEF first, N
<1>3. \E f : isBracket(f)
  <2> DEFINE step == [k \in 1 .. cap |-> [b \in N |-> Turn(r, free, b)]]
  <2>1. step \in [1 .. cap -> [N -> N]]
    BY <1>2
  <2> HIDE DEF step
  <2>2. PICK f \in [0 .. cap -> N] : Iterates(f, cap, first, step)
    BY <1>1, <2>1, IterationExists
  <2>3. ASSUME NEW k \in 0 .. cap, k # 0 PROVE step[k][f[k - 1]] = Turn(r, free, f[k - 1])
    <3>1. k \in 1 .. cap /\ f[k - 1] \in N
      BY <2>2, <2>3
    <3> QED
      BY <3>1 DEF step
  <2>4. f = [k \in 0 .. cap |-> IF k = 0 THEN first ELSE step[k][f[k - 1]]]
    BY <2>2 DEF Iterates
  <2>5. \A k \in 0 .. cap : (IF k = 0 THEN first ELSE step[k][f[k - 1]])
                            = IF k = 0 THEN first ELSE Turn(r, free, f[k - 1])
    BY <2>3
  <2> QED
    BY <2>4, <2>5
<1>4. isBracket(Bracket)
  BY <1>3, Zenon
<1>5. AutoBatchSizeForDevice(r, d, free) = Bracket[cap].best
  BY SplitTypes DEF AutoBatchSizeForDevice, first
<1> HIDE DEF Bracket
<1>6. \A k \in 0 .. cap : Bracket[k] = IF k = 0 THEN first ELSE Turn(r, free, Bracket[k - 1])
  BY <1>4
<1> DEFINE S == {k \in 0 .. cap : /\ Bracket[k] \in N
                                  /\ \/ Bracket[k].hi < Bracket[k].lo
                                     \/ Bracket[k].hi - Bracket[k].lo < cap - k}
<1>7. 0 \in S
  <2>1. 0 \in 0 .. cap /\ Bracket[0] = first
    BY <1>6
  <2>2. first.hi = cap /\ first.lo = MinBatch
    BY DEF first
  <2> QED
    BY <1>1, <2>1, <2>2, SplitTypes
<1>8. ASSUME NEW k \in 1 .. cap, k - 1 \in S PROVE k \in S
  <2> DEFINE b == Bracket[k - 1]
  <2>1. k \in 0 .. cap /\ Bracket[k] = Turn(r, free, b)
    BY <1>6
  <2>2. b \in N /\ Bracket[k] \in N
    BY <1>2, <1>8, <2>1
  <2>3. /\ b.lo > b.hi => Bracket[k] = b
        /\ b.lo <= b.hi => Bracket[k].hi - Bracket[k].lo < b.hi - b.lo
    BY <2>1, <2>2, TurnNarrows DEF N
  <2>4. /\ b.lo \in Nat /\ b.hi \in Nat
        /\ Bracket[k].lo \in Nat /\ Bracket[k].hi \in Nat
    BY <2>2 DEF N
  <2>5. b.hi < b.lo \/ b.hi - b.lo < cap - (k - 1)
    BY <1>8
  <2> HIDE DEF b
  <2>6. Bracket[k].hi < Bracket[k].lo \/ Bracket[k].hi - Bracket[k].lo < cap - k
    BY <2>3, <2>4, <2>5
  <2> QED
    BY <2>1, <2>2, <2>6
<1> HIDE DEF S
<1>9. cap \in S
  <2>1. 0 .. cap \subseteq S
    BY <1>7, <1>8, InductionOverTurns
  <2> QED
    BY <2>1
<1>10. Bracket[cap] \in N /\ Bracket[cap].hi < Bracket[cap].lo
  BY <1>9 DEF S, N
<1> QED
  BY <1>5, <1>10 DEF N

Fitting(r, d, free) == {b \in MinBatch .. CapOf[r.total[d]] : Fits(r, b, free)}

LEMMA AutoBatchIsLargest ==
    ASSUME NEW r \in Rigs, NEW d \in ToSet(r.usable), NEW free \in Nat
    PROVE  /\ AutoBatchSizeForDevice(r, d, free) \in Nat
           /\ IF Fitting(r, d, free) = {} \/ free <= ReserveBytes
              THEN AutoBatchSizeForDevice(r, d, free) = MinBatch
              ELSE /\ AutoBatchSizeForDevice(r, d, free) \in Fitting(r, d, free)
                   /\ \A b \in Fitting(r, d, free) : b <= AutoBatchSizeForDevice(r, d, free)
<1> DEFINE auto == AutoBatchSizeForDevice(r, d, free)
<1>1. CASE free <= ReserveBytes
  BY <1>1, SplitTypes DEF AutoBatchSizeForDevice
<1>2. CASE ~(free <= ReserveBytes)
  <2>1. ReserveBytes < free /\ CapOf[r.total[d]] \in Nat
    BY <1>2, SplitTypes, RigAssumption
  <2>2. PICK b : /\ Narrowed(r, free, CapOf[r.total[d]], b) /\ b.hi < b.lo
                 /\ auto = b.best
    BY <2>1, SearchEnds
  <2> HIDE DEF auto
  <2>3. b.lo \in Nat /\ b.hi \in Nat /\ b.best \in Nat
    BY <2>2 DEF Narrowed
  <2>4. \A c \in Fitting(r, d, free) : c <= b.hi
    BY <2>1, <2>2, <2>3, SplitTypes DEF Narrowed, Fitting
  <2>5. CASE b.best = MinBatch /\ b.lo = MinBatch
    <3>1. Fitting(r, d, free) = {}
      BY <2>1, <2>2, <2>3, <2>4, <2>5, SplitTypes DEF Fitting
    <3> QED
      BY <2>2, <2>3, <2>5, <3>1 DEF auto
  <2>6. CASE b.best + 1 = b.lo /\ b.best \in Fitting(r, d, free)
    <3>1. \A c \in Fitting(r, d, free) : c <= b.best
      <4>1. ASSUME NEW c \in Fitting(r, d, free) PROVE c <= b.best
        <5>1. c <= b.hi /\ c \in Int
          BY <2>4 DEF Fitting
        <5> QED
          BY <2>2, <2>3, <2>6, <5>1
      <4> QED
        BY <4>1
    <3> QED
      BY <1>2, <2>2, <2>3, <2>6, <3>1 DEF auto
  <2> QED
    BY <2>2, <2>5, <2>6 DEF Narrowed, Fitting
<1> QED
  BY <1>1, <1>2

-----------------------------------------------------------------------------
(* What main asks for as the chunk of a call *)

\* The launch of an active device is the number the user gave, or the automatic
\* one.
LEMMA LaunchTypes ==
    ASSUME NEW r \in Rigs, NEW i \in DOMAIN ActiveDevices(r)
    PROVE  /\ ActiveDevices(r)[i] \in ToSet(r.usable)
           /\ Requested(r, i) \in Int
           /\ ResolveLaunchBatch(r, i, r.free) \in Nat
           /\ ResolveLaunchBatch(r, i, r.freeAtStart) \in Nat
<1> DEFINE d == ActiveDevices(r)[i]
<1>1. d \in ToSet(r.usable)
  BY ActiveTypes
<1>2. Requested(r, i) \in Int
  BY RigAssumption DEF Requested
<1>3. r.free[d] \in Nat /\ r.freeAtStart[d] \in Nat
  BY <1>1, RigAssumption
<1>4. /\ AutoBatchSizeForDevice(r, d, r.free[d]) \in Nat
      /\ AutoBatchSizeForDevice(r, d, r.freeAtStart[d]) \in Nat
  BY <1>1, <1>3, AutoBatchIsLargest
<1>5. \A free : ResolveLaunchBatch(r, i, free) =
          IF Requested(r, i) > 0 THEN Requested(r, i)
          ELSE AutoBatchSizeForDevice(r, d, free[d])
  BY DEF ResolveLaunchBatch
<1> HIDE DEF d
<1> QED
  BY <1>1, <1>2, <1>4, <1>5 DEF d

LEMMA LargestExists ==
    ASSUME NEW n \in Nat, NEW f \in [1 .. n -> Nat], NEW base \in Nat
    PROVE  \E s \in {base} \cup {f[i] : i \in 1 .. n} :
               \A t \in {base} \cup {f[i] : i \in 1 .. n} : t <= s
<1> DEFINE Sizes(k) == {base} \cup {f[i] : i \in 1 .. k}
           S == {k \in 0 .. n : \E s \in Sizes(k) : \A t \in Sizes(k) : t <= s}
<1>1. 0 \in S
  <2>1. Sizes(0) = {base}
    OBVIOUS
  <2> QED
    BY <2>1
<1>2. ASSUME NEW k \in 1 .. n, k - 1 \in S PROVE k \in S
  <2>1. PICK s \in Sizes(k - 1) : \A t \in Sizes(k - 1) : t <= s
    BY <1>2
  <2>2. Sizes(k) = Sizes(k - 1) \cup {f[k]} /\ Sizes(k) \subseteq Nat
    <3>1. 1 .. k = (1 .. k - 1) \cup {k}
      OBVIOUS
    <3> QED
      BY <3>1
  <2> HIDE DEF Sizes
  <2>3. CASE s <= f[k]
    BY <2>1, <2>2, <2>3
  <2>4. CASE f[k] < s
    BY <2>1, <2>2, <2>4
  <2>5. s \in Nat /\ f[k] \in Nat
    BY <2>1, <2>2
  <2>6. \E u \in Sizes(k) : \A t \in Sizes(k) : t <= u
    BY <2>3, <2>4, <2>5
  <2> QED
    BY <2>6
<1> HIDE DEF S
<1>3. 0 .. n \subseteq S
  BY <1>1, <1>2, InductionOverTurns
<1>4. n \in S
  BY <1>3
<1> QED
  BY <1>4 DEF S

LEMMA MaxResolvedTypes ==
    ASSUME NEW r \in Rigs
    PROVE  /\ MaxResolvedLaunchBatch(r) \in Nat
           /\ \A i \in DOMAIN ActiveDevices(r) :
                 ResolveLaunchBatch(r, i, r.freeAtStart) <= MaxResolvedLaunchBatch(r)
<1> DEFINE n == Len(ActiveDevices(r))
           f == [i \in 1 .. n |-> ResolveLaunchBatch(r, i, r.freeAtStart)]
           sizes == {LargeBatch} \cup {f[i] : i \in 1 .. n}
<1>1. n \in Nat /\ DOMAIN ActiveDevices(r) = 1 .. n
  BY ActiveTypes
<1>2. f \in [1 .. n -> Nat]
  BY <1>1, LaunchTypes
<1>3. sizes = {LargeBatch} \cup
              {ResolveLaunchBatch(r, i, r.freeAtStart) : i \in DOMAIN ActiveDevices(r)}
  BY <1>1
<1> HIDE DEF f, n
<1>4. \E s \in sizes : \A t \in sizes : t <= s
  BY <1>1, <1>2, SplitTypes, LargestExists
<1>5. /\ MaxResolvedLaunchBatch(r) \in sizes
      /\ \A t \in sizes : t <= MaxResolvedLaunchBatch(r)
  BY <1>3, <1>4 DEF MaxResolvedLaunchBatch
<1>6. MaxResolvedLaunchBatch(r) \in Nat
  BY <1>2, <1>5, SplitTypes
<1> QED
  BY <1>3, <1>5, <1>6

LEMMA ChunkTypes ==
    ASSUME NEW r \in Rigs
    PROVE  RecommendJobChunkSize(r) \in Nat \ {0}
<1> DEFINE n == Len(ActiveDevices(r))
<1>1. n \in Nat
  BY ActiveTypes
<1>2. MaxResolvedLaunchBatch(r) \in Nat
  BY MaxResolvedTypes
<1> HIDE DEF n
<1>3. FourPerDevice(r) \in Nat
  <2>1. Greater(1, n) \in Nat
    BY <1>1 DEF Greater
  <2>2. MaxResolvedLaunchBatch(r) * Greater(1, n) \in Nat
    BY <1>2, <2>1, ProductGrows
  <2> QED
    BY <2>2 DEF FourPerDevice, n
<1>4. 2^IntWidth \in Nat \ {0} /\ 2^(IntWidth - 1) \in Nat
  <2>1. IntWidth \in Nat /\ IntWidth - 1 \in Nat
    BY SplitTypes
  <2> QED
    BY <2>1, PowerPositive
<1>5. \A x \in Nat : AsInt(x) \in Int
  BY <1>4 DEF AsInt
<1> QED
  BY <1>3, <1>5, SplitTypes DEF RecommendJobChunkSize, Greater

-----------------------------------------------------------------------------
(* The inductive invariant *)

Indices == IF OnGpus THEN DOMAIN ActiveDevices(rig) ELSE 1 .. CpuThreads

WorkerStates == {"search", "failed", "done", "stopped"}
WorkerRecords == [from : Nat, to : Nat, next : Nat, launch : Nat,
                  found : SUBSET Nat, at : WorkerStates]

TypeOK ==
    /\ rig \in Rigs
    /\ range \in [start : Nat, count : Nat \ {0}]
    /\ workers = <<>> \/ workers \in [Indices -> WorkerRecords]
    /\ merged \in SUBSET Nat

\* A device keeps the part and the launch it was given.
DeviceInv ==
    OnGpus => \A i \in DOMAIN workers :
        /\ workers[i].launch = ResolveLaunchBatch(rig, i, rig.free)
        /\ workers[i].from = PartOfDevice(i, Len(ActiveDevices(rig))).from
        /\ workers[i].to = PartOfDevice(i, Len(ActiveDevices(rig))).to

\* The parts are in order, lie within the range and leave nothing of it out.
DivisionInv ==
    workers # <<>> =>
        /\ \A i \in DOMAIN workers : workers[i].from <= workers[i].to
        /\ \A i, j \in DOMAIN workers : i < j => workers[i].to <= workers[j].from
        /\ \A i \in DOMAIN workers, x \in Nat :
              workers[i].from <= x /\ x < workers[i].to => x \in Asked
        /\ \A x \in Asked : \E i \in DOMAIN workers :
              workers[i].from <= x /\ x < workers[i].to

\* What a thread has passed.
Passed(i, x) == workers[i].from <= x /\ x < workers[i].next

\* A solution that a thread has passed is with the thread or with the call, and
\* nothing else is.
SolutionInv ==
    /\ \A i \in DOMAIN workers :
          /\ workers[i].from <= workers[i].next /\ workers[i].next <= workers[i].to
          /\ workers[i].at = "done" => workers[i].next = workers[i].to
          /\ \A x \in workers[i].found : x \in Winners /\ Passed(i, x)
          /\ \A x \in Winners : Passed(i, x) =>
                \/ x \in merged
                \/ (x \in workers[i].found /\ workers[i].at \in {"search", "failed"})
    /\ \A x \in merged : x \in Winners /\ \E i \in DOMAIN workers : Passed(i, x)

IInv == TypeOK /\ DeviceInv /\ DivisionInv /\ SolutionInv

-----------------------------------------------------------------------------
(* It holds at the start and of every division of a range *)

LEMMA Start == SplitInit => IInv
<1> SUFFICES ASSUME SplitInit PROVE IInv
  OBVIOUS
<1>1. rig \in Rigs /\ workers = <<>> /\ merged = {}
  BY DEF SplitInit
<1>2. range \in [start : Nat, count : Nat \ {0}]
  BY <1>1, ChunkTypes, WorkSplitAssumption DEF SplitInit
<1>3. DOMAIN workers = {}
  BY <1>1
<1> QED
  BY <1>1, <1>2, <1>3 DEF IInv, TypeOK, DeviceInv, DivisionInv, SolutionInv

\* The ends of the parts of n devices go from the start of the range to its end.
EndOf(i, n) == range.start + (range.count * i) \div n

LEMMA EndsOfDevices ==
    ASSUME TypeOK, NEW n \in Nat \ {0}
    PROVE  /\ \A i \in 0 .. n : EndOf(i, n) \in Nat /\ range.start <= EndOf(i, n)
           /\ \A i, j \in 0 .. n : i <= j => EndOf(i, n) <= EndOf(j, n)
           /\ EndOf(0, n) = range.start /\ EndOf(n, n) = range.start + range.count
           /\ \A i \in 1 .. n : PartOfDevice(i, n) = [from |-> EndOf(i - 1, n), to |-> EndOf(i, n)]
<1> DEFINE c == range.count
<1>1. range.start \in Nat /\ c \in Nat
  BY DEF TypeOK
<1> HIDE DEF c
<1>2. \A i, j \in 0 .. n : i <= j => c * i \in Nat /\ c * j \in Nat /\ c * i <= c * j
  BY <1>1
<1>3. \A i \in 0 .. n : (c * i) \div n \in Nat
  BY <1>2, Quotient
<1>4. \A i, j \in 0 .. n : i <= j => (c * i) \div n <= (c * j) \div n
  BY <1>2, QuotientGrows
<1>5. (c * 0) \div n = 0
  BY <1>1
<1>6. (c * n) \div n = c
  <2> DEFINE q == (c * n) \div n
  <2>1. q \in Nat /\ n * q <= c * n /\ c * n < n * q + n
    BY <1>1, <1>2, Quotient
  <2> HIDE DEF q
  <2>2. ASSUME q < c PROVE FALSE
    <3>1. n * (q + 1) <= n * c /\ n * (q + 1) = n * q + n /\ c * n = n * c
      BY <1>1, <2>1, <2>2
    <3> QED
      BY <1>1, <2>1, <3>1
  <2>3. ASSUME c < q PROVE FALSE
    <3>1. n * (c + 1) <= n * q /\ n * (c + 1) = n * c + n /\ c * n = n * c
      BY <1>1, <2>1, <2>3
    <3> QED
      BY <1>1, <2>1, <3>1
  <2>4. q = c
    BY <1>1, <2>1, <2>2, <2>3
  <2> QED
    BY <2>4 DEF q
<1>7. \A i \in 0 .. n : EndOf(i, n) = range.start + (c * i) \div n
  BY DEF EndOf, c
<1>8. \A i \in 1 .. n : i - 1 \in 0 .. n /\ i \in 0 .. n
  OBVIOUS
<1>9. \A i \in 1 .. n : PartOfDevice(i, n) = [from |-> EndOf(i - 1, n), to |-> EndOf(i, n)]
  BY DEF PartOfDevice, EndOf
<1>10. \A i \in 0 .. n : EndOf(i, n) \in Nat /\ range.start <= EndOf(i, n)
  BY <1>1, <1>3, <1>7
<1>11. \A i, j \in 0 .. n : i <= j => EndOf(i, n) <= EndOf(j, n)
  BY <1>1, <1>3, <1>4, <1>7
<1>12. EndOf(0, n) = range.start /\ EndOf(n, n) = range.start + c
  BY <1>1, <1>5, <1>6, <1>7
<1> QED
  BY <1>9, <1>10, <1>11, <1>12 DEF c

\* The parts of a division, which is part[1] .. part[n].
Divides(part, n) ==
    /\ \A i \in 1 .. n : /\ part[i] \in [from : Nat, to : Nat]
                         /\ part[i].from <= part[i].to
    /\ \A i, j \in 1 .. n : i < j => part[i].to <= part[j].from
    /\ \A i \in 1 .. n, x \in Nat : part[i].from <= x /\ x < part[i].to => x \in Asked
    /\ \A x \in Asked : \E i \in 1 .. n : part[i].from <= x /\ x < part[i].to

LEMMA DevicesDivide ==
    ASSUME TypeOK, NEW n \in Nat \ {0}
    PROVE  Divides([i \in 1 .. n |-> PartOfDevice(i, n)], n)
<1> DEFINE part == [i \in 1 .. n |-> PartOfDevice(i, n)]
           e(i) == EndOf(i, n)
<1>1. range.start \in Nat /\ range.count \in Nat
  BY DEF TypeOK
<1>2. /\ \A i \in 0 .. n : e(i) \in Nat /\ range.start <= e(i)
      /\ \A i, j \in 0 .. n : i <= j => e(i) <= e(j)
      /\ e(0) = range.start /\ e(n) = range.start + range.count
  BY EndsOfDevices
<1>3. \A i \in 1 .. n : part[i] = [from |-> e(i - 1), to |-> e(i)]
  BY EndsOfDevices
<1>4. \A i \in 1 .. n : /\ part[i].from = e(i - 1) /\ part[i].to = e(i)
                        /\ i - 1 \in 0 .. n /\ i \in 0 .. n
  BY <1>3
<1> HIDE DEF part, e
<1>5. \A i \in 1 .. n : part[i] \in [from : Nat, to : Nat] /\ part[i].from <= part[i].to
  <2> SUFFICES ASSUME NEW i \in 1 .. n
               PROVE  part[i] \in [from : Nat, to : Nat] /\ part[i].from <= part[i].to
    OBVIOUS
  <2>1. i - 1 \in 0 .. n /\ i \in 0 .. n /\ i - 1 <= i
    OBVIOUS
  <2>2. e(i - 1) \in Nat /\ e(i) \in Nat /\ e(i - 1) <= e(i)
    BY <1>2, <2>1
  <2>3. part[i].from = e(i - 1) /\ part[i].to = e(i)
    BY <1>4
  <2>4. part[i] = [from |-> e(i - 1), to |-> e(i)]
    BY <1>3
  <2> QED
    BY <2>2, <2>3, <2>4
<1>6. \A i, j \in 1 .. n : i < j => part[i].to <= part[j].from
  <2> SUFFICES ASSUME NEW i \in 1 .. n, NEW j \in 1 .. n, i < j
               PROVE  e(i) <= e(j - 1)
    BY <1>4
  <2>1. i <= j - 1 /\ i \in 0 .. n /\ j - 1 \in 0 .. n
    OBVIOUS
  <2> QED
    BY <1>2, <2>1
<1>7. \A i \in 1 .. n, x \in Nat : part[i].from <= x /\ x < part[i].to => x \in Asked
  <2> SUFFICES ASSUME NEW i \in 1 .. n, NEW x \in Nat, e(i - 1) <= x, x < e(i)
               PROVE  x \in Asked
    BY <1>4
  <2>1. i - 1 \in 0 .. n /\ i \in 0 .. n /\ n \in 0 .. n /\ i <= n
    OBVIOUS
  <2>2. range.start <= e(i - 1) /\ e(i) <= e(n) /\ e(i - 1) \in Nat /\ e(i) \in Nat
    BY <1>2, <2>1
  <2> QED
    BY <1>1, <1>2, <2>2 DEF Asked
<1>8. \A x \in Asked : \E i \in 1 .. n : part[i].from <= x /\ x < part[i].to
  <2> SUFFICES ASSUME NEW x \in Asked
               PROVE  \E i \in 1 .. n : part[i].from <= x /\ x < part[i].to
    OBVIOUS
  <2>1. x \in Nat /\ range.start <= x /\ x < range.start + range.count
    BY <1>1 DEF Asked
  <2> DEFINE T == {i \in 1 .. n : x < e(i)}
  <2>2. n \in T /\ T \in SUBSET Nat
    BY <1>2, <2>1
  <2>3. PICK i \in T : \A j \in T : i <= j
    <3> HIDE DEF T
    <3> QED
      BY <2>2, LeastNatural
  <2>4. e(i - 1) <= x
    <3>1. CASE i = 1
      BY <1>2, <2>1, <3>1
    <3>2. CASE i # 1
      <4>1. i - 1 \in 1 .. n /\ i - 1 \in 0 .. n /\ i - 1 \notin T
        BY <2>3, <3>2
      <4>2. ~(x < e(i - 1)) /\ e(i - 1) \in Nat
        BY <1>2, <4>1
      <4> QED
        BY <2>1, <4>2
    <3> QED
      BY <3>1, <3>2
  <2> QED
    BY <1>4, <2>3, <2>4
<1> QED
  BY <1>5, <1>6, <1>7, <1>8 DEF Divides, part

\* The threads get parts of the same size as long as there is something left.
LEMMA ThreadsDivide ==
    ASSUME TypeOK
    PROVE  Divides([t \in 1 .. CpuThreads |-> PartOfThread(t)], CpuThreads)
<1> DEFINE n == CpuThreads
           part == [t \in 1 .. n |-> PartOfThread(t)]
           s == range.start
           c == range.count
           per == (c + n - 1) \div n
           b(t) == s + t * per
<1>1. s \in Nat /\ c \in Nat /\ n \in Nat \ {0}
  BY SplitTypes DEF TypeOK
<1>2. per \in Nat /\ c <= n * per
  <2>1. c + n - 1 \in Nat
    BY <1>1
  <2>2. per \in Nat /\ c + n - 1 < n * per + n
    BY <1>1, <2>1, Quotient
  <2> HIDE DEF per, n, c
  <2> QED
    BY <1>1, <2>2
<1>3. \A t \in 1 .. n :
         part[t] = [from |-> b(t - 1),
                    to |-> Greater(b(t - 1), Lesser(s + c, b(t - 1) + per))]
  BY DEF PartOfThread
<1> HIDE DEF part, per, n, s, c
<1>4. /\ \A t \in 0 .. n : b(t) \in Nat /\ s <= b(t)
      /\ \A t, u \in 0 .. n : t <= u => b(t) <= b(u)
      /\ b(0) = s /\ s + c <= b(n)
      /\ \A t \in 1 .. n : b(t - 1) + per = b(t)
  BY <1>1, <1>2
<1> HIDE DEF b
<1>5. \A t \in 1 .. n : /\ part[t].from = b(t - 1)
                        /\ part[t].to = Greater(b(t - 1), Lesser(s + c, b(t)))
                        /\ t - 1 \in 0 .. n /\ t \in 0 .. n
                        /\ part[t] = [from |-> part[t].from, to |-> part[t].to]
  <2> SUFFICES ASSUME NEW t \in 1 .. n
               PROVE  /\ part[t].from = b(t - 1)
                      /\ part[t].to = Greater(b(t - 1), Lesser(s + c, b(t)))
                      /\ t - 1 \in 0 .. n /\ t \in 0 .. n
                      /\ part[t] = [from |-> part[t].from, to |-> part[t].to]
    OBVIOUS
  <2>1. b(t - 1) + per = b(t)
    BY <1>4
  <2>2. part[t] = [from |-> b(t - 1), to |-> Greater(b(t - 1), Lesser(s + c, b(t - 1) + per))]
    BY <1>3
  <2>3. part[t] = [from |-> b(t - 1), to |-> Greater(b(t - 1), Lesser(s + c, b(t)))]
    BY <2>1, <2>2, Zenon
  <2>4. t - 1 \in 0 .. n /\ t \in 0 .. n
    BY <1>1
  <2> QED
    BY <2>3, <2>4
<1>6. \A t \in 1 .. n : /\ b(t - 1) <= part[t].to /\ part[t].to \in Nat
                        /\ part[t].to <= b(t)
                        /\ \A x \in Nat : b(t - 1) <= x =>
                              (x < part[t].to <=> x < s + c /\ x < b(t))
  <2> SUFFICES ASSUME NEW t \in 1 .. n
               PROVE  /\ b(t - 1) <= part[t].to /\ part[t].to \in Nat
                      /\ part[t].to <= b(t)
                      /\ \A x \in Nat : b(t - 1) <= x =>
                            (x < part[t].to <=> x < s + c /\ x < b(t))
    OBVIOUS
  <2>1. t - 1 \in 0 .. n /\ t \in 0 .. n /\ t - 1 <= t
    BY <1>1
  <2>2. b(t - 1) \in Nat /\ b(t) \in Nat /\ b(t - 1) <= b(t) /\ s + c \in Nat
    BY <1>1, <1>4, <2>1
  <2>3. part[t].to = Greater(b(t - 1), Lesser(s + c, b(t)))
    BY <1>5
  <2> QED
    BY <2>2, <2>3 DEF Greater, Lesser
<1>7. \A t \in 1 .. n : part[t] \in [from : Nat, to : Nat] /\ part[t].from <= part[t].to
  <2> SUFFICES ASSUME NEW t \in 1 .. n
               PROVE  part[t] \in [from : Nat, to : Nat] /\ part[t].from <= part[t].to
    OBVIOUS
  <2>1. b(t - 1) \in Nat
    BY <1>4, <1>5
  <2>2. part[t].from = b(t - 1) /\ b(t - 1) <= part[t].to /\ part[t].to \in Nat
    BY <1>5, <1>6
  <2>3. part[t] = [from |-> part[t].from, to |-> part[t].to]
    BY <1>5
  <2> QED
    BY <2>1, <2>2, <2>3
<1>8. \A t, u \in 1 .. n : t < u => part[t].to <= part[u].from
  <2> SUFFICES ASSUME NEW t \in 1 .. n, NEW u \in 1 .. n, t < u
               PROVE  part[t].to <= b(u - 1)
    BY <1>5
  <2>1. t <= u - 1 /\ t \in 0 .. n /\ u - 1 \in 0 .. n
    BY <1>1
  <2>2. b(t) <= b(u - 1) /\ b(t) \in Nat /\ b(u - 1) \in Nat
    BY <1>4, <2>1
  <2>3. part[t].to <= b(t) /\ part[t].to \in Nat
    BY <1>6
  <2> QED
    BY <2>2, <2>3
<1>9. \A t \in 1 .. n, x \in Nat : part[t].from <= x /\ x < part[t].to => x \in Asked
  <2> SUFFICES ASSUME NEW t \in 1 .. n, NEW x \in Nat, b(t - 1) <= x, x < part[t].to
               PROVE  x \in Asked
    BY <1>5
  <2>1. x < s + c
    BY <1>6
  <2>2. s <= b(t - 1) /\ b(t - 1) \in Nat
    BY <1>4, <1>5
  <2> QED
    BY <1>1, <2>1, <2>2 DEF Asked, s, c
<1>10. \A x \in Asked : \E t \in 1 .. n : part[t].from <= x /\ x < part[t].to
  <2> SUFFICES ASSUME NEW x \in Asked
               PROVE  \E t \in 1 .. n : part[t].from <= x /\ x < part[t].to
    OBVIOUS
  <2>1. x \in Nat /\ s <= x /\ x < s + c
    BY <1>1 DEF Asked, s, c
  <2> DEFINE T == {t \in 1 .. n : x < b(t)}
  <2>2. n \in T /\ T \in SUBSET Nat
    <3>1. n \in 1 .. n /\ n \in 0 .. n
      BY <1>1
    <3>2. b(n) \in Nat /\ s + c <= b(n)
      BY <1>4, <3>1
    <3> QED
      BY <1>1, <2>1, <3>1, <3>2
  <2>3. PICK t \in T : \A u \in T : t <= u
    <3> HIDE DEF T
    <3> QED
      BY <2>2, LeastNatural
  <2>4. b(t - 1) <= x
    <3>1. CASE t = 1
      BY <1>4, <2>1, <3>1
    <3>2. CASE t # 1
      <4>1. t - 1 \in 1 .. n /\ t - 1 \in 0 .. n /\ t - 1 \notin T
        BY <1>1, <2>3, <3>2
      <4>2. ~(x < b(t - 1)) /\ b(t - 1) \in Nat
        BY <1>4, <4>1
      <4> QED
        BY <2>1, <4>2
    <3> QED
      BY <3>1, <3>2
  <2>5. x < part[t].to
    BY <1>6, <2>1, <2>3, <2>4
  <2> QED
    BY <1>5, <2>3, <2>4, <2>5
<1> QED
  BY <1>7, <1>8, <1>9, <1>10 DEF Divides, part, n

LEMMA IndicesAreNumbers ==
    ASSUME TypeOK
    PROVE  /\ Indices \subseteq Nat \ {0}
           /\ Indices = 1 .. (IF OnGpus THEN Len(ActiveDevices(rig)) ELSE CpuThreads)
           /\ (IF OnGpus THEN Len(ActiveDevices(rig)) ELSE CpuThreads) \in Nat \ {0}
<1>1. rig \in Rigs
  BY DEF TypeOK
<1>2. ActiveDevices(rig) \in Seq(ToSet(rig.usable))
  BY <1>1, ActiveTypes
<1>3. CASE OnGpus
  <2>1. /\ Len(ActiveDevices(rig)) \in Nat
        /\ DOMAIN ActiveDevices(rig) = 1 .. Len(ActiveDevices(rig))
    BY <1>2
  <2>2. Len(ActiveDevices(rig)) # 0
    BY <1>2, <1>3, <2>1 DEF OnGpus
  <2> QED
    BY <1>3, <2>1, <2>2 DEF Indices
<1>4. CASE ~OnGpus
  BY <1>4, SplitTypes DEF Indices
<1> QED
  BY <1>3, <1>4

LEMMA DispatchKeepsInv ==
    ASSUME IInv, Dispatch
    PROVE  IInv'
<1> DEFINE n == IF OnGpus THEN Len(ActiveDevices(rig)) ELSE CpuThreads
           part == IF OnGpus THEN [i \in 1 .. n |-> PartOfDevice(i, n)]
                   ELSE [i \in 1 .. n |-> PartOfThread(i)]
           launch == [i \in 1 .. n |->
                         IF OnGpus THEN ResolveLaunchBatch(rig, i, rig.free) ELSE 1]
<1>1. /\ TypeOK /\ SolutionInv /\ rig \in Rigs
      /\ workers = <<>> /\ rig' = rig /\ range' = range /\ merged' = merged
  BY DEF IInv, TypeOK, Dispatch
<1>2. n \in Nat \ {0} /\ Indices = 1 .. n /\ Indices' = Indices /\ (OnGpus' <=> OnGpus)
  BY <1>1, IndicesAreNumbers DEF Indices, OnGpus
<1>3. Divides(part, n)
  BY <1>1, <1>2, DevicesDivide, ThreadsDivide
<1>4. workers' = [i \in 1 .. n |-> Worker(part[i], launch[i])]
  <2>1. CASE OnGpus
    <3>1. DOMAIN ActiveDevices(rig) = 1 .. n
      BY <1>2, <2>1 DEF Indices
    <3>2. workers' = [i \in 1 .. n |-> Worker(PartOfDevice(i, n),
                                              ResolveLaunchBatch(rig, i, rig.free))]
      BY <2>1, <3>1 DEF Dispatch
    <3> QED
      BY <2>1, <3>2
  <2>2. CASE ~OnGpus
    <3>1. workers' = [i \in 1 .. n |-> Worker(PartOfThread(i), 1)]
      BY <2>2 DEF Dispatch
    <3> QED
      BY <2>2, <3>1
  <2> QED
    BY <2>1, <2>2
<1>5. \A i \in 1 .. n : launch[i] \in Nat
  BY <1>1, <1>2, LaunchTypes DEF Indices
<1>6. OnGpus => \A i \in 1 .. n : launch[i] = ResolveLaunchBatch(rig, i, rig.free)
  OBVIOUS
<1> HIDE DEF n, part, launch
<1>7. DOMAIN workers' = 1 .. n /\ workers' # <<>>
  BY <1>2, <1>4
<1>8. \A i \in 1 .. n :
         /\ workers'[i] \in WorkerRecords
         /\ workers'[i].from = part[i].from /\ workers'[i].to = part[i].to
         /\ workers'[i].next = part[i].from /\ workers'[i].launch = launch[i]
         /\ workers'[i].found = {} /\ workers'[i].at = "search"
  <2> SUFFICES ASSUME NEW i \in 1 .. n
               PROVE  /\ workers'[i] \in WorkerRecords
                      /\ workers'[i].from = part[i].from /\ workers'[i].to = part[i].to
                      /\ workers'[i].next = part[i].from /\ workers'[i].launch = launch[i]
                      /\ workers'[i].found = {} /\ workers'[i].at = "search"
    OBVIOUS
  <2>1. workers'[i] = [from |-> part[i].from, to |-> part[i].to, next |-> part[i].from,
                       launch |-> launch[i], found |-> {}, at |-> "search"]
    BY <1>4 DEF Worker
  <2>2. part[i].from \in Nat /\ part[i].to \in Nat /\ launch[i] \in Nat
    BY <1>3, <1>5 DEF Divides
  <2> QED
    BY <2>1, <2>2 DEF WorkerRecords, WorkerStates
<1>9. TypeOK'
  <2>1. workers' \in [1 .. n -> WorkerRecords]
    BY <1>4, <1>8
  <2> QED
    BY <1>1, <1>2, <2>1 DEF TypeOK
<1>10. DeviceInv'
  <2>1. OnGpus => /\ n = Len(ActiveDevices(rig))
                  /\ \A i \in 1 .. n : part[i] = PartOfDevice(i, n)
    BY DEF n, part
  <2>2. OnGpus => \A i \in 1 .. n : part[i].from = PartOfDevice(i, n).from
                                   /\ part[i].to = PartOfDevice(i, n).to
    BY <2>1
  <2>3. \A i : PartOfDevice(i, n)' = PartOfDevice(i, n') /\ n' = n
    BY <1>1, <1>2 DEF PartOfDevice, n
  <2> QED
    BY <1>1, <1>2, <1>6, <1>7, <1>8, <2>1, <2>2, <2>3 DEF DeviceInv
<1>11. DivisionInv'
  <2>1. Asked' = Asked
    BY <1>1 DEF Asked
  <2>2. \A i \in 1 .. n : workers'[i].from <= workers'[i].to
    BY <1>3, <1>8 DEF Divides
  <2>3. \A i, j \in 1 .. n : i < j => workers'[i].to <= workers'[j].from
    BY <1>3, <1>8 DEF Divides
  <2>4. \A i \in 1 .. n, x \in Nat :
           workers'[i].from <= x /\ x < workers'[i].to => x \in Asked
    BY <1>3, <1>8 DEF Divides
  <2>5. \A x \in Asked : \E i \in 1 .. n : workers'[i].from <= x /\ x < workers'[i].to
    BY <1>3, <1>8 DEF Divides
  <2> QED
    BY <1>7, <2>1, <2>2, <2>3, <2>4, <2>5 DEF DivisionInv
<1>12. SolutionInv'
  <2>1. merged' = {}
    BY <1>1 DEF SolutionInv
  <2>2. ASSUME NEW i \in 1 .. n
        PROVE  /\ workers'[i].from <= workers'[i].next
               /\ workers'[i].next <= workers'[i].to
               /\ \A x \in Nat : ~Passed(i, x)'
    <3>1. part[i].from \in Nat /\ part[i].from <= part[i].to
      BY <1>3 DEF Divides
    <3> QED
      BY <1>8, <3>1 DEF Passed
  <2>3. Winners \subseteq Nat
    BY WorkSplitAssumption
  <2> QED
    BY <1>7, <1>8, <2>1, <2>2, <2>3 DEF SolutionInv
<1> QED
  BY <1>9, <1>10, <1>11, <1>12 DEF IInv

\* A step of one thread leaves the division as it is.
LEMMA DivisionStays ==
    ASSUME TypeOK, DeviceInv, DivisionInv,
           NEW i \in DOMAIN workers, NEW w \in WorkerRecords,
           workers' = [workers EXCEPT ![i] = w],
           w.from = workers[i].from, w.to = workers[i].to, w.launch = workers[i].launch,
           rig' = rig, range' = range, merged' \in SUBSET Nat
    PROVE  /\ TypeOK' /\ DeviceInv' /\ DivisionInv'
           /\ DOMAIN workers' = DOMAIN workers /\ (OnGpus' <=> OnGpus)
           /\ workers'[i] = w
           /\ \A j \in DOMAIN workers : /\ j # i => workers'[j] = workers[j]
                                        /\ workers'[j].from = workers[j].from
                                        /\ workers'[j].to = workers[j].to
                                        /\ workers'[j].launch = workers[j].launch
<1>1. workers \in [Indices -> WorkerRecords] /\ DOMAIN workers = Indices
  BY DEF TypeOK
<1>2. Indices' = Indices /\ (OnGpus' <=> OnGpus) /\ Asked' = Asked
  BY DEF Indices, OnGpus, Asked
<1>3. workers' \in [Indices -> WorkerRecords] /\ DOMAIN workers' = DOMAIN workers
  BY <1>1
<1>4. workers'[i] = w /\ \A j \in DOMAIN workers : j # i => workers'[j] = workers[j]
  BY <1>1
<1>5. \A j \in DOMAIN workers : /\ workers'[j].from = workers[j].from
                                /\ workers'[j].to = workers[j].to
                                /\ workers'[j].launch = workers[j].launch
  BY <1>4
<1>6. TypeOK'
  BY <1>2, <1>3 DEF TypeOK
<1>7. DeviceInv'
  BY <1>2, <1>3, <1>5 DEF DeviceInv, PartOfDevice
<1>8. workers # <<>>
  OBVIOUS
<1>9. DivisionInv'
  BY <1>2, <1>3, <1>5, <1>8 DEF DivisionInv
<1> QED
  BY <1>2, <1>3, <1>4, <1>5, <1>6, <1>7, <1>9

\* What a step of one thread has to see to, for the solutions.
LEMMA SolutionsStay ==
    ASSUME TypeOK, SolutionInv,
           NEW i \in DOMAIN workers, NEW w \in WorkerRecords,
           DOMAIN workers' = DOMAIN workers, workers'[i] = w, w.from = workers[i].from,
           \A j \in DOMAIN workers : j # i => workers'[j] = workers[j],
           w.from <= w.next, w.next <= w.to, workers[i].next <= w.next,
           w.at = "done" => w.next = w.to,
           \A x \in w.found : x \in Winners /\ w.from <= x /\ x < w.next,
           \A x \in Winners : w.from <= x /\ x < w.next =>
               x \in merged' \/ (x \in w.found /\ w.at \in {"search", "failed"}),
           merged \subseteq merged',
           \A x \in merged' \ merged : x \in Winners /\ w.from <= x /\ x < w.next
    PROVE  SolutionInv'
<1>1. workers \in [Indices -> WorkerRecords] /\ merged \subseteq Nat
  BY DEF TypeOK
<1>2. workers[i] \in WorkerRecords
  BY <1>1
<1>3. \A x \in Nat : Passed(i, x)' <=> w.from <= x /\ x < w.next
  BY DEF Passed
<1>4. \A j \in DOMAIN workers : j # i => \A x : Passed(j, x)' <=> Passed(j, x)
  BY DEF Passed
<1>5. Winners \subseteq Nat
  BY WorkSplitAssumption
<1>6. \A j \in DOMAIN workers :
         /\ workers'[j].from <= workers'[j].next /\ workers'[j].next <= workers'[j].to
         /\ workers'[j].at = "done" => workers'[j].next = workers'[j].to
         /\ \A x \in workers'[j].found : x \in Winners /\ Passed(j, x)'
         /\ \A x \in Winners : Passed(j, x)' =>
               \/ x \in merged'
               \/ x \in workers'[j].found /\ workers'[j].at \in {"search", "failed"}
  <2> SUFFICES ASSUME NEW j \in DOMAIN workers
      PROVE  /\ workers'[j].from <= workers'[j].next /\ workers'[j].next <= workers'[j].to
             /\ workers'[j].at = "done" => workers'[j].next = workers'[j].to
             /\ \A x \in workers'[j].found : x \in Winners /\ Passed(j, x)'
             /\ \A x \in Winners : Passed(j, x)' =>
                   \/ x \in merged'
                   \/ x \in workers'[j].found /\ workers'[j].at \in {"search", "failed"}
    OBVIOUS
  <2>1. CASE j = i
    BY <1>3, <1>5, <2>1
  <2>2. CASE j # i
    <3>1. workers'[j] = workers[j] /\ \A x : Passed(j, x)' <=> Passed(j, x)
      BY <1>4, <2>2
    <3> QED
      BY <3>1 DEF SolutionInv
  <2> QED
    BY <2>1, <2>2
<1>7. \A x \in merged' : x \in Winners /\ \E j \in DOMAIN workers : Passed(j, x)'
  <2> SUFFICES ASSUME NEW x \in merged'
               PROVE  x \in Winners /\ \E j \in DOMAIN workers : Passed(j, x)'
    OBVIOUS
  <2>1. CASE x \in merged
    <3>1. x \in Winners /\ x \in Nat
      BY <1>1, <2>1 DEF SolutionInv
    <3>2. PICK j \in DOMAIN workers : Passed(j, x)
      BY <2>1 DEF SolutionInv
    <3>3. CASE j # i
      BY <1>4, <3>1, <3>2, <3>3
    <3>4. CASE j = i
      <4>1. workers[i].from <= x /\ x < workers[i].next
        BY <3>2, <3>4 DEF Passed
      <4>2. workers[i].next \in Nat /\ w.next \in Nat
        BY <1>2 DEF WorkerRecords
      <4>3. Passed(i, x)'
        BY <1>3, <3>1, <4>1, <4>2
      <4> QED
        BY <3>1, <4>3
    <3> QED
      BY <3>3, <3>4
  <2>2. CASE x \notin merged
    BY <1>3, <1>5, <2>2
  <2> QED
    BY <2>1, <2>2
<1> QED
  BY <1>6, <1>7 DEF SolutionInv

LEMMA SolutionsOf ==
    ASSUME SolutionInv, NEW i \in DOMAIN workers
    PROVE  /\ workers[i].from <= workers[i].next /\ workers[i].next <= workers[i].to
           /\ \A x \in workers[i].found :
                 x \in Winners /\ workers[i].from <= x /\ x < workers[i].next
           /\ \A x \in Winners : workers[i].from <= x /\ x < workers[i].next =>
                 x \in merged \/ (x \in workers[i].found /\ workers[i].at \in {"search", "failed"})
<1>1. /\ workers[i].from <= workers[i].next /\ workers[i].next <= workers[i].to
      /\ \A x \in workers[i].found : x \in Winners /\ Passed(i, x)
  BY DEF SolutionInv
<1>2. \A x \in Winners : Passed(i, x) =>
         \/ x \in merged
         \/ (x \in workers[i].found /\ workers[i].at \in {"search", "failed"})
  BY DEF SolutionInv
<1> QED
  BY <1>1, <1>2 DEF Passed

LEMMA SearchKeepsInv ==
    ASSUME IInv, NEW i \in DOMAIN workers, SearchesOn(i)
    PROVE  IInv'
<1> DEFINE w == workers[i]
           to == w.next + Lesser(w.launch, w.to - w.next)
           hits == {x \in Winners : w.next <= x /\ x < to}
           found == IF OnGpus THEN w.found \cup hits ELSE w.found
           v == [w EXCEPT !.next = to, !.found = found]
<1>1. TypeOK /\ DeviceInv /\ DivisionInv /\ SolutionInv
  BY DEF IInv
<1>2. workers \in [Indices -> WorkerRecords] /\ merged \subseteq Nat
  BY <1>1 DEF TypeOK
<1>3. /\ w \in WorkerRecords /\ w.from \in Nat /\ w.to \in Nat /\ w.next \in Nat
      /\ w.launch \in Nat /\ w.found \in SUBSET Nat
  BY <1>2 DEF WorkerRecords
<1>4. /\ w.at = "search" /\ w.next < w.to
      /\ merged' = IF OnGpus THEN merged ELSE merged \cup hits
      /\ rig' = rig /\ range' = range
  BY DEF SearchesOn
<1>5. workers' = [workers EXCEPT ![i] = v]
  BY <1>2 DEF SearchesOn
<1> HIDE DEF w
<1>6. to \in Nat /\ w.next <= to /\ to <= w.to
  BY <1>3, <1>4 DEF Lesser
<1> HIDE DEF to
<1>7. Winners \subseteq Nat /\ hits \subseteq Winners
  BY WorkSplitAssumption
<1>8. found \in SUBSET Nat
  BY <1>3, <1>7
<1>9. /\ v \in WorkerRecords /\ v.from = w.from /\ v.to = w.to /\ v.launch = w.launch
      /\ v.next = to /\ v.found = found /\ v.at = w.at
  <2> HIDE DEF found
  <2> QED
    BY <1>3, <1>6, <1>8 DEF WorkerRecords
<1> HIDE DEF v
<1>10. merged' \in SUBSET Nat
  BY <1>2, <1>4, <1>7
<1>11. /\ TypeOK' /\ DeviceInv' /\ DivisionInv'
       /\ DOMAIN workers' = DOMAIN workers /\ workers'[i] = v
       /\ \A j \in DOMAIN workers : j # i => workers'[j] = workers[j]
  BY <1>1, <1>4, <1>5, <1>9, <1>10, DivisionStays DEF w
<1>12. /\ w.from <= w.next /\ w.next <= w.to
       /\ \A x \in w.found : x \in Winners /\ w.from <= x /\ x < w.next
       /\ \A x \in Winners : w.from <= x /\ x < w.next =>
             x \in merged \/ (x \in w.found /\ w.at \in {"search", "failed"})
  BY <1>1, SolutionsOf DEF w
<1>13. \A x \in hits : x \in Winners /\ x \in Nat /\ w.next <= x /\ x < to
  BY <1>7
<1>14. \A x \in Winners : w.next <= x /\ x < to => x \in hits
  OBVIOUS
<1> HIDE DEF hits
<1>15. \A x \in v.found : x \in Winners /\ v.from <= x /\ x < v.next
  BY <1>3, <1>6, <1>9, <1>12, <1>13
<1>16. \A x \in Winners : v.from <= x /\ x < v.next =>
           x \in merged' \/ (x \in v.found /\ v.at \in {"search", "failed"})
  <2> SUFFICES ASSUME NEW x \in Winners, v.from <= x, x < v.next
               PROVE  x \in merged' \/ (x \in v.found /\ v.at \in {"search", "failed"})
    OBVIOUS
  <2>1. CASE x < w.next
    BY <1>4, <1>9, <1>12, <2>1
  <2>2. CASE ~(x < w.next)
    <3>1. x \in hits
      BY <1>3, <1>7, <1>9, <1>14, <2>2
    <3> QED
      BY <1>4, <1>9, <3>1
  <2> QED
    BY <2>1, <2>2
<1>17. \A x \in merged' \ merged : x \in Winners /\ v.from <= x /\ x < v.next
  BY <1>3, <1>4, <1>6, <1>9, <1>12, <1>13
<1>18. /\ merged \subseteq merged' /\ v.from <= v.next /\ v.next <= v.to /\ w.next <= v.next
       /\ v.at # "done"
  BY <1>3, <1>4, <1>6, <1>9, <1>12
<1>19. SolutionInv'
  BY <1>1, <1>9, <1>11, <1>15, <1>16, <1>17, <1>18, SolutionsStay DEF w
<1> QED
  BY <1>11, <1>19 DEF IInv

LEMMA FailureKeepsInv ==
    ASSUME IInv, NEW i \in DOMAIN workers, DeviceFails(i)
    PROVE  IInv'
<1> DEFINE w == workers[i]
           v == [w EXCEPT !.at = "failed"]
<1>1. TypeOK /\ DeviceInv /\ DivisionInv /\ SolutionInv
  BY DEF IInv
<1>2. workers \in [Indices -> WorkerRecords] /\ merged \subseteq Nat
  BY <1>1 DEF TypeOK
<1>3. /\ w \in WorkerRecords /\ w.from \in Nat /\ w.to \in Nat /\ w.next \in Nat
      /\ w.launch \in Nat /\ w.found \in SUBSET Nat
  BY <1>2 DEF WorkerRecords
<1>4. /\ w.at = "search" /\ merged' = merged /\ rig' = rig /\ range' = range
  BY DEF DeviceFails
<1>5. workers' = [workers EXCEPT ![i] = v]
  BY <1>2 DEF DeviceFails
<1> HIDE DEF w
<1>6. /\ v \in WorkerRecords /\ v.from = w.from /\ v.to = w.to /\ v.launch = w.launch
      /\ v.next = w.next /\ v.found = w.found /\ v.at = "failed"
  BY <1>3 DEF WorkerRecords, WorkerStates
<1> HIDE DEF v
<1>7. /\ TypeOK' /\ DeviceInv' /\ DivisionInv'
      /\ DOMAIN workers' = DOMAIN workers /\ workers'[i] = v
      /\ \A j \in DOMAIN workers : j # i => workers'[j] = workers[j]
  BY <1>1, <1>2, <1>4, <1>5, <1>6, DivisionStays DEF w
<1>8. /\ w.from <= w.next /\ w.next <= w.to
      /\ \A x \in w.found : x \in Winners /\ w.from <= x /\ x < w.next
      /\ \A x \in Winners : w.from <= x /\ x < w.next =>
            x \in merged \/ (x \in w.found /\ w.at \in {"search", "failed"})
  BY <1>1, SolutionsOf DEF w
<1>9. SolutionInv'
  BY <1>1, <1>3, <1>4, <1>6, <1>7, <1>8, SolutionsStay DEF w
<1> QED
  BY <1>7, <1>9 DEF IInv

LEMMA MergeKeepsInv ==
    ASSUME IInv, NEW i \in DOMAIN workers, Merge(i)
    PROVE  IInv'
<1> DEFINE w == workers[i]
           at == IF w.at = "failed" THEN "stopped" ELSE "done"
           v == [w EXCEPT !.at = at]
<1>1. TypeOK /\ DeviceInv /\ DivisionInv /\ SolutionInv
  BY DEF IInv
<1>2. workers \in [Indices -> WorkerRecords] /\ merged \subseteq Nat
  BY <1>1 DEF TypeOK
<1>3. /\ w \in WorkerRecords /\ w.from \in Nat /\ w.to \in Nat /\ w.next \in Nat
      /\ w.launch \in Nat /\ w.found \in SUBSET Nat
  BY <1>2 DEF WorkerRecords
<1>4. /\ (w.at = "search" /\ w.next = w.to) \/ w.at = "failed"
      /\ merged' = merged \cup w.found /\ rig' = rig /\ range' = range
  BY DEF Merge
<1>5. workers' = [workers EXCEPT ![i] = v]
  BY <1>2 DEF Merge
<1> HIDE DEF w
<1>6. at \in WorkerStates /\ (at = "done" => w.next = w.to)
  BY <1>4 DEF WorkerStates
<1> HIDE DEF at
<1>7. /\ v \in WorkerRecords /\ v.from = w.from /\ v.to = w.to /\ v.launch = w.launch
      /\ v.next = w.next /\ v.found = w.found /\ v.at = at
  BY <1>3, <1>6 DEF WorkerRecords
<1> HIDE DEF v
<1>8. merged' \in SUBSET Nat
  BY <1>2, <1>3, <1>4
<1>9. /\ TypeOK' /\ DeviceInv' /\ DivisionInv'
      /\ DOMAIN workers' = DOMAIN workers /\ workers'[i] = v
      /\ \A j \in DOMAIN workers : j # i => workers'[j] = workers[j]
  BY <1>1, <1>4, <1>5, <1>7, <1>8, DivisionStays DEF w
<1>10. /\ w.from <= w.next /\ w.next <= w.to
       /\ \A x \in w.found : x \in Winners /\ w.from <= x /\ x < w.next
       /\ \A x \in Winners : w.from <= x /\ x < w.next =>
             x \in merged \/ (x \in w.found /\ w.at \in {"search", "failed"})
  BY <1>1, SolutionsOf DEF w
<1>11. /\ \A x \in Winners : v.from <= x /\ x < v.next => x \in merged'
       /\ \A x \in merged' \ merged : x \in Winners /\ v.from <= x /\ x < v.next
  BY <1>4, <1>7, <1>10
<1>12. /\ merged \subseteq merged' /\ v.from <= v.next /\ v.next <= v.to /\ w.next <= v.next
       /\ v.at = "done" => v.next = v.to
  BY <1>3, <1>4, <1>6, <1>7, <1>10
<1>13. SolutionInv'
  BY <1>1, <1>7, <1>9, <1>10, <1>11, <1>12, SolutionsStay DEF w
<1> QED
  BY <1>9, <1>13 DEF IInv

LEMMA StepKeepsInv == IInv /\ [SplitNext]_splitVars => IInv'
<1> SUFFICES ASSUME IInv, [SplitNext]_splitVars PROVE IInv'
  OBVIOUS
<1>1. CASE Dispatch
  BY <1>1, DispatchKeepsInv
<1>2. ASSUME NEW i \in DOMAIN workers, SearchesOn(i) \/ DeviceFails(i) \/ Merge(i)
      PROVE  IInv'
  BY <1>2, SearchKeepsInv, FailureKeepsInv, MergeKeepsInv
<1>3. CASE UNCHANGED splitVars
  <2>1. rig' = rig /\ range' = range /\ workers' = workers /\ merged' = merged
    BY <1>3 DEF splitVars
  <2> QED
    BY <2>1 DEF IInv, TypeOK, DeviceInv, DivisionInv, SolutionInv, Indices, OnGpus,
                Asked, Passed, PartOfDevice
<1> QED
  BY <1>1, <1>2, <1>3 DEF SplitNext

THEOREM Invariance == SplitSpec => []IInv
<1> QED
  BY Start, StepKeepsInv, PTL DEF SplitSpec

-----------------------------------------------------------------------------
(* What follows from it *)

\* An automatic launch of SolveBatchCuda is the largest within the cap of its
\* device that fits the memory (AutoBatchSizeForDevice), for every machine: the
\* binary search is exact because the memory of a launch grows with it.
THEOREM LaunchesFillTheMemory == SplitSpec => []AutoBatchIsLargestThatFits
<1>1. IInv => AutoBatchIsLargestThatFits
  <2> SUFFICES ASSUME IInv, OnGpus, NEW i \in DOMAIN workers, Requested(rig, i) <= 0
      PROVE  LET d == ActiveDevices(rig)[i]
                 fitting == {b \in MinBatch .. CapOf[rig.total[d]] : Fits(rig, b, rig.free[d])}
             IN  IF fitting = {} \/ rig.free[d] <= ReserveBytes
                 THEN workers[i].launch = MinBatch
                 ELSE /\ workers[i].launch \in fitting
                      /\ \A b \in fitting : b <= workers[i].launch
    BY DEF AutoBatchIsLargestThatFits
  <2> DEFINE d == ActiveDevices(rig)[i]
             free == rig.free[d]
  <2>1. rig \in Rigs /\ i \in DOMAIN ActiveDevices(rig)
    BY DEF IInv, TypeOK, Indices
  <2>2. d \in ToSet(rig.usable) /\ free \in Nat /\ Requested(rig, i) \in Int
    BY <2>1, LaunchTypes, RigAssumption
  <2>3. workers[i].launch = AutoBatchSizeForDevice(rig, d, free)
    <3>1. workers[i].launch = ResolveLaunchBatch(rig, i, rig.free)
      BY DEF IInv, DeviceInv
    <3>2. ~(Requested(rig, i) > 0)
      BY <2>2
    <3> QED
      BY <3>1, <3>2 DEF ResolveLaunchBatch
  <2>4. Fitting(rig, d, free)
          = {b \in MinBatch .. CapOf[rig.total[d]] : Fits(rig, b, rig.free[d])}
    BY DEF Fitting
  <2> HIDE DEF d
  <2>5. IF Fitting(rig, d, free) = {} \/ free <= ReserveBytes
        THEN AutoBatchSizeForDevice(rig, d, free) = MinBatch
        ELSE /\ AutoBatchSizeForDevice(rig, d, free) \in Fitting(rig, d, free)
             /\ \A b \in Fitting(rig, d, free) :
                    b <= AutoBatchSizeForDevice(rig, d, free)
    BY <2>1, <2>2, AutoBatchIsLargest
  <2> QED
    BY <2>3, <2>4, <2>5 DEF d
<1> QED
  BY <1>1, Invariance, PTL

\* However many devices or threads share the range of a call, their parts overlap
\* nowhere and leave nothing out, and when all have been joined the call returns
\* every solution that was passed (SolveBatchCuda, SolveOnCpu).
THEOREM CallReturnsWhatWasPassed == SplitSpec => []RangeIsSearchedOnce
<1>1. IInv => RangeIsSearchedOnce
  <2> SUFFICES ASSUME IInv PROVE RangeIsSearchedOnce
    OBVIOUS
  <2>1. TypeOK /\ DivisionInv /\ SolutionInv
    BY DEF IInv
  <2>2. workers # <<>> => workers \in [Indices -> WorkerRecords]
    BY <2>1 DEF TypeOK
  <2>3. \A i \in DOMAIN workers : /\ i \in Nat /\ workers[i].from \in Nat
                                  /\ workers[i].to \in Nat /\ workers[i].next \in Nat
                                  /\ workers[i].at \in WorkerStates
    <3> SUFFICES ASSUME NEW i \in DOMAIN workers
                 PROVE  /\ i \in Nat /\ workers[i].from \in Nat
                        /\ workers[i].to \in Nat /\ workers[i].next \in Nat
                        /\ workers[i].at \in WorkerStates
      OBVIOUS
    <3>1. workers \in [Indices -> WorkerRecords]
      BY <2>2
    <3>2. i \in Indices /\ workers[i] \in WorkerRecords
      BY <3>1
    <3> QED
      BY <2>1, <3>2, IndicesAreNumbers DEF WorkerRecords
  <2>4. \A i, j \in DOMAIN workers : i # j => \/ workers[i].to <= workers[j].from
                                              \/ workers[j].to <= workers[i].from
    <3> SUFFICES ASSUME NEW i \in DOMAIN workers, NEW j \in DOMAIN workers, i # j
                 PROVE  \/ workers[i].to <= workers[j].from
                        \/ workers[j].to <= workers[i].from
      OBVIOUS
    <3>1. i < j \/ j < i
      BY <2>3
    <3>2. workers # <<>>
      OBVIOUS
    <3> QED
      BY <2>1, <3>1, <3>2 DEF DivisionInv
  <2>5. ASSUME Joined
        PROVE  merged = {x \in Winners \cap Asked :
                            \A i \in DOMAIN workers :
                                workers[i].at = "stopped" =>
                                    x < workers[i].next \/ workers[i].to <= x}
    <3>1. workers # <<>> /\ \A i \in DOMAIN workers : workers[i].at \in {"done", "stopped"}
      BY <2>5 DEF Joined
    <3>2. ASSUME NEW x \in merged
          PROVE  /\ x \in Winners \cap Asked
                 /\ \A i \in DOMAIN workers :
                        workers[i].at = "stopped" =>
                            x < workers[i].next \/ workers[i].to <= x
      <4>1. x \in Winners /\ x \in Nat
        BY <2>1 DEF SolutionInv, TypeOK
      <4>2. PICK i \in DOMAIN workers : Passed(i, x)
        BY <2>1 DEF SolutionInv
      <4>3. workers[i].from <= x /\ x < workers[i].next /\ workers[i].next <= workers[i].to
        BY <2>1, <4>2 DEF SolutionInv, Passed
      <4>4. x < workers[i].to
        BY <2>3, <4>1, <4>3
      <4>5. x \in Asked
        BY <2>1, <3>1, <4>1, <4>3, <4>4 DEF DivisionInv
      <4>6. ASSUME NEW j \in DOMAIN workers, j # i
            PROVE  x < workers[j].next \/ workers[j].to <= x
        <5>1. workers[j].from <= workers[j].next
          BY <2>1 DEF SolutionInv
        <5>2. workers[i].to <= workers[j].from \/ workers[j].to <= workers[i].from
          BY <2>4, <4>6
        <5> QED
          BY <2>3, <4>1, <4>3, <4>4, <5>1, <5>2
      <4> QED
        BY <4>1, <4>3, <4>5, <4>6
    <3>3. ASSUME NEW x \in Winners \cap Asked,
                 \A i \in DOMAIN workers : workers[i].at = "stopped" =>
                                               x < workers[i].next \/ workers[i].to <= x
          PROVE  x \in merged
      <4>1. x \in Nat
        BY WorkSplitAssumption
      <4>2. PICK i \in DOMAIN workers : workers[i].from <= x /\ x < workers[i].to
        BY <2>1, <3>1, <3>3 DEF DivisionInv
      <4>3. x < workers[i].next
        <5>1. CASE workers[i].at = "done"
          <6>1. workers[i].next = workers[i].to
            BY <2>1, <5>1 DEF SolutionInv
          <6> QED
            BY <4>2, <6>1
        <5>2. CASE workers[i].at = "stopped"
          BY <2>3, <3>3, <4>1, <4>2, <5>2
        <5> QED
          BY <3>1, <5>1, <5>2
      <4>4. Passed(i, x) /\ workers[i].at \notin {"search", "failed"}
        BY <3>1, <4>2, <4>3 DEF Passed
      <4> QED
        BY <2>1, <4>4 DEF SolutionInv
    <3> QED
      BY <3>2, <3>3
  <2> QED
    BY <2>4, <2>5 DEF RangeIsSearchedOnce
<1> QED
  BY <1>1, Invariance, PTL

-----------------------------------------------------------------------------
(* Every device gets four launches of the recommended chunk *)

\* A number that an int holds is what it is.
LEMMA IntHolds ==
    ASSUME NEW x \in Nat, x < 2^(IntWidth - 1)
    PROVE  AsInt(x) = x
<1> DEFINE h == 2^(IntWidth - 1)
           m == 2^IntWidth
<1>1. h \in Nat /\ m \in Nat \ {0} /\ 2 * h <= m
  <2>1. IntWidth \in Nat /\ IntWidth - 1 \in Nat /\ IntWidth \in Nat \ {0}
    BY SplitTypes
  <2>2. (IntWidth - 1) + 1 = IntWidth
    BY <2>1
  <2> QED
    BY <2>1, <2>2, PowerPositive, PowerDoubles
<1>2. AsInt(x) = ((x + h) % m) - h
  BY DEF AsInt
<1>3. x < h
  OBVIOUS
<1> HIDE DEF h, m
<1>4. x + h \in Nat /\ x + h < m
  BY <1>1, <1>3
<1>5. (x + h) % m = x + h
  BY <1>1, <1>4
<1> QED
  BY <1>1, <1>2, <1>5

\* With more memory an automatic launch is not smaller.
LEMMA MoreMemoryMoreNonces ==
    ASSUME NEW r \in Rigs, NEW d \in ToSet(r.usable),
           NEW free \in Nat, NEW more \in Nat, free <= more
    PROVE  AutoBatchSizeForDevice(r, d, free) <= AutoBatchSizeForDevice(r, d, more)
<1> DEFINE few == AutoBatchSizeForDevice(r, d, free)
           many == AutoBatchSizeForDevice(r, d, more)
<1>1. /\ few \in Nat /\ many \in Nat
      /\ Fitting(r, d, more) = {} \/ more <= ReserveBytes => many = MinBatch
      /\ ~(Fitting(r, d, more) = {} \/ more <= ReserveBytes) =>
             many \in Fitting(r, d, more) /\ \A b \in Fitting(r, d, more) : b <= many
      /\ Fitting(r, d, free) = {} \/ free <= ReserveBytes => few = MinBatch
      /\ ~(Fitting(r, d, free) = {} \/ free <= ReserveBytes) => few \in Fitting(r, d, free)
  BY AutoBatchIsLargest
<1> HIDE DEF few, many
<1>2. MinBatch \in Nat /\ ReserveBytes \in Nat /\ CapOf[r.total[d]] \in Nat
  BY SplitTypes, RigAssumption
<1>3. MinBatch <= many
  BY <1>1, <1>2 DEF Fitting
<1>4. CASE Fitting(r, d, free) = {} \/ free <= ReserveBytes
  BY <1>1, <1>3, <1>4 DEF few, many
<1>5. CASE ~(Fitting(r, d, free) = {} \/ free <= ReserveBytes)
  <2>1. few \in MinBatch .. CapOf[r.total[d]] /\ Fits(r, few, free)
    BY <1>1, <1>5 DEF Fitting
  <2>2. ReserveBytes < free /\ ReserveBytes < more
    BY <1>2, <1>5
  <2>3. Usable(free) \in Int /\ Usable(more) \in Int /\ Usable(free) <= Usable(more)
    <3>1. (free - ReserveBytes) * 7 \in Nat /\ (more - ReserveBytes) * 7 \in Nat
          /\ (free - ReserveBytes) * 7 <= (more - ReserveBytes) * 7
      BY <1>2, <2>2
    <3> QED
      BY <3>1 DEF Usable
  <2>4. LaunchBatchBytes(r, few) \in Nat
    BY <1>1, SizeGrows
  <2>5. Fits(r, few, more)
    BY <2>1, <2>3, <2>4 DEF Fits
  <2>6. few \in Fitting(r, d, more)
    BY <2>1, <2>5 DEF Fitting
  <2> QED
    BY <1>1, <1>2, <2>2, <2>6 DEF few, many
<1> QED
  BY <1>4, <1>5

\* What takes a device's memory after the start of the miner is the miner.
MemoryIsOnlyTaken ==
    \A r \in Rigs : \A d \in ToSet(r.usable) : r.free[d] <= r.freeAtStart[d]

\* The launch of a call is not larger than the one the chunk was computed for.
LEMMA ChunkCoversLaunches ==
    ASSUME MemoryIsOnlyTaken, NEW r \in Rigs, NEW i \in DOMAIN ActiveDevices(r),
           FourPerDevice(r) < 2^(IntWidth - 1)
    PROVE  /\ RecommendJobChunkSize(r) \in Nat
           /\ Len(ActiveDevices(r)) \in Nat \ {0}
           /\ ResolveLaunchBatch(r, i, r.free) * Len(ActiveDevices(r)) * 4
                  <= RecommendJobChunkSize(r)
<1> DEFINE n == Len(ActiveDevices(r))
           most == MaxResolvedLaunchBatch(r)
           now == ResolveLaunchBatch(r, i, r.free)
           start == ResolveLaunchBatch(r, i, r.freeAtStart)
           d == ActiveDevices(r)[i]
<1>1. n \in Nat \ {0}
  BY ActiveTypes
<1>2. most \in Nat /\ start <= most
  BY MaxResolvedTypes
<1>3. /\ d \in ToSet(r.usable) /\ Requested(r, i) \in Int
      /\ now \in Nat /\ start \in Nat
  BY LaunchTypes
<1>4. now <= start
  <2>1. CASE Requested(r, i) > 0
    BY <1>3, <2>1 DEF ResolveLaunchBatch
  <2>2. CASE ~(Requested(r, i) > 0)
    <3>1. now = AutoBatchSizeForDevice(r, d, r.free[d])
      BY <2>2 DEF ResolveLaunchBatch
    <3>2. start = AutoBatchSizeForDevice(r, d, r.freeAtStart[d])
      BY <2>2 DEF ResolveLaunchBatch
    <3>3. r.free[d] \in Nat /\ r.freeAtStart[d] \in Nat /\ r.free[d] <= r.freeAtStart[d]
      BY <1>3, RigAssumption DEF MemoryIsOnlyTaken
    <3> HIDE DEF d, now, start
    <3> QED
      BY <1>3, <3>1, <3>2, <3>3, MoreMemoryMoreNonces
  <2> QED
    BY <2>1, <2>2
<1>5. FourPerDevice(r) = most * n * 4
  BY <1>1 DEF FourPerDevice, Greater
<1> HIDE DEF n, most, now, start
<1>6. now <= most
  BY <1>2, <1>3, <1>4
<1>7. /\ now * n \in Nat /\ most * n \in Nat /\ now * n <= most * n
  BY <1>1, <1>2, <1>3, <1>6, ProductGrows
<1>8. AsInt(FourPerDevice(r)) = most * n * 4
  BY <1>5, <1>7, IntHolds
<1>9. RecommendJobChunkSize(r) >= most * n * 4
  BY <1>7, <1>8, SplitTypes DEF RecommendJobChunkSize, Greater
<1>10. RecommendJobChunkSize(r) \in Nat
  BY ChunkTypes
<1> QED
  BY <1>1, <1>7, <1>9, <1>10 DEF n, now

LEMMA PartIsLargeEnough ==
    ASSUME NEW c \in Nat, NEW n \in Nat \ {0}, NEW i \in 1 .. n, NEW l \in Nat,
           l * n * 4 <= c
    PROVE  (c * i) \div n - (c * (i - 1)) \div n >= 4 * l
<1> DEFINE q == (c * i) \div n
           p == (c * (i - 1)) \div n
<1>1. c * i \in Nat /\ c * (i - 1) \in Nat /\ c * i = c * (i - 1) + c
  OBVIOUS
<1>2. /\ q \in Nat /\ c * i < n * q + n
      /\ p \in Nat /\ n * p <= c * (i - 1)
  BY <1>1, Quotient
<1>3. l * n * 4 = n * (4 * l)
  OBVIOUS
<1> HIDE DEF p, q
<1>4. ASSUME q < p + 4 * l PROVE FALSE
  <2>1. q + 1 <= p + 4 * l /\ q + 1 \in Nat /\ p + 4 * l \in Nat
    BY <1>2, <1>4
  <2>2. n * (q + 1) <= n * (p + 4 * l)
    <3> DEFINE a == q + 1
               b == p + 4 * l
    <3>1. a \in Nat /\ b \in Nat /\ a <= b
      BY <2>1
    <3> HIDE DEF a, b
    <3>2. a * n <= b * n /\ a * n = n * a /\ b * n = n * b
      BY <3>1, ProductGrows
    <3> QED
      BY <3>2 DEF a, b
  <2>3. n * (q + 1) = n * q + n
    BY <1>2
  <2>4. n * (p + 4 * l) = n * p + n * (4 * l)
    BY <1>2
  <2>5. n * q \in Nat /\ n * p \in Nat /\ n * (4 * l) \in Nat /\ l * n * 4 \in Nat
    BY <1>2
  <2> HIDE DEF p, q
  <2> QED
    BY <1>1, <1>2, <1>3, <2>2, <2>3, <2>4, <2>5
<1>5. q >= p + 4 * l
  BY <1>2, <1>4
<1> QED
  BY <1>2, <1>5 DEF p, q

\* Of a chunk of the size that RecommendJobChunkSize recommends every device gets
\* four full launches or more, for any number of devices of different sizes, as
\* long as the product fits an int and memory is only taken since the start.
THEOREM RecommendedChunkFeedsAll ==
    ASSUME MemoryIsOnlyTaken PROVE SplitSpec => []EveryGpuIsFed
<1>1. IInv => EveryGpuIsFed
  <2> SUFFICES ASSUME IInv, OnGpus, range.count = RecommendJobChunkSize(rig),
                      FourPerDevice(rig) < 2^(IntWidth - 1), NEW i \in DOMAIN workers
               PROVE  workers[i].to - workers[i].from >= 4 * workers[i].launch
    BY DEF EveryGpuIsFed
  <2> DEFINE n == Len(ActiveDevices(rig))
             c == range.count
             l == ResolveLaunchBatch(rig, i, rig.free)
  <2>1. rig \in Rigs /\ i \in DOMAIN ActiveDevices(rig) /\ range.start \in Nat
    BY DEF IInv, TypeOK, Indices
  <2>2. c \in Nat /\ n \in Nat \ {0} /\ l * n * 4 <= c
    BY <2>1, ChunkCoversLaunches
  <2>3. l \in Nat /\ i \in 1 .. n
    BY <2>1, LaunchTypes, ActiveTypes
  <2>4. /\ workers[i].launch = l
        /\ workers[i].from = range.start + (c * (i - 1)) \div n
        /\ workers[i].to = range.start + (c * i) \div n
    BY DEF IInv, DeviceInv, PartOfDevice
  <2> HIDE DEF n, c, l
  <2>5. (c * i) \div n - (c * (i - 1)) \div n >= 4 * l
    BY <2>2, <2>3, PartIsLargeEnough
  <2>6. (c * i) \div n \in Nat /\ (c * (i - 1)) \div n \in Nat
    <3>1. c * i \in Nat /\ c * (i - 1) \in Nat
      BY <2>2, <2>3
    <3> QED
      BY <2>2, <3>1, Quotient
  <2> QED
    BY <2>1, <2>3, <2>4, <2>5, <2>6
<1> QED
  BY <1>1, Invariance, PTL
=============================================================================
