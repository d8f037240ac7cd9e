------------------------- MODULE GpuPipelineProofs -------------------------
(***************************************************************************)
(* Proofs about GpuPipeline, for every set of jobs, every launch size and  *)
(* any number of calls and of errors of the CUDA runtime.                  *)
(***************************************************************************)
EXTENDS GpuPipeline, NaturalLemmas

-----------------------------------------------------------------------------
(* Launch sizes *)

BucketSize(i) == MinBucket * 2^i

LEMMA BucketSizes ==
    /\ BucketSize(0) = MinBucket
    /\ \A i \in Nat : /\ BucketSize(i) \in Nat \ {0}
                      /\ BucketSize(i + 1) = 2 * BucketSize(i)
<1> DEFINE S == {i \in Nat : BucketSize(i) \in Nat \ {0}}
<1>1. BucketSize(0) = MinBucket /\ MinBucket \in Nat \ {0}
  BY PipelineAssumption DEF BucketSize
<1>2. ASSUME NEW i \in Nat
      PROVE  BucketSize(i) \in Nat /\ BucketSize(i + 1) = 2 * BucketSize(i)
  <2>1. 2^i \in Nat /\ 2^(i + 1) = 2 * 2^i
    BY PowerDoubles
  <2>2. \A p \in Nat : MinBucket * p \in Nat /\ MinBucket * (2 * p) = 2 * (MinBucket * p)
    BY <1>1
  <2> QED
    BY <2>1, <2>2 DEF BucketSize
<1>3. Nat \subseteq S
  <2> HIDE DEF S
  <2>1. 0 \in S
    BY <1>1 DEF S
  <2>2. ASSUME NEW n \in Nat, n \in S PROVE n + 1 \in S
    BY <1>2, <2>2 DEF S
  <2> QED
    BY <2>1, <2>2, InductionOverNat
<1> QED
  BY <1>1, <1>2, <1>3

LEMMA BucketSizesGrow ==
    \A j \in Nat : /\ BucketSize(j) > j
                   /\ \A i \in 0 .. j : BucketSize(i) <= BucketSize(j)
<1> DEFINE S == {j \in Nat : /\ BucketSize(j) > j
                             /\ \A i \in 0 .. j : BucketSize(i) <= BucketSize(j)}
<1>1. 0 \in S
  BY BucketSizes, PipelineAssumption
<1>2. ASSUME NEW n \in Nat, n \in S PROVE n + 1 \in S
  <2>1. /\ BucketSize(n + 1) = 2 * BucketSize(n) /\ BucketSize(n) \in Nat
        /\ BucketSize(n) > n
    BY <1>2, BucketSizes
  <2>2. ASSUME NEW i \in 0 .. (n + 1) PROVE BucketSize(i) <= BucketSize(n + 1)
    <3>1. CASE i = n + 1
      BY <2>1, <3>1
    <3>2. CASE i \in 0 .. n
      BY <1>2, <2>1, <3>2, BucketSizes
    <3> QED
      BY <3>1, <3>2
  <2> QED
    BY <2>1, <2>2
<1> HIDE DEF S
<1>3. Nat \subseteq S
  BY <1>1, <1>2, InductionOverNat
<1> QED
  BY <1>3 DEF S

\* What BucketBatchSize chooses exists: the first bucket that holds b.
LEMMA BucketOf ==
    ASSUME NEW b \in Nat
    PROVE  \E i \in Nat : /\ BucketBatchSize(b) = BucketSize(i)
                          /\ BucketSize(i) >= b
                          /\ i = 0 \/ BucketSize(i) \div 2 < b
<1> DEFINE T == {i \in Nat : BucketSize(i) >= b}
           Holds(p) == p >= b /\ (p = MinBucket \/ p \div 2 < b)
<1>1. b \in T
  BY BucketSizesGrow, BucketSizes
<1>2. PICK i \in T : \A j \in T : i <= j
  BY <1>1, LeastNatural
<1>3. Holds(BucketSize(i)) /\ i \in 0 .. b
  <2>1. i \in 0 .. b /\ BucketSize(i) >= b
    BY <1>1, <1>2
  <2>2. CASE i = 0
    BY <2>1, <2>2, BucketSizes
  <2>3. CASE i # 0
    <3>1. i - 1 \in Nat /\ i - 1 \notin T
      BY <1>2, <2>3
    <3>2. BucketSize((i - 1) + 1) = 2 * BucketSize(i - 1) /\ BucketSize(i - 1) \in Nat
      BY <3>1, BucketSizes
    <3>3. BucketSize(i) = 2 * BucketSize(i - 1) /\ BucketSize(i - 1) < b
      BY <3>1, <3>2
    <3>4. \A p \in Nat : (2 * p) \div 2 = p
      OBVIOUS
    <3> QED
      BY <2>1, <3>2, <3>3, <3>4
  <2> QED
    BY <2>2, <2>3
<1>4. /\ BucketBatchSize(b) \in {BucketSize(j) : j \in 0 .. b}
      /\ Holds(BucketBatchSize(b))
  BY <1>3 DEF BucketBatchSize, BucketSize
<1>5. PICK j \in 0 .. b : BucketBatchSize(b) = BucketSize(j)
  BY <1>4
<1>6. CASE BucketSize(j) = MinBucket
  BY <1>4, <1>5, <1>6, BucketSizes
<1>7. CASE BucketSize(j) # MinBucket
  BY <1>4, <1>5, <1>7
<1> QED
  BY <1>6, <1>7

LEMMA BucketHolds ==
    ASSUME NEW b \in Nat
    PROVE  BucketBatchSize(b) \in Nat /\ b <= BucketBatchSize(b)
  BY BucketOf, BucketSizes

LEMMA BucketsAreMonotone ==
    ASSUME NEW b \in Nat, NEW c \in Nat, b <= c
    PROVE  BucketBatchSize(b) <= BucketBatchSize(c)
<1>1. PICK i \in Nat : /\ BucketBatchSize(b) = BucketSize(i)
                       /\ i = 0 \/ BucketSize(i) \div 2 < b
  BY BucketOf
<1>2. PICK j \in Nat : BucketBatchSize(c) = BucketSize(j) /\ BucketSize(j) >= c
  BY BucketOf
<1>3. i <= j
  <2> SUFFICES ASSUME i - 1 \in Nat, j <= i - 1 PROVE FALSE
    BY BucketSizes
  <2>1. BucketSize((i - 1) + 1) = 2 * BucketSize(i - 1) /\ BucketSize(i - 1) \in Nat
    BY BucketSizes
  <2>2. BucketSize(j) <= BucketSize(i - 1) /\ BucketSize(j) \in Nat
    BY BucketSizesGrow, BucketSizes
  <2>3. BucketSize(i) \div 2 = BucketSize(i - 1)
    <3>1. \A p \in Nat : (2 * p) \div 2 = p
      OBVIOUS
    <3>2. (i - 1) + 1 = i
      OBVIOUS
    <3> QED
      BY <2>1, <3>1, <3>2
  <2> QED
    BY <1>1, <1>2, <2>1, <2>2, <2>3
<1> QED
  BY <1>1, <1>2, <1>3, BucketSizesGrow

-----------------------------------------------------------------------------
(* The sizes and the gate, as the invariants need them *)

MostLaunched == Largest(LaunchSizes)

LEMMA Sizes ==
    /\ MostLaunched \in Nat \ {0} /\ MostSlots \in Nat
    /\ \A l \in LaunchSizes : l \in 1..MostLaunched
    /\ \A b \in 0..MostLaunched : BucketBatchSize(b) \in b..MostSlots
<1>1. MostLaunched \in LaunchSizes /\ \A l \in LaunchSizes : l <= MostLaunched
  BY PipelineAssumption DEF MostLaunched, Largest
<1>2. MostLaunched \in Nat \ {0} /\ \A l \in LaunchSizes : l \in 1..MostLaunched
  BY <1>1, PipelineAssumption
<1>3. ASSUME NEW b \in 0..MostLaunched
      PROVE  /\ BucketBatchSize(b) \in b..MostSlots
             /\ MostSlots \in Nat
  BY <1>2, BucketHolds, BucketsAreMonotone DEF MostSlots, MostLaunched
<1> QED
  BY <1>2, <1>3

LEMMA Batches ==
    ASSUME TypeOK
    PROVE  /\ Batch \in 0..MostLaunched /\ NextBatch \in 0..MostLaunched
           /\ rem - Batch \in Nat /\ cur + Batch \in Nat
           /\ rem > 0 => Batch > 0
           /\ NextBatch > 0 <=> rem - Batch > 0
<1>1. rem \in Nat /\ call.launch \in 1..MostLaunched /\ cur \in Nat
  BY DEF TypeOK, MostLaunched
<1> QED
  BY <1>1, Sizes DEF Batch, NextBatch, Smaller

\* What a gate may leave behind.
Midstate == IF JobChanged THEN Key[call.job] ELSE pool.midstate
Gated(run, passed) == [pool EXCEPT !.key = Key[call.job], !.midstate = Midstate,
                                   !.graph = run.graph, !.gateCount = passed]
Filled(run, passed) ==
    LET t == IF run.live /\ Midstate = Key[call.job]
             THEN [job |-> run.job, start |-> run.first] ELSE Garbage
    IN  [i \in Slots |-> IF i <= passed THEN t ELSE gateBuf[i]]
ScansItsRange(run, start, batch) == run.first = start /\ run.scanned = batch
GateLeaves(o, start, batch, run, passed, damage) ==
    /\ o.pool = PoolAfter(Gated(run, passed), damage)
    /\ o.buf = SlotsAfter(Filled(run, passed), damage)
    /\ o.asked = [job |-> call.job, start |-> start, size |-> batch,
                  exact |-> ScansItsRange(run, start, batch)]
    /\ o.damage = damage
    /\ o.strayed <=> GateStrays(run, passed)
    /\ o.strayed \in BOOLEAN
    /\ o.strayed \/ damage = {}

\* The ways to run a gate: a replay keeps the graph, and with it the job and
\* the buffers of its capture.
LEMMA GateRun ==
    ASSUME TypeOK, NEW start \in Nat, NEW batch \in 0..MostLaunched,
           NEW run \in GateRuns(start, batch)
    PROVE  /\ run.job \in Jobs \cup {NoJob} /\ run.first \in Nat
           /\ run.scanned \in 0..MostSlots /\ run.live \in BOOLEAN
           /\ run.graph \in [bucket : Nat, gen : Nat, job : Jobs \cup {NoJob}]
           /\ \/ run.graph = NoGraph /\ run.job = call.job /\ run.live
              \/ /\ run.graph.gen = pool.gen /\ run.graph.job = call.job
                 /\ run.job = call.job /\ run.live /\ ~JobChanged
              \/ /\ run.graph = pool.graph /\ run.job = pool.graph.job /\ ~JobChanged
                 /\ run.live <=> pool.graph.gen = pool.gen
                 /\ pool.graph.bucket = BucketBatchSize(batch)
<1> DEFINE bucket == BucketBatchSize(batch)
           Plain(n) == [job |-> call.job, first |-> start, scanned |-> n,
                        graph |-> NoGraph, live |-> TRUE]
           captured == [bucket |-> bucket, gen |-> pool.gen, job |-> call.job]
<1>1. call.job \in Jobs \cup {NoJob} /\ pool \in Pool
  BY DEF TypeOK
<1>2. /\ pool.gen \in Nat
      /\ pool.graph \in [bucket : Nat, gen : Nat, job : Jobs \cup {NoJob}]
  BY <1>1 DEF Pool
<1>3. batch \in 0..MostSlots /\ bucket \in 0..MostSlots /\ bucket \in Nat
  BY Sizes
<1>4. NoGraph \in [bucket : Nat, gen : Nat, job : Jobs \cup {NoJob}]
  BY DEF NoGraph
<1>5. captured \in [bucket : Nat, gen : Nat, job : Jobs \cup {NoJob}]
  BY <1>1, <1>2, <1>3
<1>6. CASE \E n \in {batch, bucket} : run = Plain(n)
  <2>1. PICK n \in {batch, bucket} : run = Plain(n)
    BY <1>6
  <2>2. run.live \in BOOLEAN /\ run.live
    BY <2>1, Zenon
  <2> QED
    BY <1>1, <1>3, <1>4, <2>1, <2>2
<1>7. CASE /\ ~JobChanged
           /\ run = [job |-> call.job, first |-> 0, scanned |-> bucket, live |-> TRUE,
                     graph |-> captured]
  <2>1. run.live \in BOOLEAN /\ run.live
    BY <1>7, Zenon
  <2>2. run.graph = captured /\ run.job = call.job /\ run.first = 0 /\ run.scanned = bucket
    BY <1>7
  <2> QED
    BY <1>1, <1>3, <1>5, <1>7, <2>1, <2>2
<1>8. CASE /\ ~JobChanged /\ ~MustCapture(batch)
           /\ run = [job |-> pool.graph.job, first |-> start, scanned |-> batch,
                     graph |-> pool.graph, live |-> pool.graph.gen = pool.gen]
  <2>1. run.live \in BOOLEAN /\ (run.live <=> pool.graph.gen = pool.gen)
    BY <1>8, Zenon
  <2>2. pool.graph.bucket = bucket
    BY <1>8 DEF MustCapture
  <2>3. /\ run.graph = pool.graph /\ run.job = pool.graph.job
        /\ run.first = start /\ run.scanned = batch
    BY <1>8
  <2> QED
    BY <1>2, <1>3, <1>8, <2>1, <2>2, <2>3
<1>9. CASE JobChanged
  BY <1>6, <1>9, Zenon DEF GateRuns
<1>10. CASE ~JobChanged /\ MustCapture(batch)
  BY <1>6, <1>7, <1>10, Zenon DEF GateRuns
<1>11. CASE ~JobChanged /\ ~MustCapture(batch)
  BY <1>8, <1>11, Zenon DEF GateRuns
<1> QED
  BY <1>9, <1>10, <1>11

LEMMA GateOutcome ==
    ASSUME TypeOK, NEW start \in Nat, NEW batch \in 0..MostLaunched,
           NEW o \in GateOutcomes(start, batch)
    PROVE  \E run \in GateRuns(start, batch), passed \in 0..MostSlots,
              damage \in SUBSET {"slots", "midstates", "work"} :
              GateLeaves(o, start, batch, run, passed, damage)
<1> DEFINE Left(run, passed, damage) ==
            LET t == IF run.live /\ Midstate = Key[call.job]
                     THEN [job |-> run.job, start |-> run.first] ELSE Garbage
            IN  [pool |-> PoolAfter([pool EXCEPT !.key = Key[call.job], !.midstate = Midstate,
                                         !.graph = run.graph, !.gateCount = passed],
                                    damage),
                 buf  |-> SlotsAfter([i \in Slots |-> IF i <= passed THEN t
                                                       ELSE gateBuf[i]], damage),
                 asked |-> [job |-> call.job, start |-> start, size |-> batch,
                            exact |-> run.first = start /\ run.scanned = batch],
                 damage |-> damage, strayed |-> GateStrays(run, passed)]
<1> DEFINE WithCount(run, passed) ==
                {Left(run, passed, damage) : damage \in Damages(GateStrays(run, passed))}
           WithRun(run) == UNION {WithCount(run, passed) : passed \in PassCounts(run)}
<1>1. o \in UNION {WithRun(run) : run \in GateRuns(start, batch)}
  BY Zenon DEF GateOutcomes, Midstate
<1>2. PICK run \in GateRuns(start, batch) : o \in WithRun(run)
  <2> HIDE DEF WithRun
  <2> QED
    BY <1>1
<1>3. PICK passed \in PassCounts(run) : o \in WithCount(run, passed)
  <2> HIDE DEF WithCount
  <2> QED
    BY <1>2
<1>4. passed \in 0..MostSlots
  BY <1>3, GateRun, Sizes DEF PassCounts
<1>5. PICK damage \in Damages(GateStrays(run, passed)) : o = Left(run, passed, damage)
  <2> HIDE DEF Left
  <2> QED
    BY <1>3
<1>6. /\ damage \in SUBSET {"slots", "midstates", "work"}
      /\ GateStrays(run, passed) \/ damage = {}
  BY <1>5 DEF Damages
<1>7. GateStrays(run, passed) \in BOOLEAN
  BY DEF GateStrays
<1>8. /\ o.pool = PoolAfter(Gated(run, passed), damage)
      /\ o.buf = SlotsAfter(Filled(run, passed), damage)
      /\ o.asked = [job |-> call.job, start |-> start, size |-> batch,
                    exact |-> ScansItsRange(run, start, batch)]
      /\ o.damage = damage /\ o.strayed = GateStrays(run, passed)
  BY <1>5, Zenon DEF Gated, Filled, ScansItsRange
<1>9. GateLeaves(o, start, batch, run, passed, damage)
  BY <1>6, <1>7, <1>8, Zenon DEF GateLeaves
<1> QED
  BY <1>4, <1>6, <1>9

-----------------------------------------------------------------------------
(* Type correctness *)

LEMMA InitTypes == Init => TypeOK
<1> SUFFICES ASSUME Init PROVE TypeOK
  OBVIOUS
<1>1. /\ MostLaunched \in Nat \ {0} /\ MostSlots \in Nat
      /\ MaxSolves \in Nat /\ MaxErrors \in Nat
  BY Sizes, PipelineAssumption
<1>2. EmptyPool \in Pool
  BY <1>1, PipelineAssumption DEF EmptyPool, Pool, NoGraph, MostLaunched, Keys
<1>3. Garbage \in Tag /\ Stale \in [by : Nat, from : SUBSET Tag]
  BY DEF Garbage, Stale, Tag
<1>4. /\ call \in [job : Jobs \cup {NoJob}, launch : 1..Largest(LaunchSizes),
                   start : Nat, count : Nat]
      /\ pending \in [on : BOOLEAN, start : Nat, size : Nat]
      /\ asked \in [job : Jobs \cup {NoJob}, start : Nat, size : Nat, exact : BOOLEAN]
      /\ own \in History
  BY <1>1 DEF Init, MostLaunched, History
<1>5. /\ pc = "idle" /\ cur \in Nat /\ rem \in Nat /\ solves \in 0..MaxSolves
      /\ found \subseteq HitOf /\ reported \in Seq(Report) /\ stream \in Seq(Kernels)
      /\ {batched.cap, batched.room, batched.graph} \subseteq Nat
  BY <1>1 DEF Init, EmptyBatched
<1>6. /\ gateBuf \in [Slots -> Tag] /\ results \in [Slots -> [by : Nat, from : SUBSET Tag]]
  BY <1>3 DEF Init
<1>7. pool \in Pool
  BY <1>2 DEF Init
<1> QED
  BY <1>4, <1>5, <1>6, <1>7 DEF TypeOK

LEMMA FieldTypes ==
    ASSUME TypeOK
    PROVE  /\ call.job \in Jobs \cup {NoJob} /\ call.launch \in 1..MostLaunched
           /\ call.start \in Nat /\ call.count \in Nat
           /\ pending.on \in BOOLEAN /\ pending.start \in Nat /\ pending.size \in Nat
           /\ asked.exact \in BOOLEAN /\ asked.start \in Nat
           /\ own.exact \in BOOLEAN /\ own.ran \in BOOLEAN /\ own.orphan \in BOOLEAN
           /\ own.lost \in BOOLEAN /\ own.strayed \in BOOLEAN
           /\ own.errors \in 0..MaxErrors
           /\ batched.cap \in Nat /\ batched.room \in Nat /\ batched.graph \in Nat
           /\ Key[call.job] \in Keys
<1>1. call.job \in Jobs \cup {NoJob} /\ call.launch \in 1..MostLaunched
      /\ call.start \in Nat /\ call.count \in Nat
  BY DEF TypeOK, MostLaunched
<1>2. pending.on \in BOOLEAN /\ pending.start \in Nat /\ pending.size \in Nat
  BY Zenon DEF TypeOK
<1>3. asked.exact \in BOOLEAN /\ asked.start \in Nat
  BY Zenon DEF TypeOK
<1>4. /\ own.exact \in BOOLEAN /\ own.ran \in BOOLEAN /\ own.orphan \in BOOLEAN
      /\ own.lost \in BOOLEAN /\ own.strayed \in BOOLEAN /\ own.errors \in 0..MaxErrors
  BY Zenon DEF TypeOK, History
<1>5. batched.cap \in Nat /\ batched.room \in Nat /\ batched.graph \in Nat
  BY DEF TypeOK
<1>6. Key[call.job] \in Keys
  BY <1>1 DEF Keys
<1> QED
  BY <1>1, <1>2, <1>3, <1>4, <1>5, <1>6

LEMMA PoolTypes ==
    ASSUME TypeOK
    PROVE  /\ pool.cap \in Nat /\ pool.gen \in Nat
           /\ pool.key \in Keys /\ pool.midstate \in Keys
           /\ pool.graph \in [bucket : Nat, gen : Nat, job : Jobs \cup {NoJob}]
           /\ pool.gateCount \in 0..MostSlots /\ pool.lastPassed \in 0..MostSlots
           /\ pool.inFlight \in BOOLEAN /\ pool.prefetched \in BOOLEAN
           /\ pool.pendingNext \in BOOLEAN
           /\ pool.nextStart \in Nat /\ pool.nextBatch \in 0..MostLaunched
<1>1. pool \in Pool
  BY DEF TypeOK
<1> HIDE DEF TypeOK
<1> QED
  BY <1>1, Zenon DEF Pool, MostLaunched

\* What is reported of slots that were used.
LEMMA HitTypes ==
    ASSUME TypeOK
    PROVE  {Hit(i) : i \in 1..pool.lastPassed} \subseteq HitOf
<1> SUFFICES ASSUME NEW i \in 1..pool.lastPassed PROVE Hit(i) \in HitOf
  OBVIOUS
<1>1. i \in Slots
  BY PoolTypes, Sizes DEF Slots
<1>2. gateBuf[i] \in Tag /\ results[i] \in [by : Nat, from : SUBSET Tag]
  BY <1>1 DEF TypeOK
<1> QED
  BY <1>2 DEF Hit, HitOf

LEMMA CollectTypes ==
    ASSUME TypeOK, Collect
    PROVE  /\ found' \subseteq HitOf /\ reported' \in Seq(Report)
           /\ pending' \in [on : BOOLEAN, start : Nat, size : Nat]
           /\ pool' \in Pool /\ own' = own
<1>1. found' \subseteq HitOf
  BY HitTypes DEF Collect, TypeOK
<1>2. pool' \in Pool
  <2>1. pool \in Pool
    BY DEF TypeOK
  <2>2. [pool EXCEPT !.inFlight = FALSE] \in Pool
    BY <2>1 DEF Pool
  <2> QED
    BY <2>1, <2>2 DEF Collect
<1>3. pending' \in [on : BOOLEAN, start : Nat, size : Nat]
  BY DEF Collect, TypeOK
<1>4. reported' \in Seq(Report)
  <2> DEFINE last == own.exact /\ asked.start = pending.start
             r == [start |-> pending.start, size |-> pending.size, hits |-> found',
                   ran |-> own.ran, last |-> last]
  <2>1. last \in BOOLEAN
    OBVIOUS
  <2>2. \A s, z \in Nat, h \in SUBSET HitOf, b, c \in BOOLEAN :
           [start |-> s, size |-> z, hits |-> h, ran |-> b, last |-> c] \in Report
    BY DEF Report
  <2>3. reported' = Append(reported, r)
    BY DEF Collect
  <2> HIDE DEF last
  <2>4. r \in Report
    BY <1>1, <2>1, <2>2, FieldTypes
  <2> HIDE DEF r
  <2> QED
    BY <2>3, <2>4 DEF TypeOK
<1> QED
  BY <1>1, <1>2, <1>3, <1>4 DEF Collect

LEMMA CollectFailsTypes ==
    ASSUME TypeOK, CollectFails
    PROVE  /\ found' \subseteq HitOf /\ pool' \in Pool
           /\ own' \in History
           /\ UNCHANGED <<reported, pending>>
<1>1. found' \subseteq HitOf
  BY DEF CollectFails, TypeOK
<1>2. pool' \in Pool
  <2>1. pool \in Pool
    BY DEF TypeOK
  <2>2. [pool EXCEPT !.inFlight = FALSE] \in Pool
    BY <2>1 DEF Pool
  <2> QED
    BY <2>1, <2>2 DEF CollectFails
<1>3. own' \in History
  <2>1. own.errors + 1 \in 0..MaxErrors
    BY FieldTypes, PipelineAssumption DEF CollectFails, MayFail
  <2>2. \A e \in 0..MaxErrors : [own EXCEPT !.lost = TRUE, !.errors = e] \in History
    BY DEF TypeOK, History
  <2> QED
    BY <2>1, <2>2 DEF CollectFails
<1> QED
  BY <1>1, <1>2, <1>3 DEF CollectFails

LEMMA Damage ==
    ASSUME TypeOK, NEW damage
    PROVE  /\ \A buf \in [Slots -> Tag] : SlotsAfter(buf, damage) \in [Slots -> Tag]
           /\ ResultsAfter(results, damage) \in [Slots -> [by : Nat, from : SUBSET Tag]]
           /\ StreamAfter(stream, damage) \in Seq(Kernels)
           /\ StreamAfter(stream, damage) = <<>> <=> stream = <<>>
           /\ damage = {} => /\ SlotsAfter(gateBuf, damage) = gateBuf
                             /\ ResultsAfter(results, damage) = results
                             /\ StreamAfter(stream, damage) = stream
                             /\ PoolAfter(pool, damage) = pool
<1>1. Garbage \in Tag /\ Stale \in [by : Nat, from : SUBSET Tag]
  BY DEF Garbage, Stale, Tag
<1>2. \A buf \in [Slots -> Tag] : SlotsAfter(buf, damage) \in [Slots -> Tag]
  BY <1>1 DEF SlotsAfter
<1>3. ResultsAfter(results, damage) \in [Slots -> [by : Nat, from : SUBSET Tag]]
  BY <1>1 DEF ResultsAfter, TypeOK
<1>4. stream \in Seq(Kernels)
  BY DEF TypeOK
<1>5. CASE "work" \in damage
  <2> DEFINE spoiled == [k \in DOMAIN stream |-> [stream[k] EXCEPT !.live = FALSE]]
  <2>1. StreamAfter(stream, damage) = spoiled
    BY <1>5 DEF StreamAfter
  <2>2. DOMAIN stream = 1..Len(stream) /\ Len(stream) \in Nat
    BY <1>4
  <2>3. ASSUME NEW k \in 1..Len(stream) PROVE [stream[k] EXCEPT !.live = FALSE] \in Kernels
    <3>1. stream[k] \in Kernels
      BY <1>4
    <3> QED
      BY <3>1 DEF Kernels
  <2>4. spoiled \in Seq(Kernels) /\ Len(spoiled) = Len(stream)
    BY <2>2, <2>3
  <2> HIDE DEF spoiled
  <2> QED
    BY <1>2, <1>3, <1>4, <1>5, <2>1, <2>4
<1>6. CASE "work" \notin damage
  BY <1>2, <1>3, <1>4, <1>6 DEF SlotsAfter, ResultsAfter, StreamAfter, PoolAfter
<1> QED
  BY <1>5, <1>6

\* A stray write changes no field the host keeps.
LEMMA PoolDamage ==
    ASSUME NEW p \in Pool, NEW damage
    PROVE  LET q == PoolAfter(p, damage)
           IN  /\ q \in Pool
               /\ q.cap = p.cap /\ q.gen = p.gen /\ q.key = p.key /\ q.graph = p.graph
               /\ q.gateCount = p.gateCount /\ q.lastPassed = p.lastPassed
               /\ q.nextStart = p.nextStart /\ q.nextBatch = p.nextBatch
               /\ q.inFlight <=> p.inFlight
               /\ q.prefetched <=> p.prefetched
               /\ q.pendingNext <=> p.pendingNext
               /\ damage = {} => q = p
<1>1. CASE "midstates" \in damage
  <2> DEFINE q == [p EXCEPT !.midstate = NoJob]
  <2>1. PoolAfter(p, damage) = q
    BY <1>1 DEF PoolAfter
  <2>2. NoJob \in Keys
    BY PipelineAssumption DEF Keys
  <2>3. q \in Pool
    BY <2>2 DEF Pool
  <2>4. /\ q.cap = p.cap /\ q.gen = p.gen /\ q.key = p.key /\ q.graph = p.graph
        /\ q.gateCount = p.gateCount /\ q.lastPassed = p.lastPassed
        /\ q.nextStart = p.nextStart /\ q.nextBatch = p.nextBatch
    BY DEF Pool
  <2>5. /\ q.inFlight <=> p.inFlight
        /\ q.prefetched <=> p.prefetched
        /\ q.pendingNext <=> p.pendingNext
    BY Zenon DEF Pool
  <2> HIDE DEF q
  <2> QED
    BY <1>1, <2>1, <2>3, <2>4, <2>5
<1>2. CASE "midstates" \notin damage
  BY <1>2 DEF PoolAfter
<1> QED
  BY <1>1, <1>2

LEMMA GateTypes ==
    ASSUME TypeOK, NEW start \in Nat, NEW batch \in 0..MostLaunched,
           NEW o \in GateOutcomes(start, batch)
    PROVE  /\ o.pool \in Pool /\ o.buf \in [Slots -> Tag]
           /\ o.asked \in [job : Jobs \cup {NoJob}, start : Nat, size : Nat, exact : BOOLEAN]
           /\ o.strayed \in BOOLEAN
           /\ [o.pool EXCEPT !.lastPassed = o.pool.gateCount] \in Pool
           /\ [o.pool EXCEPT !.prefetched = TRUE, !.pendingNext = FALSE] \in Pool
<1>1. PICK run \in GateRuns(start, batch), passed \in 0..MostSlots,
           damage \in SUBSET {"slots", "midstates", "work"} :
           GateLeaves(o, start, batch, run, passed, damage)
  BY GateOutcome
<1>2. call.job \in Jobs \cup {NoJob} /\ pool \in Pool /\ gateBuf \in [Slots -> Tag]
  BY DEF TypeOK
<1>3. /\ run.graph \in [bucket : Nat, gen : Nat, job : Jobs \cup {NoJob}]
      /\ run.job \in Jobs \cup {NoJob} /\ run.first \in Nat
  BY GateRun
<1>4. o.pool \in Pool
  <2>1. Midstate \in Keys
    BY PoolTypes, FieldTypes DEF Midstate
  <2>2. Gated(run, passed) \in Pool
    BY <1>2, <1>3, <2>1, FieldTypes DEF Gated, Pool
  <2> QED
    BY <1>1, <2>2, PoolDamage DEF GateLeaves
<1>5. o.buf \in [Slots -> Tag]
  <2> DEFINE t == IF run.live /\ Midstate = Key[call.job]
                  THEN [job |-> run.job, start |-> run.first] ELSE Garbage
  <2>1. t \in Tag
    BY <1>3 DEF Garbage, Tag
  <2>2. Filled(run, passed) = [i \in Slots |-> IF i <= passed THEN t ELSE gateBuf[i]]
    BY DEF Filled
  <2> HIDE DEF t
  <2>3. Filled(run, passed) \in [Slots -> Tag]
    BY <1>2, <2>1, <2>2
  <2>4. o.buf = SlotsAfter(Filled(run, passed), damage)
    BY <1>1 DEF GateLeaves
  <2>5. SlotsAfter(Filled(run, passed), damage) \in [Slots -> Tag]
    BY <2>3, Damage
  <2> QED
    BY <2>4, <2>5
<1>6. o.asked \in [job : Jobs \cup {NoJob}, start : Nat, size : Nat, exact : BOOLEAN]
  <2>1. batch \in Nat
    BY Sizes
  <2>2. o.asked = [job |-> call.job, start |-> start, size |-> batch,
                   exact |-> ScansItsRange(run, start, batch)]
    BY <1>1 DEF GateLeaves
  <2>3. ScansItsRange(run, start, batch) \in BOOLEAN
    BY DEF ScansItsRange
  <2> QED
    BY <1>2, <2>1, <2>2, <2>3
<1>7. /\ [o.pool EXCEPT !.lastPassed = o.pool.gateCount] \in Pool
      /\ [o.pool EXCEPT !.prefetched = TRUE, !.pendingNext = FALSE] \in Pool
  BY <1>4 DEF Pool
<1>8. o.strayed \in BOOLEAN
  BY <1>1 DEF GateLeaves
<1> QED
  BY <1>4, <1>5, <1>6, <1>7, <1>8

LEMMA HistoryTypes ==
    ASSUME TypeOK
    PROVE  /\ MayFail => [own EXCEPT !.errors = @ + 1] \in History
           /\ MayFail => \A b \in BOOLEAN :
                 [own EXCEPT !.orphan = b, !.errors = @ + 1] \in History
           /\ \A e \in BOOLEAN : [own EXCEPT !.exact = e] \in History
           /\ \A b \in BOOLEAN : [own EXCEPT !.strayed = b] \in History
           /\ \A e, b \in BOOLEAN : [own EXCEPT !.exact = e, !.strayed = b] \in History
           /\ [own EXCEPT !.lost = FALSE] \in History
           /\ [own EXCEPT !.exact = FALSE, !.ran = FALSE] \in History
           /\ [own EXCEPT !.exact = TRUE, !.ran = TRUE] \in History
<1>1. own \in History
  BY DEF TypeOK
<1>2. MayFail => own.errors + 1 \in 0..MaxErrors
  BY FieldTypes, PipelineAssumption DEF MayFail
<1>3. \A e \in 0..MaxErrors : [own EXCEPT !.errors = e] \in History
  BY <1>1 DEF History
<1>4. MayFail => [own EXCEPT !.errors = own.errors + 1] \in History
  BY <1>2, <1>3
<1>5. \A b \in BOOLEAN, e \in 0..MaxErrors : [own EXCEPT !.orphan = b, !.errors = e] \in History
  BY <1>1 DEF History
<1>6. MayFail => \A b \in BOOLEAN : [own EXCEPT !.orphan = b, !.errors = own.errors + 1] \in History
  BY <1>2, <1>5
<1> QED
  BY <1>1, <1>4, <1>6 DEF History

LEMMA PoolChanges ==
    ASSUME NEW p \in Pool
    PROVE  /\ [p EXCEPT !.inFlight = FALSE, !.prefetched = FALSE, !.pendingNext = FALSE]
                 \in Pool
           /\ [p EXCEPT !.inFlight = FALSE] \in Pool
           /\ [p EXCEPT !.inFlight = TRUE] \in Pool
           /\ [p EXCEPT !.prefetched = FALSE] \in Pool
           /\ [p EXCEPT !.prefetched = FALSE, !.lastPassed = p.gateCount] \in Pool
           /\ \A n \in Nat, b \in 0..MostLaunched :
                 [p EXCEPT !.pendingNext = TRUE, !.nextStart = n, !.nextBatch = b] \in Pool
           /\ \A c \in 0..MostLaunched :
                 [p EXCEPT !.cap = c, !.gen = p.gen + 1, !.midstate = NoJob] \in Pool
           /\ \A k \in Keys, d \in Keys :
                 [p EXCEPT !.key = k, !.midstate = d, !.graph = NoGraph] \in Pool
<1>1. /\ NoGraph \in [bucket : Nat, gen : Nat, job : Jobs \cup {NoJob}]
      /\ 0..MostLaunched \subseteq Nat /\ NoJob \in Keys
  BY Sizes, PipelineAssumption DEF NoGraph, Keys
<1>2. p.gen \in Nat /\ p.gateCount \in 0..MostSlots
  BY DEF Pool
<1>3. p.gen + 1 \in Nat
  BY <1>2
<1>4. \A c \in Nat, g \in Nat : [p EXCEPT !.cap = c, !.gen = g, !.midstate = NoJob] \in Pool
  BY <1>1 DEF Pool
<1>5. \A c \in 0..MostLaunched :
         [p EXCEPT !.cap = c, !.gen = p.gen + 1, !.midstate = NoJob] \in Pool
  BY <1>1, <1>3, <1>4
<1>6. \A c \in 0..MostSlots : [p EXCEPT !.prefetched = FALSE, !.lastPassed = c] \in Pool
  BY DEF Pool
<1>7. [p EXCEPT !.prefetched = FALSE, !.lastPassed = p.gateCount] \in Pool
  BY <1>2, <1>6
<1>8. \A n \in Nat, b \in 0..MostLaunched :
         [p EXCEPT !.pendingNext = TRUE, !.nextStart = n, !.nextBatch = b] \in Pool
  BY DEF Pool, MostLaunched
<1>9. \A g \in [bucket : Nat, gen : Nat, job : Jobs \cup {NoJob}], k \in Keys, d \in Keys :
         [p EXCEPT !.key = k, !.midstate = d, !.graph = g] \in Pool
  BY DEF Pool
<1>10. /\ [p EXCEPT !.inFlight = FALSE, !.prefetched = FALSE, !.pendingNext = FALSE]
              \in Pool
       /\ [p EXCEPT !.inFlight = FALSE] \in Pool
       /\ [p EXCEPT !.inFlight = TRUE] \in Pool
       /\ [p EXCEPT !.prefetched = FALSE] \in Pool
  BY DEF Pool
<1> QED
  BY <1>1, <1>5, <1>7, <1>8, <1>9, <1>10

LEMMA LaunchedTypes ==
    ASSUME TypeOK, Launched
    PROVE  /\ pending' \in [on : BOOLEAN, start : Nat, size : Nat]
           /\ cur' \in Nat /\ rem' \in Nat /\ pc' = "loop"
<1>1. /\ Batch \in Nat /\ rem - Batch \in Nat /\ cur + Batch \in Nat /\ cur \in Nat
  BY Batches, Sizes DEF TypeOK
<1> HIDE DEF TypeOK
<1> QED
  BY <1>1 DEF Launched

LEMMA NextTypes == TypeOK /\ [Next]_vars => TypeOK'
<1> SUFFICES ASSUME TypeOK, [Next]_vars PROVE TypeOK'
  OBVIOUS
<1> USE DEF hostVars, devVars
<1>1. CASE StartSolve
  <2>1. PICK j \in Jobs, l \in LaunchSizes, n \in Counts :
          /\ call' = [job |-> j, launch |-> l, start |-> call.start + call.count,
                      count |-> n]
          /\ cur' = call'.start /\ rem' = n
    BY <1>1 DEF StartSolve
  <2>2. l \in 1..Largest(LaunchSizes) /\ n \in Nat /\ call.start + call.count \in Nat
    BY Sizes, FieldTypes, PipelineAssumption DEF MostLaunched
  <2>3. /\ call' \in [job : Jobs \cup {NoJob}, launch : 1..Largest(LaunchSizes),
                      start : Nat, count : Nat]
        /\ cur' \in Nat /\ rem' \in Nat
    BY <2>1, <2>2
  <2>4. /\ pending' \in [on : BOOLEAN, start : Nat, size : Nat]
        /\ own' \in History
    BY <1>1, HistoryTypes DEF StartSolve, TypeOK
  <2>5. /\ solves' \in 0..MaxSolves /\ pc' = "loop"
        /\ found' \subseteq HitOf /\ reported' \in Seq(Report)
    <3>1. solves < MaxSolves /\ solves' = solves + 1 /\ found' = {} /\ reported' = <<>>
          /\ pc' = "loop"
      BY <1>1 DEF StartSolve
    <3>2. solves \in 0..MaxSolves /\ MaxSolves \in Nat
      BY PipelineAssumption DEF TypeOK
    <3> QED
      BY <3>1, <3>2
  <2>6. UNCHANGED <<pool, batched, gateBuf, results, stream, asked>>
    BY <1>1 DEF StartSolve
  <2> QED
    BY <2>3, <2>4, <2>5, <2>6 DEF TypeOK
<1>2. ASSUME Collect \/ CollectFails \/ UNCHANGED <<pool, found, reported, pending, own>>,
             UNCHANGED <<call, cur, rem, solves, batched, devVars, asked>>,
             pc' \in {"issue", "finalize", "tail"}
      PROVE  TypeOK'
  <2>1. /\ found' \subseteq HitOf /\ reported' \in Seq(Report) /\ pool' \in Pool
        /\ pending' \in [on : BOOLEAN, start : Nat, size : Nat]
        /\ own' \in History
    BY <1>2, CollectTypes, CollectFailsTypes DEF TypeOK
  <2> QED
    BY <1>2, <2>1 DEF TypeOK
<1>3. CASE LoopCollect
  BY <1>2, <1>3 DEF LoopCollect
<1>4. CASE LoopEnds
  BY <1>4 DEF LoopEnds, TypeOK
<1>5. CASE TailCollect
  BY <1>2, <1>5 DEF TailCollect
<1>6. CASE Finalize
  <2>1. pool' \in Pool
    BY <1>6, PoolChanges DEF Finalize, TypeOK
  <2>2. own' \in History
    <3> DEFINE orphan == own.orphan \/ stream # <<>>
    <3>1. orphan \in BOOLEAN
      OBVIOUS
    <3>2. own' = own \/ (MayFail /\ own' = [own EXCEPT !.orphan = orphan, !.errors = @ + 1])
      BY <1>6 DEF Finalize
    <3> HIDE DEF orphan
    <3> QED
      BY <3>1, <3>2, HistoryTypes DEF TypeOK
  <2> QED
    BY <1>6, <2>1, <2>2 DEF Finalize, TypeOK
<1>7. CASE Issue
  <2> DEFINE told == [pool EXCEPT
                       !.pendingNext = IF NextBatch > 0 THEN TRUE ELSE @,
                       !.nextStart = IF NextBatch > 0 THEN cur + Batch ELSE @,
                       !.nextBatch = IF NextBatch > 0 THEN NextBatch ELSE @]
  <2>1. told \in Pool
    <3>1. CASE NextBatch > 0
      <4>1. told = [pool EXCEPT !.pendingNext = TRUE, !.nextStart = cur + Batch,
                                !.nextBatch = NextBatch]
        BY <3>1 DEF TypeOK, Pool
      <4>2. pool \in Pool /\ cur + Batch \in Nat /\ NextBatch \in 0..MostLaunched
        BY Batches DEF TypeOK
      <4> HIDE DEF told
      <4> QED
        BY <4>1, <4>2, PoolChanges
    <3>2. CASE ~(NextBatch > 0)
      <4>1. pool \in Pool
        BY DEF TypeOK
      <4>2. told = pool
        BY <3>2, <4>1 DEF Pool
      <4> QED
        BY <4>1, <4>2
    <3> QED
      BY <3>1, <3>2
  <2>2. pool' = told \/ pool' = [told EXCEPT !.cap = Batch, !.gen = told.gen + 1,
                                             !.midstate = NoJob]
    BY <1>7 DEF Issue
  <2> HIDE DEF told
  <2>3. pool' \in Pool
    BY <2>1, <2>2, Batches, PoolChanges
  <2>4. gateBuf' \in [Slots -> Tag]
    <3>1. Garbage \in Tag
      BY DEF Garbage, Tag
    <3> QED
      BY <1>7, <3>1 DEF Issue, TypeOK
  <2>5. own' \in History /\ found' \subseteq HitOf /\ pc' \in {"legacy", "gate"}
    BY <1>7, HistoryTypes DEF Issue
  <2> QED
    BY <1>7, <2>3, <2>4, <2>5 DEF Issue, TypeOK
<1>8. CASE LaunchLegacy
  <2>1. cur \in Nat /\ call.job \in Jobs \cup {NoJob} /\ Batch \in Nat
    BY FieldTypes, Batches, Sizes DEF TypeOK
  <2>2. found' \subseteq HitOf
    BY <1>8, <2>1 DEF LaunchLegacy, HitOf, Tag
  <2>3. asked' \in [job : Jobs \cup {NoJob}, start : Nat, size : Nat, exact : BOOLEAN]
    BY <1>8, <2>1 DEF LaunchLegacy
  <2>4. own' \in History
    BY <1>8, HistoryTypes DEF LaunchLegacy
  <2> QED
    BY <1>8, <2>2, <2>3, <2>4, LaunchedTypes DEF LaunchLegacy, TypeOK
<1>9. CASE UsePrefetchedGate
  <2>1. pool' \in Pool /\ own' \in History
    BY <1>9, PoolChanges, HistoryTypes, FieldTypes DEF UsePrefetchedGate, TypeOK
  <2> QED
    BY <1>9, <2>1 DEF UsePrefetchedGate, TypeOK
<1>10. CASE LaunchGate
  <2>1. PICK o \in GateOutcomes(cur, Batch) :
          /\ pool' = [o.pool EXCEPT !.lastPassed = o.pool.gateCount]
          /\ gateBuf' = o.buf /\ asked' = o.asked
          /\ results' = ResultsAfter(results, o.damage)
          /\ stream' = StreamAfter(stream, o.damage)
          /\ own' = [own EXCEPT !.exact = o.asked.exact, !.strayed = @ \/ o.strayed]
    BY <1>10 DEF LaunchGate
  <2>2. cur \in Nat /\ Batch \in 0..MostLaunched
    BY Batches DEF TypeOK
  <2>3. /\ pool' \in Pool /\ gateBuf' \in [Slots -> Tag]
        /\ asked' \in [job : Jobs \cup {NoJob}, start : Nat, size : Nat, exact : BOOLEAN]
    BY <2>1, <2>2, GateTypes
  <2>4. o.asked.exact \in BOOLEAN /\ (own.strayed \/ o.strayed) \in BOOLEAN
    BY <2>1, <2>2, GateTypes, Zenon
  <2>5. own' \in History
    BY <2>1, <2>4, HistoryTypes
  <2>6. results' \in [Slots -> [by : Nat, from : SUBSET Tag]] /\ stream' \in Seq(Kernels)
    BY <2>1, Damage
  <2> QED
    BY <1>10, <2>3, <2>5, <2>6 DEF LaunchGate, TypeOK
<1>11. CASE ProcessPassed
  <2>1. PICK captured \in BOOLEAN, recorded \in BOOLEAN :
          LET runs == HasGraph \/ ~captured
          IN  /\ recorded \/ MayFail
              /\ batched' = [cap |-> IF Grows THEN BucketBatchSize(pool.lastPassed)
                                              ELSE batched.cap,
                             room |-> IF Grows THEN pool.lastPassed ELSE batched.room,
                             target |-> Target[call.job],
                             graph |-> IF HasGraph THEN batched.graph
                                       ELSE IF captured THEN pool.gen ELSE 0]
              /\ results' = IF Grows THEN [i \in Slots |-> Stale] ELSE results
              /\ stream' = IF runs
                           THEN Append(stream, [by |-> cur, active |-> pool.lastPassed,
                                    live |-> (HasGraph => batched.graph = pool.gen),
                                    read |-> FALSE, seeds |-> gateBuf])
                           ELSE stream
              /\ own' = [own EXCEPT !.ran = runs,
                                    !.orphan = @ \/ (runs /\ ~recorded),
                                    !.errors = IF recorded THEN @ ELSE @ + 1]
              /\ pool' = [pool EXCEPT !.inFlight = IF recorded THEN TRUE ELSE @]
              /\ pc' = IF recorded THEN "prefetch" ELSE "tail"
    BY <1>11, ZenonT(60) DEF ProcessPassed
  <2>2. {batched'.cap, batched'.room, batched'.graph} \subseteq Nat
    <3>1. BucketBatchSize(pool.lastPassed) \in Nat /\ pool.lastPassed \in Nat
      BY PoolTypes, BucketHolds, Sizes
    <3> QED
      BY <2>1, <3>1, PoolTypes, FieldTypes
  <2>3. results' \in [Slots -> [by : Nat, from : SUBSET Tag]]
    <3>1. Stale \in [by : Nat, from : SUBSET Tag]
      BY DEF Stale, Garbage, Tag
    <3> QED
      BY <2>1, <3>1 DEF TypeOK
  <2>4. stream' \in Seq(Kernels)
    <3> DEFINE live == (HasGraph => batched.graph = pool.gen)
               op == [by |-> cur, active |-> pool.lastPassed, live |-> live,
                      read |-> FALSE, seeds |-> gateBuf]
    <3>1. live \in BOOLEAN /\ cur \in Nat /\ gateBuf \in [Slots -> Tag]
          /\ stream \in Seq(Kernels)
      BY DEF TypeOK
    <3>2. stream' = stream \/ stream' = Append(stream, op)
      BY <2>1
    <3> HIDE DEF live
    <3>3. op \in Kernels
      BY <3>1, PoolTypes DEF Kernels
    <3> HIDE DEF op
    <3> QED
      BY <3>1, <3>2, <3>3
  <2>5. own' \in History
    <3> DEFINE runs == HasGraph \/ ~captured
               orphan == own.orphan \/ (runs /\ ~recorded)
               errors == IF recorded THEN own.errors ELSE own.errors + 1
    <3>1. errors \in 0..MaxErrors
      BY <2>1, FieldTypes, PipelineAssumption DEF MayFail
    <3>2. runs \in BOOLEAN /\ orphan \in BOOLEAN
      OBVIOUS
    <3>3. own' = [own EXCEPT !.ran = runs, !.orphan = orphan, !.errors = errors]
      BY <2>1
    <3> HIDE DEF runs, orphan, errors
    <3>4. \A a, b \in BOOLEAN, e \in 0..MaxErrors :
             [own EXCEPT !.ran = a, !.orphan = b, !.errors = e] \in History
      BY DEF TypeOK, History
    <3> QED
      BY <3>1, <3>2, <3>3, <3>4
  <2>6. pool' \in Pool
    <3>1. pool' = [pool EXCEPT !.inFlight = TRUE] \/ pool' = pool
      BY <2>1 DEF TypeOK, Pool
    <3> QED
      BY <3>1, PoolChanges DEF TypeOK
  <2>7. pc' \in {"prefetch", "tail"}
    BY <2>1
  <2> QED
    BY <1>11, <2>2, <2>3, <2>4, <2>5, <2>6, <2>7 DEF ProcessPassed, TypeOK
<1>12. CASE NothingPassed
  <2>1. pool' \in Pool
    BY <1>12, PoolChanges DEF NothingPassed, TypeOK
  <2> QED
    BY <1>12, <2>1 DEF NothingPassed, TypeOK
<1>13. CASE PrefetchGate
  <2>1. PICK o \in GateOutcomes(pool.nextStart, pool.nextBatch) :
          /\ pool' = [o.pool EXCEPT !.prefetched = TRUE, !.pendingNext = FALSE]
          /\ gateBuf' = o.buf /\ asked' = o.asked
          /\ results' = ResultsAfter(results, o.damage)
          /\ stream' = StreamAfter(stream, o.damage)
          /\ own' = [own EXCEPT !.strayed = @ \/ o.strayed]
    BY <1>13 DEF PrefetchGate
  <2>2. /\ pool' \in Pool /\ gateBuf' \in [Slots -> Tag]
        /\ asked' \in [job : Jobs \cup {NoJob}, start : Nat, size : Nat, exact : BOOLEAN]
    BY <2>1, PoolTypes, GateTypes
  <2>3. own' \in History
    BY <2>1, HistoryTypes, Zenon
  <2>4. results' \in [Slots -> [by : Nat, from : SUBSET Tag]] /\ stream' \in Seq(Kernels)
    BY <2>1, Damage
  <2> QED
    BY <1>13, <2>2, <2>3, <2>4, LaunchedTypes DEF PrefetchGate, TypeOK
<1>14. CASE NoPrefetch
  BY <1>14, LaunchedTypes DEF NoPrefetch, TypeOK
<1>15. CASE LaunchFails
  <2>1. pool' \in Pool
    <3>1. CASE \E mid \in {pool.midstate, Key[call.job]} :
                pool' = [pool EXCEPT !.key = Key[call.job], !.midstate = mid, !.graph = NoGraph]
      <4>1. pool \in Pool /\ Key[call.job] \in Keys /\ pool.midstate \in Keys
        BY PoolTypes, FieldTypes DEF TypeOK
      <4>2. PICK mid \in {pool.midstate, Key[call.job]} :
                pool' = [pool EXCEPT !.key = Key[call.job], !.midstate = mid, !.graph = NoGraph]
        BY <3>1
      <4>3. mid \in Keys
        BY <4>1
      <4>4. \A k \in Keys, d \in Keys :
                 [pool EXCEPT !.key = k, !.midstate = d, !.graph = NoGraph] \in Pool
        BY <4>1, PoolChanges
      <4> QED
        BY <4>1, <4>2, <4>3, <4>4
    <3> QED
      BY <1>15, <3>1, PoolChanges DEF LaunchFails, TypeOK
  <2>2. own' \in History
    BY <1>15, HistoryTypes DEF LaunchFails, Failed
  <2> QED
    BY <1>15, <2>1, <2>2 DEF LaunchFails, TypeOK
<1>16. CASE PoolAllocFails
  <2>1. pool' \in Pool
    <3>1. pool.gen + 1 \in Nat
      BY PoolTypes
    <3>2. EmptyPool \in Pool
      BY Sizes, PipelineAssumption DEF EmptyPool, Pool, NoGraph, MostLaunched, Keys
    <3>3. \A g \in Nat : [EmptyPool EXCEPT !.gen = g] \in Pool
      BY <3>2 DEF Pool
    <3> QED
      BY <1>16, <3>1, <3>3 DEF PoolAllocFails
  <2>2. own' \in History
    BY <1>16, HistoryTypes DEF PoolAllocFails, Failed
  <2>3. gateBuf' \in [Slots -> Tag]
    BY <1>16 DEF PoolAllocFails, Garbage, Tag
  <2> QED
    BY <1>16, <2>1, <2>2, <2>3 DEF PoolAllocFails, TypeOK
<1>17. CASE BatchedAllocFails
  <2>1. own' \in History
    BY <1>17, HistoryTypes DEF BatchedAllocFails, Failed
  <2>2. results' \in [Slots -> [by : Nat, from : SUBSET Tag]]
    BY <1>17 DEF BatchedAllocFails, Stale, Garbage, Tag
  <2>3. {batched'.cap, batched'.room, batched'.graph} \subseteq Nat
    BY <1>17 DEF BatchedAllocFails, EmptyBatched
  <2> QED
    BY <1>17, <2>1, <2>2, <2>3 DEF BatchedAllocFails, TypeOK
\* What a kernel's stray writes leave is well typed.
<1>18. ASSUME NEW damage, Overrun(damage)
       PROVE  gateBuf' \in [Slots -> Tag] /\ pool' \in Pool /\ own' \in History
  <2>1. pool \in Pool /\ gateBuf \in [Slots -> Tag]
    BY DEF TypeOK
  <2>2. (own.strayed \/ Overruns) \in BOOLEAN
    OBVIOUS
  <2>3. own' \in History
    BY <1>18, <2>2, HistoryTypes DEF Overrun
  <2> QED
    BY <1>18, <2>1, <2>3, Damage, PoolDamage DEF Overrun
<1>19. CASE ReadSeeds
  <2>1. PICK damage \in Damages(Overruns) :
          /\ Overrun(damage)
          /\ stream' = <<[Head(stream) EXCEPT !.read = TRUE, !.seeds = gateBuf',
                              !.live = @ /\ "work" \notin damage]>> \o Tail(stream)
    BY <1>19 DEF ReadSeeds
  <2>2. stream \in Seq(Kernels) /\ stream # <<>> /\ gateBuf' \in [Slots -> Tag]
    BY <1>19, <1>18, <2>1 DEF ReadSeeds, TypeOK
  <2>3. Head(stream) \in Kernels /\ Tail(stream) \in Seq(Kernels)
    BY <2>2
  <2> DEFINE live == Head(stream).live /\ "work" \notin damage
  <2>4. live \in BOOLEAN
    OBVIOUS
  <2> HIDE DEF live
  <2>5. [Head(stream) EXCEPT !.read = TRUE, !.seeds = gateBuf', !.live = live] \in Kernels
    BY <2>2, <2>3, <2>4 DEF Kernels
  <2>6. stream' \in Seq(Kernels)
    BY <2>1, <2>3, <2>5 DEF live
  <2> QED
    BY <1>19, <1>18, <2>1, <2>6 DEF ReadSeeds, TypeOK
<1>20. CASE WriteResults
  <2> DEFINE op == Head(stream)
             Result(i) == [by |-> op.by,
                           from |-> IF i <= op.active /\ op.live
                                    THEN {op.seeds[i], gateBuf'[i]} ELSE {Garbage}]
             written == [i \in Slots |-> IF i <= batched.cap THEN Result(i) ELSE results[i]]
  <2>1. PICK damage \in Damages(Overruns) :
          Overrun(damage) /\ results' = ResultsAfter(written, damage)
    BY <1>20 DEF WriteResults
  <2>2. stream \in Seq(Kernels) /\ stream # <<>> /\ gateBuf' \in [Slots -> Tag]
        /\ results \in [Slots -> [by : Nat, from : SUBSET Tag]]
    BY <1>20, <1>18, <2>1 DEF WriteResults, TypeOK
  <2>3. op \in Kernels /\ stream' \in Seq(Kernels)
    BY <1>20, <2>2 DEF WriteResults
  <2>4. op.by \in Nat /\ op.seeds \in [Slots -> Tag] /\ Garbage \in Tag
        /\ Stale \in [by : Nat, from : SUBSET Tag]
    BY <2>3 DEF Kernels, Garbage, Tag, Stale
  <2>5. \A i \in Slots : Result(i) \in [by : Nat, from : SUBSET Tag]
    BY <2>2, <2>4
  <2> HIDE DEF Result
  <2>6. written \in [Slots -> [by : Nat, from : SUBSET Tag]]
    BY <2>2, <2>5
  <2> HIDE DEF written
  <2>7. results' \in [Slots -> [by : Nat, from : SUBSET Tag]]
    BY <2>1, <2>4, <2>6 DEF ResultsAfter
  <2> QED
    BY <1>20, <1>18, <2>1, <2>3, <2>7 DEF WriteResults, TypeOK
<1>21. CASE UNCHANGED vars
  BY <1>21 DEF vars, TypeOK
<1> QED
  BY <1>1, <1>3, <1>4, <1>5, <1>6, <1>7, <1>8, <1>9, <1>10, <1>11, <1>12, <1>13,
     <1>14, <1>15, <1>16, <1>17, <1>19, <1>20, <1>21 DEF Next, Host, Device

\* Every variable keeps its type; in particular no gate passes more nonces than
\* there are slots, however the launch sizes of the calls change.
THEOREM TypeCorrect == Spec => []TypeOK
  BY InitTypes, NextTypes, PTL DEF Spec

-----------------------------------------------------------------------------
(* The inductive invariant *)

Launching == {"issue", "legacy", "gate", "process", "prefetch"}

\* Where the flags of the pool may be set, and which path a job takes.
ControlInv ==
    /\ pc # "idle" => call.job \in Jobs
    /\ pc \in Launching => ~pending.on /\ rem > 0
    /\ pc = "legacy" => call.job \in Legacy
    /\ pc \in {"gate", "process", "prefetch"} => call.job \notin Legacy
    /\ call.job \in Legacy => ~pool.inFlight /\ ~pool.prefetched
    /\ pool.inFlight => pc \in {"prefetch", "tail", "finalize"} \/ (pc = "loop" /\ pending.on)
    /\ pool.prefetched => pc \in {"loop", "issue", "gate", "tail", "finalize"}
    /\ pc = "idle" => ~pool.pendingNext

\* What is on the stream will be waited for, or is an orphan: its launch or
\* the wait for it failed.
StreamIsWaitedFor == stream # <<>> => own.orphan \/ pool.inFlight

\* The nonces reported so far, and the pending ones, are those up to cur.
ReportedEnd(seq, start) ==
    IF seq = <<>> THEN start ELSE seq[Len(seq)].start + seq[Len(seq)].size
Chained(seq, start) ==
    \A k \in 1..Len(seq) :
        seq[k].start = IF k = 1 THEN start ELSE seq[k - 1].start + seq[k - 1].size
ReportInv ==
    /\ Chained(reported, call.start)
    /\ IF pending.on
       THEN /\ pending.start = ReportedEnd(reported, call.start)
            /\ cur = pending.start + pending.size
       ELSE cur = ReportedEnd(reported, call.start)
    /\ pending.on /\ pc \in {"finalize", "idle"} => own.lost

\* The gate that runs ahead is for the batch the loop comes to next.
PrefetchInv ==
    /\ pool.prefetched /\ pc \in {"loop", "issue", "gate"} =>
          /\ rem > 0
          /\ asked.job = call.job /\ asked.start = cur /\ asked.size = Batch
    /\ pool.pendingNext /\ call.job \notin Legacy =>
          /\ pc \in {"gate", "process", "prefetch", "tail", "finalize"}
          /\ pc \in {"gate", "process", "prefetch"} =>
                /\ NextBatch > 0
                /\ pool.nextStart = cur + Batch /\ pool.nextBatch = NextBatch

\* The batch under way, which starts at ThisBatch: unless a kernel strayed, its
\* kernels are the last of the stream, or have written the results.
UnderWay == pc \in {"process", "prefetch"} \/ (pending.on /\ pc \in {"loop", "tail"})
ThisBatch == IF pending.on THEN pending.start ELSE cur
WorksOn(kernels, written, passed, start) ==
    IF kernels = <<>> THEN \A i \in 1..passed : written[i].by = start
    ELSE kernels[Len(kernels)].by = start /\ kernels[Len(kernels)].active = passed
ResultsInv ==
    /\ pc \in {"legacy", "gate", "process"} => ~own.ran
    /\ pc = "prefetch" /\ own.ran => pool.inFlight
    /\ UnderWay /\ own.ran /\ ~own.strayed =>
          IF pool.inFlight
          THEN /\ pool.lastPassed <= batched.cap
               /\ WorksOn(stream, results, pool.lastPassed, ThisBatch)
          ELSE \A h \in found : h.by = ThisBatch

\* A pool that was allocated once: its midstates are those of its key, and what
\* was captured points into it and is for a job with this key.
PoolInv ==
    /\ pc \in {"gate", "process", "prefetch"} \/ pool.prefetched \/ pool.inFlight => pool.gen > 0
    /\ pool.gen = 0 => pool.cap = 0
    /\ Undisturbed =>
          /\ pool.midstate = pool.key
          /\ pool.gen = 0 => pool.key = NoJob /\ pool.graph = NoGraph /\ batched.graph = 0
          /\ pool.graph.bucket # 0 =>
                pool.graph.gen = pool.gen /\ Key[pool.graph.job] = pool.key
          /\ batched.graph \in {0, pool.gen}

\* What the gate of a batch wrote is there until the next gate runs, and what
\* the kernels of the batch read, write and report comes from it.
JobTag(start) == [job |-> call.job, start |-> start]
NoGateSince == own.exact /\ asked.start = ThisBatch
PrefetchIsExact ==
    pool.prefetched /\ asked.exact =>
        \A i \in 1..pool.gateCount : gateBuf[i] = JobTag(asked.start)
SlotsAreExact(start) ==
    call.job \notin Legacy =>
        \A i \in 1..pool.lastPassed : gateBuf[i] = JobTag(start)
LastKernelsAreExact(start) ==
    LET op == stream[Len(stream)]
    IN  /\ op.live
        /\ op.read => \A i \in 1..op.active : op.seeds[i] = JobTag(start)
ResultsAreExact(start) ==
    IF ~pool.inFlight
    THEN \A h \in found : h.index = JobTag(start) /\ h.from = {JobTag(start)}
    ELSE IF stream = <<>>
    THEN \A i \in 1..pool.lastPassed : results[i].from = {JobTag(start)}
    ELSE LastKernelsAreExact(start)
ExactInv ==
    Undisturbed /\ KeyIsUnique =>
        /\ PrefetchIsExact
        /\ UnderWay /\ NoGateSince =>
              /\ SlotsAreExact(ThisBatch)
              /\ own.ran => ResultsAreExact(ThisBatch)

-----------------------------------------------------------------------------
(* The flags *)

LEMMA GateKeeps ==
    ASSUME TypeOK, NEW start \in Nat, NEW batch \in 0..MostLaunched,
           NEW o \in GateOutcomes(start, batch)
    PROVE  /\ o.pool.cap = pool.cap /\ o.pool.gen = pool.gen
           /\ o.pool.lastPassed = pool.lastPassed
           /\ (o.pool.inFlight <=> pool.inFlight) /\ (o.pool.prefetched <=> pool.prefetched)
           /\ (o.pool.pendingNext <=> pool.pendingNext)
           /\ o.pool.nextStart = pool.nextStart /\ o.pool.nextBatch = pool.nextBatch
           /\ o.pool.key = Key[call.job]
           /\ o.asked.job = call.job /\ o.asked.start = start /\ o.asked.size = batch
           /\ o.strayed \/ o.damage = {}
<1>1. PICK run \in GateRuns(start, batch), passed \in 0..MostSlots,
           damage \in SUBSET {"slots", "midstates", "work"} :
           GateLeaves(o, start, batch, run, passed, damage)
  BY GateOutcome
<1>2. pool \in Pool /\ Key[call.job] \in Keys /\ Midstate \in Keys
  BY PoolTypes, FieldTypes DEF TypeOK, Midstate
<1> DEFINE gated == Gated(run, passed)
<1>3. gated \in Pool
  BY <1>2, GateRun DEF Gated, Pool
<1>4. /\ gated.cap = pool.cap /\ gated.gen = pool.gen /\ gated.lastPassed = pool.lastPassed
      /\ gated.nextStart = pool.nextStart /\ gated.nextBatch = pool.nextBatch
      /\ gated.key = Key[call.job]
  BY <1>2 DEF Gated, Pool
<1>5. /\ (gated.inFlight <=> pool.inFlight) /\ (gated.prefetched <=> pool.prefetched)
      /\ (gated.pendingNext <=> pool.pendingNext)
  BY <1>2, Zenon DEF Gated, Pool
<1>6. o.pool = PoolAfter(gated, damage) /\ (o.strayed \/ o.damage = {})
  BY <1>1, Zenon DEF GateLeaves
<1>7. o.asked = [job |-> call.job, start |-> start, size |-> batch,
                 exact |-> ScansItsRange(run, start, batch)]
  BY <1>1, Zenon DEF GateLeaves
<1> HIDE DEF gated
<1> QED
  BY <1>3, <1>4, <1>5, <1>6, <1>7, PoolDamage

\* Whatever the kernels spoil, the host keeps its flags and its history.
LEMMA DeviceKeeps ==
    ASSUME TypeOK, Device
    PROVE  /\ UNCHANGED <<pc, call, cur, rem, pending, found, reported, solves, batched,
                          asked>>
           /\ stream # <<>>
           /\ pool'.cap = pool.cap /\ pool'.gen = pool.gen
           /\ pool'.lastPassed = pool.lastPassed
           /\ pool'.nextStart = pool.nextStart /\ pool'.nextBatch = pool.nextBatch
           /\ (pool'.inFlight <=> pool.inFlight) /\ (pool'.prefetched <=> pool.prefetched)
           /\ (pool'.pendingNext <=> pool.pendingNext)
           /\ (own'.exact <=> own.exact) /\ (own'.ran <=> own.ran)
           /\ (own'.orphan <=> own.orphan) /\ (own'.lost <=> own.lost)
           /\ own'.errors = own.errors /\ (own.strayed => own'.strayed)
<1>1. PICK damage \in Damages(Overruns) : Overrun(damage)
  BY DEF Device, ReadSeeds, WriteResults
<1>2. /\ UNCHANGED <<pc, call, cur, rem, pending, found, reported, solves, batched, asked>>
      /\ stream # <<>>
  BY DEF Device, ReadSeeds, WriteResults, hostVars
<1>3. pool \in Pool /\ own \in History
  BY DEF TypeOK
<1>4. pool' = PoolAfter(pool, damage) /\ own' = [own EXCEPT !.strayed = @ \/ Overruns]
  BY <1>1 DEF Overrun
<1>5. /\ (own'.exact <=> own.exact) /\ (own'.ran <=> own.ran)
      /\ (own'.orphan <=> own.orphan) /\ (own'.lost <=> own.lost)
      /\ own'.errors = own.errors /\ (own.strayed => own'.strayed)
  BY <1>3, <1>4, Zenon DEF History
<1> QED
  BY <1>2, <1>3, <1>4, <1>5, PoolDamage

\* A kernel that stays in its buffers touches nothing but them.
LEMMA QuietDevice ==
    ASSUME TypeOK, Device, ~own'.strayed
    PROVE  /\ ~own.strayed /\ UNCHANGED <<gateBuf, pool>>
           /\ ReadSeeds =>
                 \E op \in Kernels :
                    /\ op.by = Head(stream).by /\ op.active = Head(stream).active
                    /\ (op.live <=> Head(stream).live) /\ op.seeds = gateBuf
                    /\ stream' = <<op>> \o Tail(stream) /\ results' = results
           /\ WriteResults =>
                 results' = [i \in Slots |->
                    IF i <= batched.cap
                    THEN [by |-> Head(stream).by,
                          from |-> IF i <= Head(stream).active /\ Head(stream).live
                                   THEN {Head(stream).seeds[i], gateBuf[i]}
                                   ELSE {Garbage}]
                    ELSE results[i]]
<1>1. own \in History /\ ~Overruns /\ ~own.strayed
  <2>1. own' = [own EXCEPT !.strayed = @ \/ Overruns]
    BY DEF Device, ReadSeeds, WriteResults, Overrun
  <2> QED
    BY <2>1, Zenon DEF TypeOK, History
<1>2. \A damage \in Damages(Overruns) : damage = {}
  BY <1>1 DEF Damages
<1>3. UNCHANGED <<gateBuf, pool>>
  <2>1. PICK damage \in Damages(Overruns) : Overrun(damage)
    BY DEF Device, ReadSeeds, WriteResults
  <2> QED
    BY <1>2, <2>1, Damage DEF Overrun
<1>4. ASSUME ReadSeeds
      PROVE  \E op \in Kernels :
                /\ op.by = Head(stream).by /\ op.active = Head(stream).active
                /\ (op.live <=> Head(stream).live) /\ op.seeds = gateBuf
                /\ stream' = <<op>> \o Tail(stream) /\ results' = results
  <2> DEFINE live == Head(stream).live /\ TRUE
             op == [Head(stream) EXCEPT !.read = TRUE, !.seeds = gateBuf, !.live = live]
  <2>1. PICK damage \in Damages(Overruns) :
          stream' = <<[Head(stream) EXCEPT !.read = TRUE, !.seeds = gateBuf',
                              !.live = @ /\ "work" \notin damage]>> \o Tail(stream)
    BY <1>4 DEF ReadSeeds
  <2>2. Head(stream) \in Kernels /\ gateBuf \in [Slots -> Tag]
    BY <1>4 DEF ReadSeeds, TypeOK
  <2>3. live \in BOOLEAN /\ (live <=> Head(stream).live)
    OBVIOUS
  <2>4. "work" \notin damage
    BY <1>2, <2>1
  <2>5. stream' = <<op>> \o Tail(stream)
    BY <1>3, <2>1, <2>4, Zenon
  <2> HIDE DEF live
  <2>6. op \in Kernels /\ op.by = Head(stream).by /\ op.active = Head(stream).active
        /\ op.seeds = gateBuf
    BY <2>2, <2>3 DEF Kernels
  <2>7. op.live <=> Head(stream).live
    BY <2>2, <2>3, Zenon DEF Kernels
  <2> QED
    BY <1>4, <2>5, <2>6, <2>7 DEF ReadSeeds
<1>5. ASSUME WriteResults
      PROVE  results' = [i \in Slots |->
                IF i <= batched.cap
                THEN [by |-> Head(stream).by,
                      from |-> IF i <= Head(stream).active /\ Head(stream).live
                               THEN {Head(stream).seeds[i], gateBuf[i]}
                               ELSE {Garbage}]
                ELSE results[i]]
  <2> DEFINE Written(buf) == [i \in Slots |->
                IF i <= batched.cap
                THEN [by |-> Head(stream).by,
                      from |-> IF i <= Head(stream).active /\ Head(stream).live
                               THEN {Head(stream).seeds[i], buf[i]}
                               ELSE {Garbage}]
                ELSE results[i]]
  <2>1. PICK damage \in Damages(Overruns) : results' = ResultsAfter(Written(gateBuf'), damage)
    BY <1>5 DEF WriteResults
  <2> HIDE DEF Written
  <2>2. results' = Written(gateBuf)
    BY <1>2, <1>3, <2>1 DEF ResultsAfter
  <2> QED
    BY <2>2 DEF Written
<1> QED
  BY <1>1, <1>3, <1>4, <1>5

\* What failed or strayed once stays so, and no buffer is ever taken back.
LEMMA NextDisturbance ==
    TypeOK /\ [Next]_vars =>
        (own.strayed => own'.strayed) /\ (Undisturbed' => Undisturbed)
<1> SUFFICES ASSUME TypeOK, [Next]_vars
             PROVE  (own.strayed => own'.strayed) /\ (Undisturbed' => Undisturbed)
  OBVIOUS
<1> USE DEF hostVars, devVars
<1>0. /\ pool \in Pool /\ own \in History
      /\ pool.gen \in Nat /\ own.errors \in Nat
  BY PoolTypes, PipelineAssumption DEF TypeOK, History
<1> DEFINE Grown == /\ pool'.gen \in {pool.gen, pool.gen + 1}
                    /\ own'.errors \in {own.errors, own.errors + 1}
                    /\ own.strayed => own'.strayed
<1>1. Grown => (own.strayed => own'.strayed) /\ (Undisturbed' => Undisturbed)
  BY <1>0 DEF Undisturbed
<1>2. ASSUME Collect \/ CollectFails \/ UNCHANGED <<pool, own>> PROVE Grown
  BY <1>0, <1>2 DEF Collect, CollectFails, Pool, History
<1>3. CASE StartSolve \/ LoopCollect \/ LoopEnds \/ TailCollect
  BY <1>0, <1>1, <1>2, <1>3 DEF StartSolve, LoopCollect, LoopEnds, TailCollect,
                                Pool, History
<1>4. CASE Finalize
  <2>1. own' = own \/ own' = [own EXCEPT !.orphan = @ \/ stream # <<>>, !.errors = @ + 1]
    BY <1>4 DEF Finalize
  <2>2. own'.strayed <=> own.strayed
    BY <1>0, <2>1, Zenon DEF History
  <2>3. own'.errors \in {own.errors, own.errors + 1}
    BY <1>0, <2>1 DEF History
  <2>4. pool'.gen = pool.gen
    BY <1>0, <1>4 DEF Finalize, Pool
  <2> QED
    BY <1>1, <2>2, <2>3, <2>4
<1>5. CASE Issue
  BY <1>0, <1>1, <1>5 DEF Issue, Pool, History
<1>6. CASE LaunchLegacy \/ UsePrefetchedGate \/ NothingPassed \/ NoPrefetch
  BY <1>0, <1>1, <1>6 DEF LaunchLegacy, UsePrefetchedGate, NothingPassed, NoPrefetch,
                          Pool, History
<1>7. CASE LaunchGate
  <2>1. PICK o \in GateOutcomes(cur, Batch) :
          /\ pool' = [o.pool EXCEPT !.lastPassed = o.pool.gateCount]
          /\ own' = [own EXCEPT !.exact = o.asked.exact, !.strayed = @ \/ o.strayed]
    BY <1>7 DEF LaunchGate
  <2>2. cur \in Nat /\ Batch \in 0..MostLaunched
    BY Batches DEF TypeOK
  <2>3. o.pool \in Pool
    BY <2>2, GateTypes
  <2>4. o.pool.gen = pool.gen
    BY <2>2, GateKeeps
  <2>5. pool'.gen = pool.gen
    BY <2>1, <2>3, <2>4 DEF Pool
  <2>6. own.strayed => own'.strayed
    BY <1>0, <2>1, Zenon DEF History
  <2>7. own'.errors = own.errors
    BY <1>0, <2>1 DEF History
  <2> QED
    BY <1>1, <2>5, <2>6, <2>7
<1>8. CASE PrefetchGate
  <2>1. PICK o \in GateOutcomes(pool.nextStart, pool.nextBatch) :
          /\ pool' = [o.pool EXCEPT !.prefetched = TRUE, !.pendingNext = FALSE]
          /\ own' = [own EXCEPT !.strayed = @ \/ o.strayed]
    BY <1>8 DEF PrefetchGate
  <2>2. pool.nextStart \in Nat /\ pool.nextBatch \in 0..MostLaunched
    BY PoolTypes
  <2>3. o.pool \in Pool
    BY <2>2, GateTypes
  <2>4. o.pool.gen = pool.gen
    BY <2>2, GateKeeps
  <2>5. pool'.gen = pool.gen
    BY <2>1, <2>3, <2>4 DEF Pool
  <2>6. own.strayed => own'.strayed
    BY <1>0, <2>1, Zenon DEF History
  <2>7. own'.errors = own.errors
    BY <1>0, <2>1 DEF History
  <2> QED
    BY <1>1, <2>5, <2>6, <2>7
<1>9. CASE ProcessPassed
  <2>1. PICK recorded \in BOOLEAN, runs \in BOOLEAN :
          /\ own' = [own EXCEPT !.ran = runs,
                                !.orphan = @ \/ (runs /\ ~recorded),
                                !.errors = IF recorded THEN @ ELSE @ + 1]
          /\ pool' = [pool EXCEPT !.inFlight = IF recorded THEN TRUE ELSE @]
    BY <1>9, ZenonT(60) DEF ProcessPassed, HasGraph, Retargets
  <2>2. own'.strayed <=> own.strayed
    BY <1>0, <2>1, Zenon DEF History
  <2>3. own'.errors \in {own.errors, own.errors + 1} /\ pool'.gen = pool.gen
    BY <1>0, <2>1 DEF Pool, History
  <2> QED
    BY <1>1, <2>2, <2>3
<1>10. CASE LaunchFails \/ PoolAllocFails \/ BatchedAllocFails
  BY <1>0, <1>1, <1>10 DEF LaunchFails, PoolAllocFails, BatchedAllocFails, Failed,
                          EmptyPool, Pool, History
<1>11. CASE Device
  BY <1>1, <1>11, DeviceKeeps
<1>12. CASE UNCHANGED vars
  BY <1>1, <1>12 DEF vars
<1> QED
  BY <1>3, <1>5, <1>6, <1>7, <1>8, <1>9, <1>10, <1>11, <1>4, <1>12 DEF Next, Host

LEMMA NextControl ==
    TypeOK /\ ControlInv /\ StreamIsWaitedFor /\ [Next]_vars
        => ControlInv' /\ StreamIsWaitedFor'
<1> SUFFICES ASSUME TypeOK, ControlInv, StreamIsWaitedFor, [Next]_vars
             PROVE  ControlInv' /\ StreamIsWaitedFor'
  OBVIOUS
<1> USE DEF hostVars, devVars, ControlInv, StreamIsWaitedFor, Launching
<1>0. pool \in Pool /\ own \in History /\ pending \in [on : BOOLEAN, start : Nat, size : Nat]
      /\ rem \in Nat
  BY DEF TypeOK
<1> USE <1>0
<1>1. CASE StartSolve
  BY <1>1, PipelineAssumption DEF StartSolve, History
<1>2. ASSUME UNCHANGED <<call, cur, rem, solves, batched, devVars, asked>>,
             \/ Collect /\ pc' \in {"issue", "finalize"}
             \/ CollectFails /\ pc' \in {"tail", "finalize"}
             \/ /\ ~pending.on /\ pc' \in {"issue", "finalize"}
                /\ UNCHANGED <<pool, found, reported, pending, own>>,
             pc \in {"loop", "tail"},
             pc' = "issue" => pc = "loop" /\ rem > 0
      PROVE  ControlInv' /\ StreamIsWaitedFor'
  BY <1>2 DEF Collect, CollectFails, Pool, History
<1>3. CASE LoopCollect
  BY <1>2, <1>3 DEF LoopCollect
<1>4. CASE LoopEnds
  BY <1>4 DEF LoopEnds
<1>5. CASE TailCollect
  BY <1>2, <1>5 DEF TailCollect
<1>6. CASE Finalize
  <2> DEFINE orphan == own.orphan \/ stream # <<>>
  <2>1. ~pool'.inFlight /\ ~pool'.prefetched /\ ~pool'.pendingNext
    BY <1>6 DEF Finalize, Pool
  <2>2. UNCHANGED <<call, pending, rem, stream>> /\ pc = "finalize" /\ pc' = "idle"
    BY <1>6 DEF Finalize
  <2>3. stream # <<>> => own'.orphan
    <3>1. CASE (pool.inFlight => stream = <<>>) /\ own' = own
      BY <3>1
    <3>2. CASE own' = [own EXCEPT !.orphan = orphan, !.errors = @ + 1]
      <4>1. own'.orphan <=> orphan
        BY <3>2, Zenon DEF History
      <4> QED
        BY <4>1
    <3> QED
      BY <1>6, <3>1, <3>2 DEF Finalize
  <2> QED
    BY <2>1, <2>2, <2>3
<1>7. CASE Issue
  BY <1>7 DEF Issue, Pool, History
<1>8. CASE LaunchLegacy
  BY <1>8 DEF LaunchLegacy, History, Launched
<1>9. CASE UsePrefetchedGate
  BY <1>9 DEF UsePrefetchedGate, History, Pool
<1>10. CASE LaunchGate
  <2>1. PICK o \in GateOutcomes(cur, Batch) :
          /\ pool' = [o.pool EXCEPT !.lastPassed = o.pool.gateCount]
          /\ stream' = StreamAfter(stream, o.damage)
          /\ own' = [own EXCEPT !.exact = o.asked.exact, !.strayed = @ \/ o.strayed]
    BY <1>10 DEF LaunchGate
  <2>2. cur \in Nat /\ Batch \in 0..MostLaunched
    BY Batches DEF TypeOK
  <2>3. o.pool \in Pool
    BY <2>1, <2>2, GateTypes
  <2>4. /\ (o.pool.inFlight <=> pool.inFlight) /\ (o.pool.prefetched <=> pool.prefetched)
        /\ (o.pool.pendingNext <=> pool.pendingNext)
    BY <2>1, <2>2, GateKeeps
  <2>5. /\ (pool'.inFlight <=> pool.inFlight) /\ (pool'.prefetched <=> pool.prefetched)
        /\ (pool'.pendingNext <=> pool.pendingNext)
    BY <2>1, <2>3, <2>4 DEF Pool
  <2>6. (own'.orphan <=> own.orphan) /\ (stream' = <<>> <=> stream = <<>>)
    BY <2>1, Damage, Zenon DEF History
  <2> QED
    BY <1>10, <2>5, <2>6 DEF LaunchGate
<1>11. CASE ProcessPassed
  <2>1. PICK captured \in BOOLEAN, recorded \in BOOLEAN :
          LET runs == HasGraph \/ ~captured
          IN  /\ ~HasGraph => stream = <<>>
              /\ stream' = IF runs
                           THEN Append(stream, [by |-> cur, active |-> pool.lastPassed,
                                    live |-> (HasGraph => batched.graph = pool.gen),
                                    read |-> FALSE, seeds |-> gateBuf])
                           ELSE stream
              /\ own' = [own EXCEPT !.ran = runs,
                                    !.orphan = @ \/ (runs /\ ~recorded),
                                    !.errors = IF recorded THEN @ ELSE @ + 1]
              /\ pool' = [pool EXCEPT !.inFlight = IF recorded THEN TRUE ELSE @]
              /\ pc' = IF recorded THEN "prefetch" ELSE "tail"
    BY <1>11, ZenonT(60) DEF ProcessPassed
  <2>2. own'.orphan <=> own.orphan \/ ((HasGraph \/ ~captured) /\ ~recorded)
    BY <2>1, Zenon DEF History
  <2>3. pool'.inFlight <=> pool.inFlight \/ recorded
    BY <2>1 DEF Pool
  <2>4. pool'.prefetched = pool.prefetched
    BY <2>1 DEF Pool
  <2>5. ~(HasGraph \/ ~captured) => stream' = <<>>
    BY <2>1
  <2> QED
    BY <1>11, <2>1, <2>2, <2>3, <2>4, <2>5 DEF ProcessPassed
<1>12. CASE NothingPassed
  BY <1>12 DEF NothingPassed, Pool
<1>13. CASE PrefetchGate
  <2>1. PICK o \in GateOutcomes(pool.nextStart, pool.nextBatch) :
          /\ pool' = [o.pool EXCEPT !.prefetched = TRUE, !.pendingNext = FALSE]
          /\ stream' = StreamAfter(stream, o.damage)
          /\ own' = [own EXCEPT !.strayed = @ \/ o.strayed]
    BY <1>13 DEF PrefetchGate
  <2>2. /\ pool.nextStart \in Nat /\ pool.nextBatch \in 0..MostLaunched
    BY PoolTypes
  <2>3. o.pool \in Pool
    BY <2>1, <2>2, GateTypes
  <2>4. (o.pool.inFlight <=> pool.inFlight)
    BY <2>1, <2>2, GateKeeps
  <2>5. pending'.on
    BY <1>13 DEF PrefetchGate, Launched
  <2>6. (pool'.inFlight <=> pool.inFlight) /\ pool'.prefetched
    BY <2>1, <2>3, <2>4 DEF Pool
  <2>7. (own'.orphan <=> own.orphan) /\ (stream' = <<>> <=> stream = <<>>)
    BY <2>1, Damage, Zenon DEF History
  <2> QED
    BY <1>13, <2>5, <2>6, <2>7 DEF PrefetchGate, Launched
<1>14. CASE NoPrefetch
  BY <1>14 DEF NoPrefetch, Launched
<1>15. CASE LaunchFails
  BY <1>15 DEF LaunchFails, Pool, History, Failed
<1>16. CASE PoolAllocFails
  BY <1>16 DEF PoolAllocFails, Pool, History, Failed, EmptyPool
<1>17. CASE BatchedAllocFails
  BY <1>17 DEF BatchedAllocFails, Pool, History, Failed
<1>18. CASE Device
  BY <1>18, DeviceKeeps
<1>19. CASE UNCHANGED vars
  BY <1>19 DEF vars
<1> QED
  BY <1>1, <1>3, <1>4, <1>5, <1>6, <1>7, <1>8, <1>9, <1>10, <1>11, <1>12, <1>13,
     <1>14, <1>15, <1>16, <1>17, <1>18, <1>19 DEF Next, Host

LEMMA ControlInvariance == Spec => [](TypeOK /\ ControlInv /\ StreamIsWaitedFor)
<1>1. Init => TypeOK /\ ControlInv /\ StreamIsWaitedFor
  BY InitTypes DEF Init, ControlInv, StreamIsWaitedFor, Launching, EmptyPool
<1> QED
  BY <1>1, NextTypes, NextControl, PTL DEF Spec

\* Between two calls nothing is flagged, and only kernels whose launch failed
\* after they were enqueued, or whose end the device refused to wait for, may
\* still run.
THEOREM NothingIsLeftBehind == Spec => []IdleIsQuiet
<1>1. TypeOK /\ ControlInv /\ StreamIsWaitedFor => IdleIsQuiet
  BY DEF ControlInv, StreamIsWaitedFor, IdleIsQuiet
<1> QED
  BY <1>1, ControlInvariance, PTL

-----------------------------------------------------------------------------
(* The gate that runs ahead *)

\* What a step makes of the announced batch, where it does not announce one.
LEMMA NextPrefetch ==
    TypeOK /\ ControlInv /\ PrefetchInv /\ [Next]_vars => PrefetchInv'
<1> SUFFICES ASSUME TypeOK, ControlInv, PrefetchInv, [Next]_vars PROVE PrefetchInv'
  OBVIOUS
<1> USE DEF hostVars, devVars
<1>0. pool \in Pool /\ rem \in Nat
  BY DEF TypeOK
\* Steps that launch nothing and announce nothing.
<1>1. ASSUME UNCHANGED <<call, cur, rem, asked>>,
             pool'.prefetched => pool.prefetched,
             pool'.pendingNext => pool.pendingNext,
             pool'.nextStart = pool.nextStart, pool'.nextBatch = pool.nextBatch,
             \/ pc' \in {"tail", "finalize"}
             \/ pc' = "issue" /\ pc = "loop"
             \/ pc' \in {"process", "prefetch"} /\ pc \in {"gate", "process"} /\ ~pool'.prefetched
             \/ pc' = pc
      PROVE  PrefetchInv'
  BY <1>1 DEF PrefetchInv, Batch, NextBatch, Smaller
<1>2. CASE StartSolve
  BY <1>2 DEF StartSolve, ControlInv, PrefetchInv
<1>3. ASSUME Collect \/ CollectFails \/ UNCHANGED <<pool, found, reported, pending, own>>
      PROVE  /\ pool'.prefetched => pool.prefetched
             /\ pool'.pendingNext => pool.pendingNext
             /\ pool'.nextStart = pool.nextStart /\ pool'.nextBatch = pool.nextBatch
  BY <1>0, <1>3 DEF Collect, CollectFails, Pool
<1>4. CASE LoopCollect
  BY <1>1, <1>3, <1>4 DEF LoopCollect
<1>5. CASE TailCollect
  BY <1>1, <1>3, <1>5 DEF TailCollect
<1>6. CASE LoopEnds
  BY <1>1, <1>6 DEF LoopEnds
<1>7. CASE Finalize
  BY <1>0, <1>7 DEF Finalize, PrefetchInv, Pool
<1>8. CASE Issue
  <2> DEFINE told == [pool EXCEPT
                       !.pendingNext = IF NextBatch > 0 THEN TRUE ELSE @,
                       !.nextStart = IF NextBatch > 0 THEN cur + Batch ELSE @,
                       !.nextBatch = IF NextBatch > 0 THEN NextBatch ELSE @]
  <2>1. /\ told.prefetched <=> pool.prefetched
        /\ told.pendingNext <=> pool.pendingNext \/ NextBatch > 0
        /\ NextBatch > 0 => told.nextStart = cur + Batch /\ told.nextBatch = NextBatch
    BY <1>0 DEF Pool
  <2>2. /\ pool'.prefetched <=> told.prefetched
        /\ pool'.pendingNext <=> told.pendingNext
        /\ pool'.nextStart = told.nextStart /\ pool'.nextBatch = told.nextBatch
    BY <1>0, <1>8 DEF Issue, Pool
  <2> HIDE DEF told
  <2>3. /\ UNCHANGED <<call, cur, rem, asked>> /\ pc = "issue"
        /\ pc' = IF call.job \in Legacy THEN "legacy" ELSE "gate"
    BY <1>8 DEF Issue
  <2> QED
    BY <2>1, <2>2, <2>3 DEF PrefetchInv, Batch, NextBatch, Smaller
<1>9. CASE LaunchLegacy
  BY <1>9 DEF LaunchLegacy, ControlInv, PrefetchInv, Launched
<1>10. CASE UsePrefetchedGate
  BY <1>0, <1>1, <1>10 DEF UsePrefetchedGate, Pool
<1>11. CASE LaunchGate
  <2>1. PICK o \in GateOutcomes(cur, Batch) :
          pool' = [o.pool EXCEPT !.lastPassed = o.pool.gateCount]
    BY <1>11 DEF LaunchGate
  <2>2. cur \in Nat /\ Batch \in 0..MostLaunched
    BY Batches DEF TypeOK
  <2>3. o.pool \in Pool
    BY <2>1, <2>2, GateTypes
  <2>4. /\ (o.pool.prefetched <=> pool.prefetched)
        /\ (o.pool.pendingNext <=> pool.pendingNext)
        /\ o.pool.nextStart = pool.nextStart /\ o.pool.nextBatch = pool.nextBatch
    BY <2>1, <2>2, GateKeeps
  <2>5. /\ ~pool'.prefetched /\ (pool'.pendingNext <=> pool.pendingNext)
        /\ pool'.nextStart = pool.nextStart /\ pool'.nextBatch = pool.nextBatch
    BY <1>11, <2>1, <2>3, <2>4 DEF LaunchGate, Pool
  <2>6. pc = "gate" /\ pc' = "process" /\ UNCHANGED <<call, cur, rem>>
    BY <1>11 DEF LaunchGate
  <2> QED
    BY <2>5, <2>6 DEF PrefetchInv, Batch, NextBatch, Smaller
<1>12. CASE ProcessPassed
  <2>1. PICK recorded \in BOOLEAN :
          /\ pool' = [pool EXCEPT !.inFlight = IF recorded THEN TRUE ELSE @]
          /\ pc' = IF recorded THEN "prefetch" ELSE "tail"
    BY <1>12, Zenon DEF ProcessPassed
  <2>2. /\ pool'.prefetched <=> pool.prefetched
        /\ pool'.pendingNext <=> pool.pendingNext
        /\ pool'.nextStart = pool.nextStart /\ pool'.nextBatch = pool.nextBatch
    BY <1>0, <2>1 DEF Pool
  <2> QED
    BY <1>1, <1>12, <2>1, <2>2 DEF ProcessPassed, ControlInv
<1>13. CASE NothingPassed
  BY <1>0, <1>1, <1>13 DEF NothingPassed, Pool, ControlInv
<1>14. CASE PrefetchGate
  <2>1. PICK o \in GateOutcomes(pool.nextStart, pool.nextBatch) :
          /\ pool' = [o.pool EXCEPT !.prefetched = TRUE, !.pendingNext = FALSE]
          /\ asked' = o.asked
    BY <1>14 DEF PrefetchGate
  <2>2. pool.nextStart \in Nat /\ pool.nextBatch \in 0..MostLaunched
    BY PoolTypes
  <2>3. o.pool \in Pool
    BY <2>1, <2>2, GateTypes
  <2>9. /\ asked'.job = call.job /\ asked'.start = pool.nextStart
        /\ asked'.size = pool.nextBatch
    BY <2>1, <2>2, GateKeeps
  <2>4. pool'.prefetched /\ ~pool'.pendingNext
    BY <2>1, <2>3 DEF Pool
  <2>5. /\ NextBatch > 0 /\ pool.nextStart = cur + Batch /\ pool.nextBatch = NextBatch
    BY <1>14 DEF PrefetchGate, PrefetchInv, ControlInv
  <2>6. cur' = cur + Batch /\ rem' = rem - Batch /\ call' = call /\ pc' = "loop"
    BY <1>14 DEF PrefetchGate, Launched
  <2>7. rem - Batch > 0
    BY <2>5, Batches
  <2>8. NextBatch = Smaller(rem', call'.launch)
    BY <2>6 DEF NextBatch
  <2> QED
    BY <2>4, <2>5, <2>6, <2>7, <2>8, <2>9 DEF PrefetchInv, Batch
<1>15. CASE NoPrefetch
  BY <1>15 DEF NoPrefetch, Launched, PrefetchInv, ControlInv
<1>16. CASE LaunchFails
  BY <1>0, <1>16 DEF LaunchFails, Pool, PrefetchInv
<1>17. CASE PoolAllocFails
  BY <1>17 DEF PoolAllocFails, PrefetchInv, EmptyPool
<1>18. CASE BatchedAllocFails
  BY <1>1, <1>18 DEF BatchedAllocFails
<1>19. CASE Device
  BY <1>1, <1>19, DeviceKeeps
<1>20. CASE UNCHANGED vars
  BY <1>1, <1>20 DEF vars
<1> QED
  BY <1>2, <1>4, <1>5, <1>6, <1>7, <1>8, <1>9, <1>10, <1>11, <1>12, <1>13,
     <1>14, <1>15, <1>16, <1>17, <1>18, <1>19, <1>20 DEF Next, Host

LEMMA PrefetchInvariance == Spec => [](TypeOK /\ ControlInv /\ PrefetchInv)
<1>1. Init => PrefetchInv
  BY DEF Init, PrefetchInv, EmptyPool
<1> QED
  BY <1>1, ControlInvariance, NextPrefetch, PTL DEF Spec

\* A gate that was run ahead is used for the batch it was run for, and for no
\* other, whatever call broke off before.
THEOREM PrefetchIsUsedRight == Spec => []PrefetchIsForThisBatch
<1>1. TypeOK /\ ControlInv /\ PrefetchInv => PrefetchIsForThisBatch
  BY DEF PrefetchInv, PrefetchIsForThisBatch
<1> QED
  BY <1>1, PrefetchInvariance, PTL

-----------------------------------------------------------------------------
(* What is reported *)

LEMMA AppendToChain ==
    ASSUME NEW seq \in Seq(Report), NEW start \in Nat, Chained(seq, start),
           NEW r \in Report, r.start = ReportedEnd(seq, start)
    PROVE  /\ Chained(Append(seq, r), start)
           /\ ReportedEnd(Append(seq, r), start) = r.start + r.size
<1> DEFINE longer == Append(seq, r)
<1>1. /\ Len(longer) = Len(seq) + 1 /\ Len(seq) \in Nat /\ longer # <<>>
      /\ longer[Len(seq) + 1] = r /\ \A k \in 1..Len(seq) : longer[k] = seq[k]
  OBVIOUS
<1> HIDE DEF longer
<1>2. ReportedEnd(longer, start) = r.start + r.size
  BY <1>1 DEF ReportedEnd
<1>3. ASSUME NEW k \in 1..Len(longer)
      PROVE  longer[k].start = IF k = 1 THEN start
                               ELSE longer[k - 1].start + longer[k - 1].size
  <2>1. CASE k \in 1..Len(seq)
    <3>1. longer[k] = seq[k] /\ (k # 1 => longer[k - 1] = seq[k - 1])
      BY <1>1, <2>1
    <3> QED
      BY <2>1, <3>1 DEF Chained
  <2>2. CASE k = Len(seq) + 1
    <3>1. CASE seq = <<>>
      BY <1>1, <2>2, <3>1 DEF ReportedEnd
    <3>2. CASE seq # <<>>
      <4>1. Len(seq) \in 1..Len(seq) /\ k - 1 = Len(seq) /\ k # 1
        BY <1>1, <2>2, <3>2
      <4> QED
        BY <1>1, <2>2, <3>2, <4>1 DEF ReportedEnd
    <3> QED
      BY <3>1, <3>2
  <2> QED
    BY <1>1, <2>1, <2>2
<1> QED
  BY <1>2, <1>3 DEF Chained, longer

LEMMA NextReport ==
    TypeOK /\ ControlInv /\ ReportInv /\ [Next]_vars => ReportInv'
<1> SUFFICES ASSUME TypeOK, ControlInv, ReportInv, [Next]_vars PROVE ReportInv'
  OBVIOUS
<1> USE DEF hostVars, devVars
<1>0. /\ own \in History /\ pending \in [on : BOOLEAN, start : Nat, size : Nat]
      /\ reported \in Seq(Report) /\ call.start \in Nat
      /\ cur \in Nat /\ Batch \in Nat
  BY FieldTypes, Batches, Sizes DEF TypeOK
\* Steps that launch and report nothing.
<1>1. ASSUME UNCHANGED <<call, cur, pending, reported>>,
             own'.lost \/ ~own.lost,
             pc' \in {"finalize", "idle"} =>
                 \/ ~pending.on
                 \/ own'.lost
                 \/ pc \in {"finalize", "idle"}
      PROVE  ReportInv'
  BY <1>1 DEF ReportInv
<1>2. CASE StartSolve
  <2>1. /\ ~pending'.on /\ reported' = <<>> /\ cur' = call'.start /\ pc' = "loop"
    BY <1>0, <1>2 DEF StartSolve
  <2> QED
    BY <2>1 DEF ReportInv, Chained, ReportedEnd
<1>3. ASSUME Collect, UNCHANGED <<call, cur>> PROVE ReportInv'
  <2> DEFINE r == [start |-> pending.start, size |-> pending.size, hits |-> found',
                   ran |-> own.ran, last |-> own.exact /\ asked.start = pending.start]
  <2>1. reported' = Append(reported, r) /\ ~pending'.on /\ pending.on
    BY <1>0, <1>3 DEF Collect
  <2>2. r \in Report
    <3>1. found' \subseteq HitOf /\ own.ran \in BOOLEAN
      BY <1>3, CollectTypes, FieldTypes
    <3>2. \A s, z \in Nat, h \in SUBSET HitOf, b, c \in BOOLEAN :
             [start |-> s, size |-> z, hits |-> h, ran |-> b, last |-> c] \in Report
      BY DEF Report
    <3>3. (own.exact /\ asked.start = pending.start) \in BOOLEAN
      OBVIOUS
    <3> QED
      BY <1>0, <3>1, <3>2, <3>3
  <2>3. r.start = pending.start /\ r.size = pending.size
    OBVIOUS
  <2> HIDE DEF r
  <2>4. /\ Chained(reported', call.start)
        /\ ReportedEnd(reported', call.start) = pending.start + pending.size
    BY <1>0, <2>1, <2>2, <2>3, AppendToChain DEF ReportInv
  <2> QED
    BY <1>3, <2>1, <2>4 DEF ReportInv
<1>4. CASE LoopCollect
  <2>1. CASE CollectFails
    BY <1>0, <1>1, <1>4, <2>1 DEF LoopCollect, CollectFails, History
  <2>2. CASE UNCHANGED <<pool, found, reported, pending, own>> /\ pc' = "issue"
    BY <1>1, <1>4, <2>2 DEF LoopCollect
  <2> QED
    BY <1>3, <1>4, <2>1, <2>2 DEF LoopCollect
<1>5. CASE TailCollect
  <2>1. CASE CollectFails
    BY <1>0, <1>1, <1>5, <2>1 DEF TailCollect, CollectFails, History
  <2>2. CASE ~pending.on /\ UNCHANGED <<pool, found, reported, pending, own>>
    BY <1>1, <1>5, <2>2 DEF TailCollect
  <2> QED
    BY <1>3, <1>5, <2>1, <2>2 DEF TailCollect
<1>6. CASE LoopEnds
  BY <1>1, <1>6 DEF LoopEnds
<1>7. CASE Finalize
  <2>1. own' = own \/ own' = [own EXCEPT !.orphan = @ \/ stream # <<>>, !.errors = @ + 1]
    BY <1>7 DEF Finalize
  <2>2. own'.lost <=> own.lost
    BY <1>0, <2>1, Zenon DEF History
  <2> QED
    BY <1>1, <1>7, <2>2 DEF Finalize
<1>8. CASE Issue
  BY <1>0, <1>1, <1>8 DEF Issue, History
\* The steps at the end of which a batch is on its way.
<1>9. ASSUME Launched, UNCHANGED <<call, reported>>, pc \in Launching PROVE ReportInv'
  <2>1. ~pending.on /\ cur = ReportedEnd(reported, call.start)
    BY <1>9 DEF ControlInv, ReportInv
  <2>2. /\ pending'.on /\ pending'.start = cur /\ pending'.size = Batch
        /\ cur' = cur + Batch /\ pc' = "loop"
    BY <1>9 DEF Launched
  <2> QED
    BY <1>9, <2>1, <2>2 DEF ReportInv
<1>10. CASE LaunchLegacy
  BY <1>9, <1>10 DEF LaunchLegacy, Launching
<1>11. CASE UsePrefetchedGate
  BY <1>0, <1>1, <1>11 DEF UsePrefetchedGate, History
<1>12. CASE LaunchGate
  <2>1. own'.lost <=> own.lost
    BY <1>0, <1>12, Zenon DEF LaunchGate, History
  <2> QED
    BY <1>1, <1>12, <2>1 DEF LaunchGate
<1>13. CASE ProcessPassed
  <2>1. PICK runs \in BOOLEAN, recorded \in BOOLEAN :
          own' = [own EXCEPT !.ran = runs,
                             !.orphan = @ \/ (runs /\ ~recorded),
                             !.errors = IF recorded THEN @ ELSE @ + 1]
    BY <1>13 DEF ProcessPassed
  <2>2. own'.lost <=> own.lost
    BY <1>0, <2>1, Zenon DEF History
  <2>3. pc' \in {"prefetch", "tail"}
    BY <1>13 DEF ProcessPassed
  <2> QED
    BY <1>1, <1>13, <2>2, <2>3 DEF ProcessPassed
<1>14. CASE NothingPassed
  BY <1>1, <1>14 DEF NothingPassed
<1>15. CASE PrefetchGate
  BY <1>9, <1>15 DEF PrefetchGate, Launching
<1>16. CASE NoPrefetch
  BY <1>9, <1>16 DEF NoPrefetch, Launching
<1>17. CASE LaunchFails
  BY <1>0, <1>1, <1>17 DEF LaunchFails, Failed, History
<1>18. CASE PoolAllocFails
  BY <1>0, <1>1, <1>18 DEF PoolAllocFails, Failed, History
<1>19. CASE BatchedAllocFails
  BY <1>0, <1>1, <1>19 DEF BatchedAllocFails, Failed, History
<1>20. CASE Device
  BY <1>1, <1>20, DeviceKeeps
<1>21. CASE UNCHANGED vars
  BY <1>1, <1>21 DEF vars
<1> QED
  BY <1>2, <1>4, <1>5, <1>6, <1>7, <1>8, <1>10, <1>11, <1>12, <1>13, <1>14,
     <1>15, <1>16, <1>17, <1>18, <1>19, <1>20, <1>21 DEF Next, Host

LEMMA ReportInvariance == Spec => [](TypeOK /\ ControlInv /\ ReportInv)
<1>1. Init => ReportInv
  BY DEF Init, ReportInv, Chained, ReportedEnd
<1> QED
  BY <1>1, ControlInvariance, NextReport, PTL DEF Spec

\* The batches of a call are reported in order, without a gap or a repetition,
\* and all of them unless a collect failed.
THEOREM BatchesAreReportedOnce == Spec => []EveryBatchReportedOnce
<1>1. TypeOK /\ ControlInv /\ ReportInv => EveryBatchReportedOnce
  BY DEF ReportInv, Chained, ReportedEnd, EveryBatchReportedOnce, Last
<1> QED
  BY <1>1, ReportInvariance, PTL

-----------------------------------------------------------------------------
(* Whose results are reported *)

\* The kernels of the stream go on reading and writing; what the last of them
\* is for stays.
LEMMA DeviceWorksOn ==
    ASSUME TypeOK, Device, ~own'.strayed,
           NEW passed \in 0..MostSlots, passed <= batched.cap, NEW start,
           WorksOn(stream, results, passed, start)
    PROVE  WorksOn(stream', results', passed, start)
<1>1. /\ stream \in Seq(Kernels) /\ stream # <<>>
      /\ Len(stream) \in Nat \ {0} /\ Head(stream) = stream[1]
      /\ Len(Tail(stream)) = Len(stream) - 1
      /\ \A k \in 1..(Len(stream) - 1) : Tail(stream)[k] = stream[k + 1]
  BY DeviceKeeps DEF TypeOK
<1>2. stream[Len(stream)].by = start /\ stream[Len(stream)].active = passed
  BY <1>1 DEF WorksOn
<1>3. CASE ReadSeeds
  <2>1. PICK op \in Kernels :
          /\ op.by = Head(stream).by /\ op.active = Head(stream).active
          /\ stream' = <<op>> \o Tail(stream)
    BY <1>3, QuietDevice
  <2>2. Tail(stream) \in Seq(Kernels)
    BY <1>1
  <2>4. /\ Len(stream') = Len(stream) /\ stream' # <<>> /\ stream'[1] = op
        /\ \A k \in 2..Len(stream) : stream'[k] = Tail(stream)[k - 1]
    BY <1>1, <2>1, <2>2
  <2>5. /\ stream'[Len(stream)].by = stream[Len(stream)].by
        /\ stream'[Len(stream)].active = stream[Len(stream)].active
    <3>1. CASE Len(stream) = 1
      BY <1>1, <2>1, <2>4, <3>1
    <3>2. CASE Len(stream) # 1
      <4>1. Len(stream) \in 2..Len(stream) /\ Len(stream) - 1 \in 1..(Len(stream) - 1)
        BY <1>1, <3>2
      <4>2. stream'[Len(stream)] = Tail(stream)[Len(stream) - 1]
        BY <2>4, <4>1
      <4>3. Tail(stream)[Len(stream) - 1] = stream[(Len(stream) - 1) + 1]
        BY <1>1, <4>1
      <4>4. (Len(stream) - 1) + 1 = Len(stream)
        BY <1>1
      <4> QED
        BY <4>2, <4>3, <4>4
    <3> QED
      BY <3>1, <3>2
  <2> QED
    BY <1>2, <2>4, <2>5 DEF WorksOn
<1>4. CASE WriteResults
  <2>1. stream' = Tail(stream)
    BY <1>4 DEF WriteResults
  <2>2. CASE Len(stream) = 1
    <3>1. stream' = <<>>
      BY <1>1, <2>1, <2>2
    <3>2. ASSUME NEW i \in 1..passed PROVE results'[i].by = start
      <4>1. i \in Slots /\ i <= batched.cap
        BY Sizes, FieldTypes DEF Slots
      <4>2. Head(stream).by = start
        BY <1>1, <1>2, <2>2
      <4> QED
        BY <1>4, <4>1, <4>2, QuietDevice
    <3> QED
      BY <3>1, <3>2 DEF WorksOn
  <2>3. CASE Len(stream) # 1
    <3>1. stream' # <<>> /\ Len(stream') = Len(stream) - 1
      <4>1. Len(stream') = Len(stream) - 1 /\ Len(stream) - 1 # 0
        BY <1>1, <2>1, <2>3
      <4>2. stream' = <<>> => Len(stream') = 0
        OBVIOUS
      <4> QED
        BY <4>1, <4>2
    <3>2. Len(stream) - 1 \in 1..(Len(stream) - 1) /\ (Len(stream) - 1) + 1 = Len(stream)
      BY <1>1, <2>3
    <3>3. stream'[Len(stream) - 1] = stream[Len(stream)]
      BY <1>1, <2>1, <3>2
    <3> QED
      BY <1>2, <3>1, <3>3 DEF WorksOn
  <2> QED
    BY <2>2, <2>3
<1> QED
  BY <1>3, <1>4 DEF Device

LEMMA NextResults ==
    TypeOK /\ ControlInv /\ ResultsInv /\ [Next]_vars => ResultsInv'
<1> SUFFICES ASSUME TypeOK, ControlInv, ResultsInv, [Next]_vars PROVE ResultsInv'
  OBVIOUS
<1> USE DEF hostVars, devVars
<1>0. /\ own \in History /\ pool \in Pool /\ (own.strayed => own'.strayed)
      /\ pending \in [on : BOOLEAN, start : Nat, size : Nat]
  BY NextDisturbance DEF TypeOK
\* Steps after which no batch is under way.
<1>1. ASSUME pc' \in {"loop", "tail"} => ~pending'.on,
             pc' \notin {"gate", "legacy", "process", "prefetch"}
      PROVE  ResultsInv'
  BY <1>1 DEF ResultsInv, UnderWay
<1>2. CASE StartSolve
  BY <1>0, <1>1, <1>2 DEF StartSolve
<1>3. ASSUME Collect, pc' \in {"issue", "finalize"} PROVE ResultsInv'
  BY <1>0, <1>1, <1>3 DEF Collect
<1>4. ASSUME CollectFails, pc \in {"loop", "tail"}, pc' \in {"tail", "finalize"},
             UNCHANGED <<call, cur, rem, solves, batched, devVars, asked>>
      PROVE  ResultsInv'
  <2>1. own'.ran <=> own.ran
    BY <1>0, <1>4 DEF CollectFails, History
  <2>2. pending.on /\ UNCHANGED pending
    BY <1>4 DEF CollectFails
  <2>3. CASE pool' = pool /\ found' = found
    BY <1>0, <1>4, <2>1, <2>2, <2>3 DEF ResultsInv, UnderWay, ThisBatch
  <2>4. CASE ~pool'.inFlight /\ found' = {}
    BY <1>4, <2>4 DEF ResultsInv
  <2> QED
    BY <1>0, <1>4, <2>3, <2>4 DEF CollectFails, Pool
<1>5. CASE LoopCollect
  BY <1>1, <1>3, <1>4, <1>5 DEF LoopCollect
<1>6. CASE TailCollect
  BY <1>1, <1>3, <1>4, <1>6 DEF TailCollect
<1>7. CASE LoopEnds
  BY <1>7 DEF LoopEnds, ResultsInv, UnderWay, ThisBatch
<1>8. CASE Finalize
  BY <1>1, <1>8 DEF Finalize
<1>9. CASE Issue
  <2>1. ~own'.ran
    BY <1>0, <1>9 DEF Issue, History
  <2> QED
    BY <1>9, <2>1 DEF Issue, ResultsInv, UnderWay
<1>10. CASE LaunchLegacy
  <2>1. ~pool'.inFlight /\ pending'.on /\ pending'.start = cur
    BY <1>10 DEF LaunchLegacy, Launched, ControlInv
  <2>2. \A h \in found' : h.by = cur
    BY <1>10 DEF LaunchLegacy
  <2> QED
    BY <1>10, <2>1, <2>2 DEF LaunchLegacy, Launched, ResultsInv, ThisBatch
<1>11. ASSUME pc = "gate", pc' = "process", own'.ran <=> own.ran PROVE ResultsInv'
  BY <1>11 DEF ResultsInv
<1>12. CASE UsePrefetchedGate
  BY <1>0, <1>11, <1>12 DEF UsePrefetchedGate, History
<1>13. CASE LaunchGate
  <2>1. own'.ran <=> own.ran
    BY <1>0, <1>13, Zenon DEF LaunchGate, History
  <2> QED
    BY <1>11, <1>13, <2>1 DEF LaunchGate
<1>14. CASE ProcessPassed
  <2>1. PICK captured \in BOOLEAN, recorded \in BOOLEAN :
          LET runs == HasGraph \/ ~captured
          IN  /\ stream' = IF runs
                           THEN Append(stream, [by |-> cur, active |-> pool.lastPassed,
                                    live |-> (HasGraph => batched.graph = pool.gen),
                                    read |-> FALSE, seeds |-> gateBuf])
                           ELSE stream
              /\ own' = [own EXCEPT !.ran = runs,
                                    !.orphan = @ \/ (runs /\ ~recorded),
                                    !.errors = IF recorded THEN @ ELSE @ + 1]
              /\ pool' = [pool EXCEPT !.inFlight = IF recorded THEN TRUE ELSE @]
              /\ pc' = IF recorded THEN "prefetch" ELSE "tail"
              /\ batched' = [cap |-> IF Grows THEN BucketBatchSize(pool.lastPassed)
                                              ELSE batched.cap,
                             room |-> IF Grows THEN pool.lastPassed ELSE batched.room,
                             target |-> Target[call.job],
                             graph |-> IF HasGraph THEN batched.graph
                                       ELSE IF captured THEN pool.gen ELSE 0]
    BY <1>14, ZenonT(60) DEF ProcessPassed
  <2>2. ~pending.on /\ pending' = pending /\ cur' = cur
    BY <1>14 DEF ProcessPassed, ControlInv, Launching
  <2>3. CASE ~recorded
    BY <1>1, <2>1, <2>2, <2>3
  <2>4. CASE recorded
    <3> DEFINE runs == HasGraph \/ ~captured
               op == [by |-> cur, active |-> pool.lastPassed,
                      live |-> (HasGraph => batched.graph = pool.gen),
                      read |-> FALSE, seeds |-> gateBuf]
    <3>1. pc' = "prefetch" /\ pool'.inFlight /\ pool'.lastPassed = pool.lastPassed
      BY <1>0, <2>1, <2>4 DEF Pool
    <3>2. own'.ran <=> runs
      BY <1>0, <2>1, Zenon DEF History
    <3>3. op.by = cur /\ op.active = pool.lastPassed
      OBVIOUS
    <3>4. runs => stream' = Append(stream, op)
      BY <2>1
    <3> HIDE DEF runs, op
    <3>5. stream \in Seq(Kernels)
      BY DEF TypeOK
    <3>6. runs => stream' # <<>> /\ stream'[Len(stream')] = op
      BY <3>4, <3>5
    <3>7. pool'.lastPassed <= batched'.cap
      <4>1. pool.lastPassed \in Nat /\ batched.cap \in Nat
        BY PoolTypes, FieldTypes, Sizes
      <4>2. batched'.cap = IF Grows THEN BucketBatchSize(pool.lastPassed) ELSE batched.cap
        BY <2>1
      <4> QED
        BY <3>1, <4>1, <4>2, BucketHolds DEF Grows
    <3> QED
      BY <2>2, <3>1, <3>2, <3>3, <3>6, <3>7 DEF ResultsInv, WorksOn, ThisBatch
  <2> QED
    BY <2>3, <2>4
<1>15. CASE NothingPassed
  BY <1>15 DEF NothingPassed, ResultsInv
<1>16. ASSUME Launched, pc = "prefetch", UNCHANGED <<batched, found>>,
              own'.ran <=> own.ran, ~own'.strayed => UNCHANGED <<results, stream>>,
              pool'.inFlight <=> pool.inFlight, pool'.lastPassed = pool.lastPassed
       PROVE  ResultsInv'
  <2>1. ~pending.on /\ pending'.on /\ pending'.start = cur /\ pc' = "loop"
    BY <1>16 DEF Launched, ControlInv, Launching
  <2> QED
    BY <1>0, <1>16, <2>1 DEF ResultsInv, UnderWay, ThisBatch
<1>17. CASE PrefetchGate
  <2>1. PICK o \in GateOutcomes(pool.nextStart, pool.nextBatch) :
          /\ pool' = [o.pool EXCEPT !.prefetched = TRUE, !.pendingNext = FALSE]
          /\ results' = ResultsAfter(results, o.damage)
          /\ stream' = StreamAfter(stream, o.damage)
          /\ own' = [own EXCEPT !.strayed = @ \/ o.strayed]
    BY <1>17 DEF PrefetchGate
  <2>2. pool.nextStart \in Nat /\ pool.nextBatch \in 0..MostLaunched
    BY PoolTypes
  <2>3. o.pool \in Pool
    BY <2>1, <2>2, GateTypes
  <2>4. (o.pool.inFlight <=> pool.inFlight) /\ o.pool.lastPassed = pool.lastPassed
    BY <2>1, <2>2, GateKeeps
  <2>5. (pool'.inFlight <=> pool.inFlight) /\ pool'.lastPassed = pool.lastPassed
    BY <2>1, <2>3, <2>4 DEF Pool
  <2>6. (own'.ran <=> own.ran) /\ (o.strayed => own'.strayed)
    BY <1>0, <2>1, Zenon DEF History
  <2>7. ~o.strayed => UNCHANGED <<results, stream>>
    BY <2>1, <2>2, GateKeeps, Damage
  <2> QED
    BY <1>16, <1>17, <2>5, <2>6, <2>7 DEF PrefetchGate
<1>18. CASE NoPrefetch
  BY <1>16, <1>18 DEF NoPrefetch
<1>19. CASE LaunchFails
  BY <1>1, <1>19 DEF LaunchFails, ControlInv, Launching
<1>20. CASE PoolAllocFails
  BY <1>1, <1>20 DEF PoolAllocFails, ControlInv, Launching
<1>21. CASE BatchedAllocFails
  BY <1>1, <1>21 DEF BatchedAllocFails, ControlInv, Launching
<1>22. CASE Device
  <2>1. /\ UNCHANGED <<pc, call, cur, pending, found, batched>>
        /\ pool'.lastPassed = pool.lastPassed /\ (pool'.inFlight <=> pool.inFlight)
        /\ own'.ran <=> own.ran
    BY <1>22, DeviceKeeps
  <2>2. pool.lastPassed \in 0..MostSlots
    BY PoolTypes
  <2>3. ASSUME ~own'.strayed, pool.lastPassed <= batched.cap,
               WorksOn(stream, results, pool.lastPassed, ThisBatch)
        PROVE  WorksOn(stream', results', pool.lastPassed, ThisBatch)
    BY <1>22, <2>2, <2>3, DeviceWorksOn
  <2> QED
    BY <1>0, <2>1, <2>3 DEF ResultsInv, UnderWay, ThisBatch
<1>23. CASE UNCHANGED vars
  BY <1>23 DEF vars, ResultsInv, UnderWay, ThisBatch
<1> QED
  BY <1>2, <1>5, <1>6, <1>7, <1>8, <1>9, <1>10, <1>12, <1>13, <1>14, <1>15, <1>17,
     <1>18, <1>19, <1>20, <1>21, <1>22, <1>23 DEF Next, Host


LEMMA ResultsInvariance == Spec => [](TypeOK /\ ControlInv /\ ResultsInv)
<1>1. Init => ResultsInv
  BY DEF Init, ResultsInv, UnderWay
<1> QED
  BY <1>1, ControlInvariance, NextResults, PTL DEF Spec

\* Only a collect adds a report, only a new call takes them away.
LEMMA OnlyCollectReports ==
    ASSUME [Next]_vars, ~LoopCollect, ~TailCollect
    PROVE  reported' = <<>> \/ (reported' = reported /\ call' = call)
<1>1. CASE StartSolve
  BY <1>1 DEF StartSolve
<1>2. CASE UNCHANGED hostVars
  BY <1>2 DEF hostVars
<1>3. CASE Issue \/ LaunchLegacy \/ PrefetchGate \/ NoPrefetch
  BY <1>3 DEF Issue, LaunchLegacy, PrefetchGate, NoPrefetch
<1>4. CASE LoopEnds \/ Finalize \/ UsePrefetchedGate \/ LaunchGate
  BY <1>2, <1>4 DEF LoopEnds, Finalize, UsePrefetchedGate, LaunchGate
<1>5. CASE ProcessPassed
  BY <1>2, <1>5 DEF ProcessPassed
<1>6. CASE NothingPassed \/ LaunchFails \/ PoolAllocFails \/ BatchedAllocFails
  BY <1>2, <1>6 DEF NothingPassed, LaunchFails, PoolAllocFails, BatchedAllocFails
<1>7. CASE ReadSeeds \/ WriteResults \/ UNCHANGED vars
  BY <1>2, <1>7 DEF ReadSeeds, WriteResults, vars
<1> QED
  BY <1>1, <1>3, <1>4, <1>5, <1>6, <1>7 DEF Next, Host, Device

LEMMA NextOwnResults ==
    /\ TypeOK /\ ControlInv /\ ResultsInv
    /\ ReportsItsOwnResults /\ [Next]_vars
    => ReportsItsOwnResults'
<1> SUFFICES ASSUME TypeOK, ControlInv, ResultsInv, ReportsItsOwnResults, [Next]_vars
             PROVE  ReportsItsOwnResults'
  OBVIOUS
<1>0. own.strayed => own'.strayed
  BY NextDisturbance
<1>1. CASE reported' = reported \/ reported' = <<>>
  BY <1>0, <1>1 DEF ReportsItsOwnResults
<1>2. ASSUME Collect, pc \in {"loop", "tail"} PROVE ReportsItsOwnResults'
  <2> DEFINE report == [start |-> pending.start, size |-> pending.size, hits |-> found',
                        ran |-> own.ran, last |-> own.exact /\ asked.start = pending.start]
  <2>1. reported' = Append(reported, report)
    BY <1>2 DEF Collect
  <2>2. UnderWay /\ ThisBatch = pending.start
    BY <1>2 DEF Collect, UnderWay, ThisBatch
  <2>3. ASSUME own.ran, ~own.strayed PROVE \A h \in found' : h.by = pending.start
    <3>1. CASE ~pool.inFlight
      BY <1>2, <2>2, <2>3, <3>1 DEF Collect, ResultsInv
    <3>2. CASE pool.inFlight
      BY <1>2, <2>2, <2>3, <3>2 DEF Collect, ResultsInv, WorksOn, Hit
    <3> QED
      BY <3>1, <3>2
  <2>4. report.ran /\ ~own.strayed => \A h \in report.hits : h.by = report.start
    BY <2>3
  <2> HIDE DEF report
  <2>5. reported \in Seq(Report)
    BY DEF TypeOK
  <2>6. ASSUME NEW k \in 1..Len(reported')
        PROVE  \/ k = Len(reported) + 1 /\ reported'[k] = report
               \/ k \in 1..Len(reported) /\ reported'[k] = reported[k]
    <3>1. Len(reported) \in Nat /\ Len(reported') = Len(reported) + 1
      BY <2>1, <2>5
    <3>2. CASE k = Len(reported) + 1
      BY <2>1, <2>5, <3>2
    <3>3. CASE k # Len(reported) + 1
      <4>1. k \in 1..Len(reported)
        BY <2>6, <3>1, <3>3
      <4> QED
        BY <2>1, <2>5, <4>1
    <3> QED
      BY <3>2, <3>3
  <2> QED
    BY <1>0, <2>4, <2>6 DEF ReportsItsOwnResults
<1>3. CASE LoopCollect
  BY <1>1, <1>2, <1>3 DEF LoopCollect, CollectFails
<1>4. CASE TailCollect
  BY <1>1, <1>2, <1>4 DEF TailCollect, CollectFails
<1>5. CASE ~LoopCollect /\ ~TailCollect
  BY <1>1, <1>5, OnlyCollectReports
<1> QED
  BY <1>3, <1>4, <1>5

\* A batch whose kernels ran is reported with the results they wrote, as long
\* as no kernel strayed: what an earlier batch left in d_results is never taken
\* for them.
THEOREM ReportsAreOfTheirBatch == Spec => []ReportsItsOwnResults
<1>1. Init => ReportsItsOwnResults
  BY DEF Init, ReportsItsOwnResults
<1> QED
  BY <1>1, ResultsInvariance, NextOwnResults, PTL DEF Spec


-----------------------------------------------------------------------------
(* The pool between its allocations *)

\* As long as nothing failed and the pool was allocated once, the midstates are
\* those of the job and the graph writes into the buffers of the pool: a gate
\* that scanned the range it was asked for leaves the tag of this range.
LEMMA CleanGate ==
    ASSUME TypeOK, PoolInv, Undisturbed, pool.gen > 0, call.job \in Jobs,
           NEW start \in Nat, NEW batch \in 1..MostLaunched,
           NEW o \in GateOutcomes(start, batch), ~o.strayed
    PROVE  /\ o.pool.midstate = Key[call.job]
           /\ o.pool.graph.bucket # 0 =>
                 o.pool.graph.gen = pool.gen /\ Key[o.pool.graph.job] = Key[call.job]
           /\ KeyIsUnique /\ o.asked.exact =>
                 \A i \in 1..o.pool.gateCount : o.buf[i] = JobTag(start)
<1>1. MostLaunched \in Nat /\ batch \in 0..MostLaunched
  BY Sizes
<1>2. PICK run \in GateRuns(start, batch), passed \in 0..MostSlots,
           damage \in SUBSET {"slots", "midstates", "work"} :
           GateLeaves(o, start, batch, run, passed, damage)
  BY <1>1, GateOutcome
<1>3. BucketBatchSize(batch) # 0
  BY <1>1, Sizes
<1>4. pool.graph.bucket # 0 => pool.graph.gen = pool.gen /\ Key[pool.graph.job] = pool.key
  BY DEF PoolInv
<1>5. pool \in Pool /\ Midstate = Key[call.job] /\ Midstate \in Keys
  BY FieldTypes DEF Midstate, PoolInv, JobChanged, TypeOK
<1>6. /\ o.pool = Gated(run, passed) /\ o.buf = Filled(run, passed)
      /\ o.asked = [job |-> call.job, start |-> start, size |-> batch,
                    exact |-> ScansItsRange(run, start, batch)]
  <2>1. damage = {}
    BY <1>2 DEF GateLeaves
  <2>2. PoolAfter(Gated(run, passed), damage) = Gated(run, passed)
    BY <2>1 DEF PoolAfter
  <2>3. SlotsAfter(Filled(run, passed), damage) = Filled(run, passed)
    BY <2>1 DEF SlotsAfter
  <2> QED
    BY <1>2, <2>2, <2>3, Zenon DEF GateLeaves
<1>7. run.live /\ Key[run.job] = Key[call.job] /\ run.job \in Jobs
  <2>1. CASE run.job = call.job /\ run.live
    BY <2>1
  <2>2. CASE /\ run.graph = pool.graph /\ run.job = pool.graph.job /\ ~JobChanged
             /\ run.live <=> pool.graph.gen = pool.gen
             /\ pool.graph.bucket = BucketBatchSize(batch)
    <3>1. run.live /\ Key[run.job] = Key[call.job]
      BY <1>3, <1>4, <2>2 DEF JobChanged
    <3>2. run.job # NoJob
      BY <3>1, PipelineAssumption
    <3> QED
      BY <1>1, <3>1, <3>2, GateRun
  <2> QED
    BY <1>1, <2>1, <2>2, GateRun
<1>8. run.graph.bucket # 0 => run.graph.gen = pool.gen /\ Key[run.graph.job] = Key[call.job]
  BY <1>1, <1>4, GateRun DEF JobChanged, NoGraph
<1>9. o.pool.midstate = Midstate /\ o.pool.graph = run.graph /\ o.pool.gateCount = passed
  <2>1. run.graph \in [bucket : Nat, gen : Nat, job : Jobs \cup {NoJob}]
    BY <1>1, GateRun
  <2> QED
    BY <1>5, <1>6, <2>1, FieldTypes DEF Gated, Pool
<1>10. o.asked.exact => run.first = start
  <2> DEFINE exact == ScansItsRange(run, start, batch)
  <2>1. o.asked = [job |-> call.job, start |-> start, size |-> batch, exact |-> exact]
    BY <1>6
  <2>2. exact \in BOOLEAN /\ (exact => run.first = start)
    BY DEF ScansItsRange
  <2> HIDE DEF exact
  <2> QED
    BY <2>1, <2>2
<1>11. ASSUME KeyIsUnique, run.first = start, NEW i \in 1..passed
       PROVE  o.buf[i] = JobTag(start)
  <2>1. run.job = call.job
    BY <1>7, <1>11 DEF KeyIsUnique
  <2>2. Filled(run, passed) = [k \in Slots |-> IF k <= passed THEN JobTag(start) ELSE gateBuf[k]]
    BY <1>5, <1>7, <1>11, <2>1 DEF Filled, JobTag
  <2>3. i \in Slots /\ i <= passed
    BY Sizes DEF Slots
  <2> QED
    BY <1>6, <2>2, <2>3
<1> QED
  BY <1>5, <1>8, <1>9, <1>10, <1>11

LEMMA NextPool ==
    TypeOK /\ ControlInv /\ PrefetchInv /\ PoolInv /\ [Next]_vars => PoolInv'
<1> SUFFICES ASSUME TypeOK, ControlInv, PrefetchInv, PoolInv, [Next]_vars PROVE PoolInv'
  OBVIOUS
<1> USE DEF hostVars, devVars
<1>0. /\ pool \in Pool /\ own \in History /\ MaxErrors \in Nat
      /\ rem \in Nat /\ pool.gen \in Nat /\ pool.cap \in Nat
      /\ Undisturbed' => Undisturbed
  BY NextDisturbance, PoolTypes, PipelineAssumption DEF TypeOK
<1> DEFINE Used == pc \in {"gate", "process", "prefetch"} \/ pool.prefetched \/ pool.inFlight
\* Steps that allocate nothing and run no gate, and steps that fail.
<1>1. ASSUME pool'.cap = pool.cap, pool'.gen = pool.gen, pool'.key = pool.key,
             pool'.midstate = pool.midstate, pool'.graph = pool.graph,
             UNCHANGED batched, Used' => Used
      PROVE  PoolInv'
  BY <1>0, <1>1 DEF PoolInv
<1>2. ASSUME own'.errors > 0, pool'.cap = pool.cap, pool'.gen = pool.gen, Used' => Used
      PROVE  PoolInv'
  BY <1>0, <1>2 DEF PoolInv, Undisturbed
<1>3. Failed => own'.errors > 0
  BY <1>0 DEF Failed, History
<1>4. CASE StartSolve
  BY <1>0, <1>1, <1>4 DEF StartSolve, History
<1>5. ASSUME Collect, pc' \notin {"gate", "process", "prefetch"}, UNCHANGED batched
      PROVE  PoolInv'
  BY <1>0, <1>1, <1>5 DEF Collect, Pool
<1>6. ASSUME CollectFails, pc' \notin {"gate", "process", "prefetch"}
      PROVE  PoolInv'
  BY <1>0, <1>2, <1>6 DEF CollectFails, Pool, History
<1>7. CASE LoopCollect
  BY <1>1, <1>5, <1>6, <1>7 DEF LoopCollect
<1>8. CASE TailCollect
  BY <1>1, <1>5, <1>6, <1>8 DEF TailCollect
<1>9. CASE LoopEnds \/ Finalize \/ UsePrefetchedGate \/ NothingPassed
  BY <1>0, <1>1, <1>9 DEF LoopEnds, Finalize, UsePrefetchedGate, NothingPassed, Pool
<1>10. CASE LaunchLegacy \/ NoPrefetch
  BY <1>0, <1>1, <1>10 DEF LaunchLegacy, NoPrefetch, Launched, History
<1>11. CASE Issue
  <2> DEFINE told == [pool EXCEPT
                       !.pendingNext = IF NextBatch > 0 THEN TRUE ELSE @,
                       !.nextStart = IF NextBatch > 0 THEN cur + Batch ELSE @,
                       !.nextBatch = IF NextBatch > 0 THEN NextBatch ELSE @]
             grown == [told EXCEPT !.cap = Batch, !.gen = @ + 1, !.midstate = NoJob]
  <2>1. rem > 0 /\ Batch \in Nat /\ Batch > 0
    BY <1>11, Batches DEF Issue, ControlInv, Launching
  <2>2. /\ told.cap = pool.cap /\ told.gen = pool.gen /\ told.key = pool.key
        /\ told.midstate = pool.midstate /\ told.graph = pool.graph
    BY <1>0 DEF Pool
  <2>3. /\ grown.cap = Batch /\ grown.gen = pool.gen + 1 /\ grown.key = pool.key
        /\ grown.midstate = NoJob /\ grown.graph = pool.graph
    BY <1>0 DEF Pool
  <2>4. pool' = IF pool.cap < Batch THEN grown ELSE told
    BY <1>11 DEF Issue
  <2>5. UNCHANGED batched
    BY <1>11 DEF Issue
  <2> HIDE DEF told, grown
  <2>6. CASE pool.cap < Batch
    BY <1>0, <2>1, <2>3, <2>4, <2>5, <2>6 DEF PoolInv, Undisturbed, NoGraph
  <2>7. CASE ~(pool.cap < Batch)
    BY <1>0, <2>1, <2>2, <2>4, <2>5, <2>7 DEF PoolInv, Undisturbed
  <2> QED
    BY <2>6, <2>7
\* A gate leaves the pool as CleanGate says.
<1>20. ASSUME NEW o, pool.gen > 0, o.pool \in Pool,
              o.pool.cap = pool.cap, o.pool.gen = pool.gen, o.pool.key = Key[call.job],
              o.strayed => own'.strayed,
              Undisturbed /\ ~o.strayed =>
                 /\ o.pool.midstate = Key[call.job]
                 /\ o.pool.graph.bucket # 0 =>
                       o.pool.graph.gen = pool.gen /\ Key[o.pool.graph.job] = Key[call.job],
              \/ pool' = [o.pool EXCEPT !.lastPassed = o.pool.gateCount]
              \/ pool' = [o.pool EXCEPT !.prefetched = TRUE, !.pendingNext = FALSE],
              UNCHANGED batched
       PROVE  PoolInv'
  <2>1. /\ pool'.cap = pool.cap /\ pool'.gen = pool.gen /\ pool'.key = Key[call.job]
        /\ pool'.midstate = o.pool.midstate /\ pool'.graph = o.pool.graph
    BY <1>20 DEF Pool
  <2> QED
    BY <1>0, <1>20, <2>1 DEF PoolInv, Undisturbed
<1>12. CASE LaunchGate
  <2>1. PICK o \in GateOutcomes(cur, Batch) :
          /\ pool' = [o.pool EXCEPT !.lastPassed = o.pool.gateCount]
          /\ own' = [own EXCEPT !.exact = o.asked.exact, !.strayed = @ \/ o.strayed]
    BY <1>12 DEF LaunchGate
  <2>2. cur \in Nat /\ Batch \in 0..MostLaunched /\ Batch \in 1..MostLaunched
    BY <1>12, Batches, Sizes, SMTT(60) DEF TypeOK, LaunchGate, ControlInv, Launching
  <2>3. o.pool \in Pool
    BY <2>2, GateTypes
  <2>4. o.pool.cap = pool.cap /\ o.pool.gen = pool.gen /\ o.pool.key = Key[call.job]
    BY <2>2, GateKeeps
  <2>5. pool.gen > 0
    BY <1>0, <1>12 DEF LaunchGate, PoolInv
  <2>8. call.job \in Jobs
    BY <1>12 DEF LaunchGate, ControlInv
  <2>6. Undisturbed /\ ~o.strayed =>
           /\ o.pool.midstate = Key[call.job]
           /\ o.pool.graph.bucket # 0 =>
                 o.pool.graph.gen = pool.gen /\ Key[o.pool.graph.job] = Key[call.job]
    BY <2>2, <2>5, <2>8, CleanGate
  <2>7. (o.strayed => own'.strayed) /\ UNCHANGED batched
    BY <1>0, <1>12, <2>1, Zenon DEF LaunchGate, History
  <2> QED
    BY <1>20, <2>1, <2>3, <2>4, <2>5, <2>6, <2>7
<1>13. CASE PrefetchGate
  <2>1. PICK o \in GateOutcomes(pool.nextStart, pool.nextBatch) :
          /\ pool' = [o.pool EXCEPT !.prefetched = TRUE, !.pendingNext = FALSE]
          /\ own' = [own EXCEPT !.strayed = @ \/ o.strayed]
    BY <1>13 DEF PrefetchGate
  <2>2. /\ pool.nextStart \in Nat /\ pool.nextBatch \in 0..MostLaunched
        /\ pool.nextBatch \in 1..MostLaunched
    BY <1>13, PoolTypes, Sizes, Batches DEF PrefetchGate, PrefetchInv, ControlInv
  <2>3. o.pool \in Pool
    BY <2>2, GateTypes
  <2>4. o.pool.cap = pool.cap /\ o.pool.gen = pool.gen /\ o.pool.key = Key[call.job]
    BY <2>2, GateKeeps
  <2>5. pool.gen > 0
    BY <1>0, <1>13 DEF PrefetchGate, PoolInv
  <2>8. call.job \in Jobs
    BY <1>13 DEF PrefetchGate, ControlInv
  <2>6. Undisturbed /\ ~o.strayed =>
           /\ o.pool.midstate = Key[call.job]
           /\ o.pool.graph.bucket # 0 =>
                 o.pool.graph.gen = pool.gen /\ Key[o.pool.graph.job] = Key[call.job]
    BY <2>2, <2>5, <2>8, CleanGate
  <2>7. (o.strayed => own'.strayed) /\ UNCHANGED batched
    BY <1>0, <1>13, <2>1, Zenon DEF PrefetchGate, History
  <2> QED
    BY <1>20, <2>1, <2>3, <2>4, <2>5, <2>6, <2>7
<1>14. CASE ProcessPassed
  <2>1. PICK captured \in BOOLEAN, recorded \in BOOLEAN :
          /\ pool' = [pool EXCEPT !.inFlight = IF recorded THEN TRUE ELSE @]
          /\ batched' = [cap |-> IF Grows THEN BucketBatchSize(pool.lastPassed)
                                          ELSE batched.cap,
                         room |-> IF Grows THEN pool.lastPassed ELSE batched.room,
                         target |-> Target[call.job],
                         graph |-> IF HasGraph THEN batched.graph
                                   ELSE IF captured THEN pool.gen ELSE 0]
    BY <1>14, ZenonT(60) DEF ProcessPassed, HasGraph, Retargets
  <2>2. /\ pool'.cap = pool.cap /\ pool'.gen = pool.gen /\ pool'.key = pool.key
        /\ pool'.midstate = pool.midstate /\ pool'.graph = pool.graph
    BY <1>0, <2>1 DEF Pool
  <2>3. batched'.graph \in {batched.graph, pool.gen, 0}
    BY <2>1
  <2>4. pool.gen > 0
    BY <1>0, <1>14 DEF ProcessPassed, PoolInv
  <2> QED
    BY <1>0, <2>2, <2>3, <2>4 DEF PoolInv
<1>15. CASE LaunchFails
  <2>1. /\ pool'.cap = pool.cap /\ pool'.gen = pool.gen
        /\ pool'.prefetched => pool.prefetched
        /\ pool'.inFlight <=> pool.inFlight
    BY <1>0, <1>15 DEF LaunchFails, Pool
  <2> QED
    BY <1>2, <1>3, <1>15, <2>1 DEF LaunchFails
<1>16. CASE PoolAllocFails
  BY <1>0, <1>3, <1>16 DEF PoolAllocFails, PoolInv, EmptyPool, Undisturbed
<1>17. CASE BatchedAllocFails
  BY <1>2, <1>3, <1>17 DEF BatchedAllocFails
<1>18. CASE Device
  <2>1. /\ pool'.cap = pool.cap /\ pool'.gen = pool.gen /\ UNCHANGED batched
        /\ Used' => Used
    BY <1>18, DeviceKeeps
  <2>2. CASE own'.strayed
    BY <1>0, <2>1, <2>2 DEF PoolInv, Undisturbed
  <2>3. CASE ~own'.strayed
    BY <1>1, <1>18, <2>1, <2>3, QuietDevice
  <2> QED
    BY <2>2, <2>3
<1>19. CASE UNCHANGED vars
  BY <1>1, <1>19 DEF vars
<1> QED
  BY <1>4, <1>7, <1>8, <1>9, <1>10, <1>11, <1>12, <1>13, <1>14, <1>15, <1>16,
     <1>17, <1>18, <1>19 DEF Next, Host


LEMMA PoolInvariance ==
    Spec => [](TypeOK /\ ControlInv /\ PrefetchInv /\ ResultsInv /\ PoolInv)
<1>1. Init => PoolInv
  BY DEF Init, PoolInv, Undisturbed, EmptyPool, EmptyBatched, NoGraph
<1> QED
  BY <1>1, PrefetchInvariance, ResultsInvariance, NextPool, PTL DEF Spec

-----------------------------------------------------------------------------
(* Exact batches *)

\* Only a new call changes the job.
LEMMA OnlyStartCalls ==
    ASSUME [Next]_vars, ~StartSolve PROVE UNCHANGED call
<1>1. CASE UNCHANGED hostVars
  BY <1>1 DEF hostVars
<1>2. CASE LoopCollect \/ TailCollect \/ Issue \/ LaunchLegacy \/ PrefetchGate \/ NoPrefetch
  BY <1>2 DEF LoopCollect, TailCollect, Issue, LaunchLegacy, PrefetchGate, NoPrefetch
<1>3. CASE LoopEnds \/ Finalize \/ UsePrefetchedGate \/ LaunchGate
  BY <1>1, <1>3 DEF LoopEnds, Finalize, UsePrefetchedGate, LaunchGate
<1>4. CASE ProcessPassed \/ NothingPassed \/ LaunchFails \/ PoolAllocFails \/ BatchedAllocFails
  BY <1>1, <1>4 DEF ProcessPassed, NothingPassed, LaunchFails, PoolAllocFails,
                    BatchedAllocFails
<1>5. CASE ReadSeeds \/ WriteResults \/ UNCHANGED vars
  BY <1>1, <1>5 DEF ReadSeeds, WriteResults, vars
<1> QED
  BY <1>2, <1>3, <1>4, <1>5 DEF Next, Host, Device

\* The results of the batch under way stay exact while the device works: its
\* kernels read and write what the gate of the batch left in the slots.
LEMMA DeviceIsExact ==
    ASSUME TypeOK, Device, NEW start, SlotsAreExact(start), call.job \notin Legacy,
           ~own'.strayed, pool.lastPassed <= batched.cap,
           pool.inFlight, WorksOn(stream, results, pool.lastPassed, start),
           ResultsAreExact(start)
    PROVE  ResultsAreExact(start)'
<1>1. /\ stream \in Seq(Kernels) /\ stream # <<>>
      /\ Len(stream) \in Nat \ {0} /\ Head(stream) = stream[1]
      /\ Len(Tail(stream)) = Len(stream) - 1
      /\ \A k \in 1..(Len(stream) - 1) : Tail(stream)[k] = stream[k + 1]
  BY DeviceKeeps DEF TypeOK
<1>2. stream[Len(stream)].active = pool.lastPassed
  BY <1>1 DEF WorksOn
<1>3. \A i \in 1..pool.lastPassed : i \in Slots /\ gateBuf[i] = JobTag(start)
  BY PoolTypes, Sizes DEF SlotsAreExact, Slots
<1>4. LastKernelsAreExact(start)
  BY <1>1 DEF ResultsAreExact
<1>5. UNCHANGED <<call, pool, found, gateBuf>>
  BY DeviceKeeps, QuietDevice
<1>6. CASE ReadSeeds
  <2>1. PICK op \in Kernels :
          /\ op.active = Head(stream).active /\ op.seeds = gateBuf
          /\ op.live <=> Head(stream).live
          /\ stream' = <<op>> \o Tail(stream)
    BY <1>6, QuietDevice
  <2>2. Tail(stream) \in Seq(Kernels)
    BY <1>1
  <2>5. /\ Len(stream') = Len(stream) /\ stream' # <<>> /\ stream'[1] = op
        /\ \A k \in 2..Len(stream) : stream'[k] = Tail(stream)[k - 1]
    BY <1>1, <2>1, <2>2
  <2>6. LastKernelsAreExact(start)'
    <3>1. CASE Len(stream) = 1
      <4>1. stream'[Len(stream')] = op
        BY <2>5, <3>1
      <4>2. op.live
        BY <1>1, <1>4, <2>1, <3>1 DEF LastKernelsAreExact
      <4>3. \A i \in 1..op.active : op.seeds[i] = JobTag(start)
        BY <1>1, <1>2, <1>3, <2>1, <3>1
      <4> QED
        BY <1>5, <4>1, <4>2, <4>3 DEF LastKernelsAreExact, JobTag
    <3>2. CASE Len(stream) # 1
      <4>1. Len(stream) \in 2..Len(stream) /\ Len(stream) - 1 \in 1..(Len(stream) - 1)
            /\ (Len(stream) - 1) + 1 = Len(stream)
        BY <1>1, <3>2
      <4>2. stream'[Len(stream')] = stream[Len(stream)]
        BY <1>1, <2>5, <4>1
      <4> QED
        BY <1>4, <1>5, <4>2 DEF LastKernelsAreExact, JobTag
    <3> QED
      BY <3>1, <3>2
  <2> QED
    BY <1>5, <2>5, <2>6 DEF ResultsAreExact
<1>7. CASE WriteResults
  <2>1. stream' = Tail(stream)
    BY <1>7 DEF WriteResults
  <2>2. CASE Len(stream) = 1
    <3>1. stream' = <<>>
      BY <1>1, <2>1, <2>2
    <3>2. Head(stream) = stream[Len(stream)] /\ Head(stream).read
      BY <1>1, <1>7, <2>2 DEF WriteResults
    <3>3. ASSUME NEW i \in 1..pool.lastPassed
          PROVE  results'[i].from = {JobTag(start)}
      <4>1. i \in Slots /\ i <= Head(stream).active /\ i <= batched.cap
        <5>1. pool.lastPassed \in 0..MostSlots /\ batched.cap \in Nat /\ MostSlots \in Nat
          BY PoolTypes, FieldTypes, Sizes
        <5> QED
          BY <1>2, <1>3, <3>2, <5>1
      <4>2. Head(stream).live /\ Head(stream).seeds[i] = JobTag(start)
        BY <1>2, <1>4, <3>2 DEF LastKernelsAreExact
      <4>3. results'[i] = [by |-> Head(stream).by,
                           from |-> {Head(stream).seeds[i], gateBuf[i]}]
        BY <1>7, <4>1, <4>2, QuietDevice
      <4> QED
        BY <1>3, <4>2, <4>3
    <3> QED
      BY <1>5, <3>1, <3>3 DEF ResultsAreExact, JobTag
  <2>3. CASE Len(stream) # 1
    <3>1. Len(stream) \in Nat /\ Len(stream) > 1
          /\ Len(stream) - 1 \in 1..(Len(stream) - 1) /\ (Len(stream) - 1) + 1 = Len(stream)
      BY <1>1, <2>3
    <3>2. Len(stream') = Len(stream) - 1
      BY <1>1, <2>1
    <3>3. stream' # <<>>
      BY <3>1, <3>2
    <3>4. stream'[Len(stream')] = stream[Len(stream)]
      BY <1>1, <2>1, <3>1, <3>2
    <3> QED
      BY <1>4, <1>5, <3>3, <3>4 DEF ResultsAreExact, LastKernelsAreExact, JobTag
  <2> QED
    BY <2>2, <2>3
<1> QED
  BY <1>6, <1>7 DEF Device

LEMMA NextExact ==
    /\ TypeOK /\ ControlInv /\ PrefetchInv /\ ResultsInv /\ PoolInv
    /\ ExactInv /\ [Next]_vars
    => ExactInv'
<1> SUFFICES ASSUME TypeOK, ControlInv, PrefetchInv, ResultsInv, PoolInv, ExactInv,
                    [Next]_vars, Undisturbed', KeyIsUnique'
             PROVE  /\ PrefetchIsExact'
                    /\ (UnderWay /\ NoGateSince
                          => /\ SlotsAreExact(ThisBatch)
                             /\ own.ran => ResultsAreExact(ThisBatch))'
  BY DEF ExactInv
<1> DEFINE BatchIsExact == UnderWay /\ NoGateSince =>
                              /\ SlotsAreExact(ThisBatch)
                              /\ own.ran => ResultsAreExact(ThisBatch)
<1> USE DEF hostVars, devVars
\* No batch is under way.
<1>2. ASSUME pc' \notin {"process", "prefetch"},
             pc' \in {"loop", "tail"} => ~pending'.on
      PROVE  BatchIsExact'
  BY <1>2 DEF UnderWay
<1>4. CASE StartSolve
  <2>1. ~pending'.on
    BY <1>4 DEF StartSolve, TypeOK
  <2> QED
    BY <1>2, <1>4, <2>1 DEF StartSolve, ControlInv, PrefetchIsExact
<1> SUFFICES ASSUME ~StartSolve PROVE PrefetchIsExact' /\ BatchIsExact'
  BY <1>4
<1>0. /\ pool \in Pool /\ own \in History /\ MaxErrors \in Nat
      /\ pending \in [on : BOOLEAN, start : Nat, size : Nat]
      /\ Undisturbed /\ KeyIsUnique /\ ~own'.strayed
      /\ PrefetchIsExact /\ BatchIsExact
  <2>1. KeyIsUnique
    BY OnlyStartCalls DEF KeyIsUnique
  <2> QED
    BY <2>1, NextDisturbance, PipelineAssumption DEF TypeOK, ExactInv, Undisturbed
\* The prefetched gate is left alone.
<1>1. ASSUME UNCHANGED <<call, asked, gateBuf>>, pool'.prefetched => pool.prefetched,
             pool'.gateCount = pool.gateCount
      PROVE  PrefetchIsExact'
  BY <1>0, <1>1 DEF PrefetchIsExact, JobTag
\* The batch under way is left alone.
<1>3. ASSUME UNCHANGED <<call, asked, gateBuf, results, stream, found>>,
             UnderWay' => UnderWay, UnderWay' => ThisBatch' = ThisBatch,
             own'.exact <=> own.exact, own'.ran <=> own.ran,
             pool'.inFlight <=> pool.inFlight, pool'.lastPassed = pool.lastPassed
      PROVE  BatchIsExact'
  BY <1>0, <1>3 DEF NoGateSince, SlotsAreExact, ResultsAreExact, LastKernelsAreExact, JobTag
<1>5. ASSUME Collect, UNCHANGED <<call, asked, devVars>>, pc' \in {"issue", "finalize"}
      PROVE  PrefetchIsExact' /\ BatchIsExact'
  BY <1>0, <1>1, <1>2, <1>5 DEF Collect, Pool
<1>6. ~CollectFails /\ ~Failed
  <2>1. own.errors \in Nat
    BY <1>0 DEF History
  <2>2. CollectFails \/ Failed => own'.errors = own.errors + 1
    BY <1>0 DEF CollectFails, Failed, History
  <2> QED
    BY <2>1, <2>2 DEF Undisturbed
<1>7. CASE LoopCollect
  BY <1>1, <1>2, <1>5, <1>6, <1>7 DEF LoopCollect
<1>8. CASE TailCollect
  BY <1>1, <1>2, <1>5, <1>6, <1>8 DEF TailCollect
<1>9. CASE LoopEnds
  BY <1>1, <1>3, <1>9 DEF LoopEnds, UnderWay, ThisBatch
<1>10. CASE Finalize
  BY <1>0, <1>1, <1>2, <1>10 DEF Finalize, Pool
<1>11. CASE Issue
  <2> DEFINE told == [pool EXCEPT
                       !.pendingNext = IF NextBatch > 0 THEN TRUE ELSE @,
                       !.nextStart = IF NextBatch > 0 THEN cur + Batch ELSE @,
                       !.nextBatch = IF NextBatch > 0 THEN NextBatch ELSE @]
  <2>1. /\ told.prefetched <=> pool.prefetched
        /\ told.gateCount = pool.gateCount /\ told.gen = pool.gen
    BY <1>0 DEF Pool
  <2>2. pool.cap < Batch => pool'.gen = pool.gen + 1 /\ (pool'.prefetched <=> pool.prefetched)
    BY <1>0, <1>11 DEF Issue, Pool
  <2>3. ~(pool.cap < Batch) => pool' = told /\ gateBuf' = gateBuf
    BY <1>11 DEF Issue
  <2> HIDE DEF told
  <2>4. pool.cap < Batch => ~pool'.prefetched
    BY <2>2, PoolTypes DEF PoolInv, Undisturbed
  <2>5. PrefetchIsExact'
    BY <1>1, <1>11, <2>1, <2>3, <2>4 DEF Issue, PrefetchIsExact
  <2> QED
    BY <1>2, <1>11, <2>5 DEF Issue
<1>12. CASE LaunchLegacy
  <2>1. ~pool.inFlight /\ ~pool.prefetched /\ call.job \in Legacy /\ UNCHANGED <<call, pool>>
    BY <1>12 DEF LaunchLegacy, ControlInv
  <2>2. ThisBatch' = cur
    BY <1>12 DEF LaunchLegacy, Launched, ThisBatch
  <2>3. \A h \in found' : h.index = JobTag(cur) /\ h.from = {JobTag(cur)}
    BY <1>12 DEF LaunchLegacy, JobTag
  <2>4. SlotsAreExact(ThisBatch)' /\ ResultsAreExact(ThisBatch)'
    BY <2>1, <2>2, <2>3 DEF SlotsAreExact, ResultsAreExact, JobTag
  <2> QED
    BY <2>1, <2>4 DEF PrefetchIsExact
<1>13. CASE UsePrefetchedGate
  <2>1. ThisBatch' = cur /\ ~own.ran
    BY <1>13 DEF UsePrefetchedGate, ControlInv, Launching, ResultsInv, ThisBatch
  <2>2. ~pool'.prefetched /\ pool'.lastPassed = pool.gateCount
    BY <1>0, <1>13 DEF UsePrefetchedGate, Pool
  <2>3. (own'.exact <=> asked.exact) /\ (own'.ran <=> own.ran)
    BY <1>0, <1>13, Zenon DEF UsePrefetchedGate, History, TypeOK
  <2>4. asked.start = cur /\ asked.exact => SlotsAreExact(cur)'
    BY <1>0, <1>13, <2>2 DEF UsePrefetchedGate, PrefetchIsExact, SlotsAreExact, JobTag
  <2> QED
    BY <1>13, <2>1, <2>2, <2>3, <2>4
       DEF UsePrefetchedGate, PrefetchIsExact, NoGateSince, SlotsAreExact, JobTag
<1>14. CASE LaunchGate
  <2>1. PICK o \in GateOutcomes(cur, Batch) :
          /\ pool' = [o.pool EXCEPT !.lastPassed = o.pool.gateCount]
          /\ gateBuf' = o.buf /\ asked' = o.asked
          /\ own' = [own EXCEPT !.exact = o.asked.exact, !.strayed = @ \/ o.strayed]
    BY <1>14 DEF LaunchGate
  <2>2. cur \in Nat /\ Batch \in 0..MostLaunched /\ Batch \in 1..MostLaunched
    BY <1>14, Batches, Sizes, SMTT(60) DEF TypeOK, LaunchGate, ControlInv, Launching
  <2>3. o.pool \in Pool
    BY <2>2, GateTypes
  <2>4. pool.gen > 0 /\ call.job \in Jobs
    BY <1>14 DEF LaunchGate, PoolInv, ControlInv
  <2>10. ~o.strayed
    BY <1>0, <2>1, Zenon DEF History
  <2>5. o.asked.exact => \A i \in 1..o.pool.gateCount : o.buf[i] = JobTag(cur)
    BY <1>0, <2>2, <2>4, <2>10, CleanGate
  <2>6. ~o.pool.prefetched
    BY <1>14, <2>2, GateKeeps DEF LaunchGate
  <2>7. ~pool'.prefetched /\ pool'.lastPassed = o.pool.gateCount
    BY <2>1, <2>3, <2>6 DEF Pool
  <2>8. (own'.exact <=> o.asked.exact) /\ (own'.ran <=> own.ran)
    BY <1>0, <2>1, Zenon DEF History
  <2>9. ThisBatch' = cur /\ ~own.ran /\ UNCHANGED call
    BY <1>14 DEF LaunchGate, ControlInv, Launching, ResultsInv, ThisBatch
  <2> QED
    BY <2>1, <2>5, <2>7, <2>8, <2>9
       DEF PrefetchIsExact, NoGateSince, SlotsAreExact, JobTag
<1>15. CASE ProcessPassed
  <2> DEFINE op == [by |-> cur, active |-> pool.lastPassed,
                    live |-> (HasGraph => batched.graph = pool.gen),
                    read |-> FALSE, seeds |-> gateBuf]
  <2>1. PICK recorded \in BOOLEAN, runs \in BOOLEAN :
          /\ stream' = IF runs THEN Append(stream, op) ELSE stream
          /\ own' = [own EXCEPT !.ran = runs,
                                !.orphan = @ \/ (runs /\ ~recorded),
                                !.errors = IF recorded THEN @ ELSE @ + 1]
          /\ pool' = [pool EXCEPT !.inFlight = IF recorded THEN TRUE ELSE @]
    BY <1>15, ZenonT(60) DEF ProcessPassed, HasGraph, Retargets
  <2>2. recorded
    <3>1. own.errors \in Nat /\ (~recorded => own'.errors = own.errors + 1)
      BY <1>0, <2>1 DEF History
    <3> QED
      BY <3>1 DEF Undisturbed
  <2>3. /\ pool'.lastPassed = pool.lastPassed /\ pool'.gateCount = pool.gateCount
        /\ (pool'.prefetched <=> pool.prefetched) /\ pool'.inFlight
    BY <1>0, <2>1, <2>2 DEF Pool
  <2>4. (own'.ran <=> runs) /\ (own'.exact <=> own.exact)
    BY <1>0, <2>1, Zenon DEF History
  <2>5. UnderWay /\ ThisBatch' = ThisBatch /\ UNCHANGED <<call, asked, gateBuf>>
    BY <1>15 DEF ProcessPassed, UnderWay, ThisBatch
  <2>6. op.live /\ ~op.read
    <3>1. HasGraph => batched.graph = pool.gen
      BY <1>0 DEF HasGraph, PoolInv
    <3> QED
      BY <3>1
  <2> HIDE DEF op
  <2>7. runs => stream' # <<>> /\ stream'[Len(stream')] = op
    <3>1. stream \in Seq(Kernels)
      BY DEF TypeOK
    <3> QED
      BY <2>1, <3>1
  <2>8. runs => ResultsAreExact(ThisBatch)'
    BY <2>3, <2>6, <2>7 DEF ResultsAreExact, LastKernelsAreExact
  <2>9. PrefetchIsExact'
    BY <1>1, <2>3, <2>5
  <2> QED
    BY <1>0, <2>3, <2>4, <2>5, <2>8, <2>9 DEF NoGateSince, SlotsAreExact, JobTag
<1>16. CASE NothingPassed
  <2>1. /\ pool'.lastPassed = pool.lastPassed /\ pool'.gateCount = pool.gateCount
        /\ pool'.prefetched <=> pool.prefetched
    BY <1>0, <1>16 DEF NothingPassed, Pool
  <2>2. UnderWay /\ ThisBatch' = ThisBatch /\ ~own.ran
    BY <1>16 DEF NothingPassed, UnderWay, ThisBatch, ResultsInv
  <2> QED
    BY <1>0, <1>1, <1>16, <2>1, <2>2 DEF NothingPassed, NoGateSince, SlotsAreExact, JobTag
<1>17. CASE PrefetchGate
  <2>1. PICK o \in GateOutcomes(pool.nextStart, pool.nextBatch) :
          /\ pool' = [o.pool EXCEPT !.prefetched = TRUE, !.pendingNext = FALSE]
          /\ gateBuf' = o.buf /\ asked' = o.asked
          /\ own' = [own EXCEPT !.strayed = @ \/ o.strayed]
    BY <1>17 DEF PrefetchGate
  <2>2. /\ pool.nextStart \in Nat /\ pool.nextBatch \in 0..MostLaunched
        /\ pool.nextBatch \in 1..MostLaunched
    BY <1>17, PoolTypes, Sizes, Batches DEF PrefetchGate, PrefetchInv, ControlInv
  <2>3. o.pool \in Pool
    BY <2>2, GateTypes
  <2>4. pool.gen > 0 /\ call.job \in Jobs
    BY <1>17 DEF PrefetchGate, PoolInv, ControlInv
  <2>12. ~o.strayed
    BY <1>0, <2>1, Zenon DEF History
  <2>5. o.asked.exact => \A i \in 1..o.pool.gateCount : o.buf[i] = JobTag(pool.nextStart)
    BY <1>0, <2>2, <2>4, <2>12, CleanGate
  <2>6. o.asked.start = pool.nextStart
    BY <2>2, GateKeeps
  <2>7. pool'.gateCount = o.pool.gateCount
    BY <2>1, <2>3 DEF Pool
  <2>8. ThisBatch' = cur /\ UNCHANGED call
    BY <1>17 DEF PrefetchGate, Launched, ThisBatch
  <2>9. pool.nextStart # cur
    <3>1. pool.nextStart = cur + Batch /\ rem > 0
      BY <1>17 DEF PrefetchGate, PrefetchInv, ControlInv, Launching
    <3>2. cur \in Nat /\ Batch \in Nat /\ Batch > 0
      BY <3>1, Batches DEF TypeOK
    <3> QED
      BY <3>1, <3>2
  <2>10. PrefetchIsExact'
    BY <2>1, <2>5, <2>6, <2>7, <2>8 DEF PrefetchIsExact, JobTag
  <2>11. ~NoGateSince'
    BY <2>1, <2>6, <2>8, <2>9 DEF NoGateSince
  <2> QED
    BY <2>10, <2>11
<1>18. CASE NoPrefetch
  <2>1. UnderWay /\ ThisBatch' = ThisBatch
    BY <1>0, <1>18 DEF NoPrefetch, Launched, ControlInv, Launching, UnderWay, ThisBatch
  <2> QED
    BY <1>1, <1>3, <1>18, <2>1 DEF NoPrefetch
<1>19. CASE LaunchFails \/ PoolAllocFails \/ BatchedAllocFails
  BY <1>6, <1>19 DEF LaunchFails, PoolAllocFails, BatchedAllocFails
<1>20. CASE Device
  <2>1. /\ UNCHANGED <<pc, call, cur, pending, found, pool, gateBuf, asked>>
        /\ (own'.ran <=> own.ran) /\ (own'.exact <=> own.exact) /\ ~own.strayed
    BY <1>0, <1>20, DeviceKeeps, QuietDevice
  <2>2. PrefetchIsExact'
    BY <1>1, <2>1
  <2>3. ASSUME UnderWay, NoGateSince, own.ran, pool.inFlight
        PROVE  ResultsAreExact(ThisBatch)'
    <3>1. SlotsAreExact(ThisBatch) /\ ResultsAreExact(ThisBatch)
      BY <1>0, <2>3
    <3>2. /\ call.job \notin Legacy /\ pool.lastPassed <= batched.cap
          /\ WorksOn(stream, results, pool.lastPassed, ThisBatch)
      BY <2>1, <2>3 DEF ControlInv, ResultsInv
    <3>3. \A start : SlotsAreExact(start) /\ ResultsAreExact(start)
                       /\ WorksOn(stream, results, pool.lastPassed, start)
                     => ResultsAreExact(start)'
      BY <1>0, <1>20, <2>3, <3>2, DeviceIsExact
    <3> QED
      BY <2>1, <3>1, <3>2, <3>3 DEF ThisBatch
  <2> QED
    BY <1>0, <2>1, <2>2, <2>3
       DEF UnderWay, NoGateSince, ThisBatch, SlotsAreExact, ResultsAreExact, JobTag
<1>21. CASE UNCHANGED vars
  BY <1>1, <1>3, <1>21 DEF vars, UnderWay, ThisBatch
<1> QED
  BY <1>7, <1>8, <1>9, <1>10, <1>11, <1>12, <1>13, <1>14, <1>15, <1>16,
     <1>17, <1>18, <1>19, <1>20, <1>21 DEF Next, Host


LEMMA ExactInvariance ==
    Spec => [](TypeOK /\ ControlInv /\ ResultsInv /\ ExactInv)
<1>1. Init => ExactInv
  BY DEF Init, ExactInv, PrefetchIsExact, UnderWay, EmptyPool
<1> QED
  BY <1>1, PoolInvariance, NextExact, PTL DEF Spec

LEMMA NextLastBatch ==
    /\ TypeOK /\ ControlInv /\ ResultsInv /\ ExactInv
    /\ LastBatchIsExact /\ [Next]_vars
    => LastBatchIsExact'
<1> SUFFICES ASSUME TypeOK, ControlInv, ResultsInv, ExactInv, LastBatchIsExact, [Next]_vars
             PROVE  LastBatchIsExact'
  OBVIOUS
<1>1. CASE reported' = <<>> \/ (reported' = reported /\ call' = call)
  BY <1>1, NextDisturbance DEF LastBatchIsExact, KeyIsUnique
<1>2. ASSUME Collect, pc \in {"loop", "tail"}, call' = call PROVE LastBatchIsExact'
  <2> DEFINE report == [start |-> pending.start, size |-> pending.size, hits |-> found',
                        ran |-> own.ran, last |-> own.exact /\ asked.start = pending.start]
             exact(r) == \A h \in r.hits : /\ h.index = JobTag(r.start)
                                           /\ h.from = {JobTag(r.start)}
  <2>1. reported' = Append(reported, report)
    BY <1>2 DEF Collect
  <2>2. UnderWay /\ ThisBatch = pending.start
    BY <1>2 DEF Collect, UnderWay, ThisBatch
  <2>3. ASSUME Undisturbed, KeyIsUnique, own.ran, own.exact /\ asked.start = pending.start
        PROVE  \A h \in found' : /\ h.index = JobTag(pending.start)
                                 /\ h.from = {JobTag(pending.start)}
    <3>1. NoGateSince
      BY <2>2, <2>3 DEF NoGateSince
    <3>2. SlotsAreExact(pending.start) /\ ResultsAreExact(pending.start)
      BY <2>2, <2>3, <3>1 DEF ExactInv
    <3>3. CASE ~pool.inFlight
      BY <1>2, <3>2, <3>3 DEF Collect, ResultsAreExact
    <3>4. CASE pool.inFlight
      <4>1. call.job \notin Legacy
        BY <3>4 DEF ControlInv
      <4>2. /\ stream = <<>>
            /\ found' = {Hit(i) : i \in 1..pool.lastPassed}
        BY <1>2, <3>4 DEF Collect
      <4>3. \A i \in 1..pool.lastPassed : /\ gateBuf[i] = JobTag(pending.start)
                                          /\ results[i].from = {JobTag(pending.start)}
        BY <3>2, <3>4, <4>1, <4>2 DEF SlotsAreExact, ResultsAreExact
      <4> QED
        BY <4>2, <4>3 DEF Hit
    <3> QED
      BY <3>3, <3>4
  <2>4. Undisturbed /\ KeyIsUnique /\ report.ran /\ report.last => exact(report)
    BY <2>3
  <2> HIDE DEF report
  <2>5. reported \in Seq(Report)
    BY DEF TypeOK
  <2>6. ASSUME NEW k \in 1..Len(reported')
        PROVE  \/ k = Len(reported) + 1 /\ reported'[k] = report
               \/ k \in 1..Len(reported) /\ reported'[k] = reported[k]
    <3>1. Len(reported) \in Nat /\ Len(reported') = Len(reported) + 1
      BY <2>1, <2>5
    <3>2. CASE k = Len(reported) + 1
      BY <2>1, <2>5, <3>2
    <3>3. CASE k # Len(reported) + 1
      <4>1. k \in 1..Len(reported)
        BY <2>6, <3>1, <3>3
      <4> QED
        BY <2>1, <2>5, <4>1
    <3> QED
      BY <3>2, <3>3
  <2>7. ASSUME NEW k \in 1..Len(reported'), Undisturbed', KeyIsUnique',
               reported'[k].ran, reported'[k].last
        PROVE  exact(reported'[k])
    <3>1. Undisturbed /\ KeyIsUnique
      BY <1>2, <2>7, NextDisturbance DEF KeyIsUnique
    <3> QED
      BY <2>4, <2>6, <2>7, <3>1 DEF LastBatchIsExact, JobTag
  <2> QED
    BY <1>2, <2>7 DEF LastBatchIsExact, JobTag
<1>3. CASE LoopCollect
  BY <1>1, <1>2, <1>3 DEF LoopCollect, CollectFails
<1>4. CASE TailCollect
  BY <1>1, <1>2, <1>4 DEF TailCollect, CollectFails
<1>5. CASE ~LoopCollect /\ ~TailCollect
  BY <1>1, <1>5, OnlyCollectReports
<1> QED
  BY <1>3, <1>4, <1>5

\* While no call of the runtime fails, no kernel strays and the pool is not
\* replaced, the batch after which no other gate ran is reported exactly: the
\* interleaving of the matmul stream with the host and the next gate mixes no
\* inputs into it, and a gate replayed for another job writes the tags of this
\* one when their keys differ.
THEOREM LastReportIsExact == Spec => []LastBatchIsExact
<1>1. Init => LastBatchIsExact
  BY DEF Init, LastBatchIsExact
<1> QED
  BY <1>1, ExactInvariance, NextLastBatch, PTL DEF Spec
=============================================================================
