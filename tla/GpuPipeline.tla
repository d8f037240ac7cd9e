---------------------------- MODULE GpuPipeline ----------------------------
(***************************************************************************)
(* The host side of the CUDA search on one device: the loop of             *)
(* SolveOnDevice (cuda_solver.cpp), which keeps one batch on the device    *)
(* while it prepares the next, and the launch, collect and finalize calls  *)
(* of matmul_kernel.cu it makes.  A batch is a range of nonces.  The gate  *)
(* kernel selects nonces of the range and leaves, slot by slot, their      *)
(* index, seeds and sigma in the d_passed_* buffers; the matmul kernels    *)
(* read seeds and sigma of the slots and write d_results; the collect call *)
(* scatters the results to the indices the slots name.                     *)
(*                                                                         *)
(* The gate ends with a device-to-host copy into pageable memory, so the   *)
(* call that launches it returns when it is done.  The matmul kernels run  *)
(* on a stream of their own, while the host goes on: the variable stream.  *)
(* A synchronous copy on the null stream waits for both streams.           *)
(*                                                                         *)
(* Data is abstracted to provenance.  A Tag names the job and the first    *)
(* nonce of the range a gate scanned; a slot holds the tag of the gate     *)
(* that wrote it, a result the tags of everything it was computed from.    *)
(*                                                                         *)
(* A kernel that strays, writing past the end of its buffers or through    *)
(* freed pointers, leaves an undefined state: what it spoils is chosen     *)
(* from the data the model keeps.                                          *)
(***************************************************************************)
EXTENDS Integers, Sequences, SequencesExt

CONSTANTS Jobs,         \* work items
          Key,          \* Key[j]: the fields of job j that PackedJobKey holds
          Target,       \* Target[j]: the block and share targets of job j
          Legacy,       \* the jobs below the V2 height
          MinBucket,    \* smallest launch size (64 in the code)
          LaunchSizes,  \* launch batches the caller may ask for
          Counts,       \* nonces per call
          MaxSolves,    \* bound on the calls of SolveOnDevice
          GateRejects,  \* BOOLEAN: the gate may reject (epsilon_bits > 0)
          MaxErrors     \* bound on the calls of the CUDA runtime that fail

NoJob == "none"

ASSUME PipelineAssumption ==
    /\ Legacy \subseteq Jobs
    /\ NoJob \notin Jobs
    /\ Key[NoJob] = NoJob /\ \A j \in Jobs : Key[j] # NoJob
    /\ MinBucket \in Nat \ {0}
    /\ LaunchSizes \subseteq Nat \ {0} /\ Counts \subseteq Nat \ {0}
    /\ \E largest \in LaunchSizes : \A l \in LaunchSizes : l <= largest
    /\ {MaxSolves, MaxErrors} \subseteq Nat
    /\ GateRejects \in BOOLEAN

VARIABLES pc,        \* where the host thread is
          call,      \* arguments of the current SolveOnDevice
          cur, rem,  \* current_nonce and remaining
          pending,   \* pipeline_pending, pending_start, pending_batch
          found,     \* pending_digests / pending_found
          reported,  \* the batches whose hits SolveOnDevice appended
          solves,    \* calls made so far
          pool,      \* DeviceLaunchPool
          batched,   \* BatchedMatMulPool
          gateBuf,   \* d_passed_*: a tag per slot
          results,   \* d_results / d_digests: a result per slot
          stream,    \* matmul kernels enqueued and not finished
          asked,     \* history: what the last gate was launched for
          own        \* history: how the current batch was run

hostVars == <<call, cur, rem, pending, found, reported, solves>>
devVars == <<gateBuf, results, stream>>
vars == <<pc, hostVars, pool, batched, devVars, asked, own>>

\* A call of the CUDA runtime may fail now; own.errors counts those that did.
MayFail == own.errors < MaxErrors
Failed == own' = [own EXCEPT !.errors = @ + 1]

Garbage == [job |-> NoJob, start |-> 0]
Largest(S) == CHOOSE x \in S : \A y \in S : y <= x
Smaller(a, b) == IF a < b THEN a ELSE b

\* The least power-of-two multiple of the smallest bucket that holds b.
BucketBatchSize(b) ==
    CHOOSE p \in {MinBucket * 2^i : i \in 0..b} :
        p >= b /\ (p = MinBucket \/ p \div 2 < b)

NoGraph == [bucket |-> 0, gen |-> 0, job |-> NoJob]
EmptyPool == [cap |-> 0, gen |-> 0, key |-> NoJob, midstate |-> NoJob,
              graph |-> NoGraph, gateCount |-> 0, lastPassed |-> 0,
              inFlight |-> FALSE, prefetched |-> FALSE,
              pendingNext |-> FALSE, nextStart |-> 0, nextBatch |-> 0]
EmptyBatched == [cap |-> 0, room |-> 0, target |-> NoJob, graph |-> 0]

MostSlots == BucketBatchSize(Largest(LaunchSizes))
Slots == 1..MostSlots
Tag == [job : Jobs \cup {NoJob}, start : Nat]
Keys == {Key[j] : j \in Jobs \cup {NoJob}}
Stale == [by |-> 0, from |-> {Garbage}]

\* What a slot is reported as: the index it names, the inputs of its result
\* and the batch whose kernels wrote that result.
Hit(i) == [index |-> gateBuf[i], from |-> results[i].from, by |-> results[i].by]

----------------------------------------------------------------------------
(* A stray write lands in whatever is allocated there: the slots the gate  *)
(* filled, the job's midstates, the work under way and d_results.          *)
Damages(strays) == IF strays THEN SUBSET {"slots", "midstates", "work"} ELSE {{}}

SlotsAfter(buf, damage) ==
    IF "slots" \in damage THEN [i \in Slots |-> Garbage] ELSE buf
PoolAfter(p, damage) ==
    IF "midstates" \in damage THEN [p EXCEPT !.midstate = NoJob] ELSE p
ResultsAfter(res, damage) ==
    IF "work" \in damage THEN [i \in Slots |-> Stale] ELSE res
StreamAfter(ops, damage) ==
    IF "work" \in damage THEN [k \in DOMAIN ops |-> [ops[k] EXCEPT !.live = FALSE]]
    ELSE ops

----------------------------------------------------------------------------
(* LaunchGateForBatch.  The first gate of a job computes its midstates and *)
(* is launched directly.  The next one captures the graph: the capture     *)
(* leaves g_gate_nonce_start at 0 and g_gate_nonce_count at the bucket,    *)
(* after the start of this batch was set.  Later ones replay the graph,    *)
(* which holds the job and the pointers (generation gen) of its capture.   *)
JobChangedOnlyAtFirst == pool.key = NoJob  \* mutant: the key is not compared
JobChanged == pool.key # Key[call.job]
MustCapture(batch) == ~JobChanged /\ pool.graph.bucket # BucketBatchSize(batch)

\* The ways to run the gate: the job and the first nonce of its parameters,
\* the number of nonces scanned, the graph afterwards, and whether the
\* pointers it writes through are live.
GateRuns(start, batch) ==
    LET bucket == BucketBatchSize(batch)
        Plain(n) == [job |-> call.job, first |-> start, scanned |-> n,
                     graph |-> NoGraph, live |-> TRUE]
    IN  IF JobChanged THEN {Plain(batch)}
        ELSE IF MustCapture(batch)
        THEN {[job |-> call.job, first |-> 0, scanned |-> bucket, live |-> TRUE,
               graph |-> [bucket |-> bucket, gen |-> pool.gen, job |-> call.job]]}
             \cup {Plain(n) : n \in IF MaxErrors > 0 THEN {batch, bucket} ELSE {}}
        ELSE {[job |-> pool.graph.job, first |-> start, scanned |-> batch,
               graph |-> pool.graph, live |-> pool.graph.gen = pool.gen]}

\* The count of a gate that writes through freed pointers may be anyone's.
PassCounts(run) == IF GateRejects \/ ~run.live THEN 0..run.scanned ELSE {run.scanned}

\* The d_passed_* buffers have room for the largest batch launched, but a
\* capture scans its bucket.
GateStrays(run, passed) == ~run.live \/ passed > pool.cap

\* The pool and the buffers a gate leaves behind.
GateOutcomes(start, batch) ==
    LET mid == IF JobChanged THEN Key[call.job] ELSE pool.midstate
        Left(run, passed, damage) ==
            LET t == IF run.live /\ mid = Key[call.job]
                     THEN [job |-> run.job, start |-> run.first] ELSE Garbage
            IN  [pool |-> PoolAfter([pool EXCEPT !.key = Key[call.job], !.midstate = mid,
                                         !.graph = run.graph, !.gateCount = passed],
                                    damage),
                 buf  |-> SlotsAfter([i \in Slots |-> IF i <= passed THEN t
                                                       ELSE gateBuf[i]], damage),
                 asked |-> [job |-> call.job, start |-> start, size |-> batch,
                            exact |-> run.first = start /\ run.scanned = batch],
                 damage |-> damage, strayed |-> GateStrays(run, passed)]
    IN  UNION {UNION {{Left(run, passed, damage) : damage \in Damages(GateStrays(run, passed))}
                      : passed \in PassCounts(run)}
               : run \in GateRuns(start, batch)}

\* A capture copies synchronously on the null stream.
GateMayRun(batch) == MustCapture(batch) => stream = <<>>

----------------------------------------------------------------------------
Init ==
    /\ pc = "idle" /\ solves = 0 /\ reported = <<>> /\ found = {}
    /\ call = [job |-> NoJob, launch |-> 1, start |-> 1, count |-> 0]
    /\ cur = 1 /\ rem = 0
    /\ pending = [on |-> FALSE, start |-> 0, size |-> 0]
    /\ pool = EmptyPool /\ batched = EmptyBatched
    /\ gateBuf = [i \in Slots |-> Garbage]
    /\ results = [i \in Slots |-> Stale]
    /\ stream = <<>>
    /\ asked = [job |-> NoJob, start |-> 0, size |-> 0, exact |-> FALSE]
    /\ own = [exact |-> FALSE, ran |-> FALSE, orphan |-> FALSE, lost |-> FALSE,
              strayed |-> FALSE, errors |-> 0]

\* SolveBatchCuda hands a range of fresh nonces to the device's thread.
StartSolve ==
    /\ pc = "idle" /\ solves < MaxSolves
    /\ \E j \in Jobs, l \in LaunchSizes, n \in Counts :
          /\ call' = [job |-> j, launch |-> l, start |-> call.start + call.count,
                      count |-> n]
          /\ cur' = call'.start /\ rem' = n
    /\ solves' = solves + 1
    /\ pending' = [pending EXCEPT !.on = FALSE] /\ found' = {} /\ reported' = <<>>
    /\ own' = [own EXCEPT !.lost = FALSE]
    /\ pc' = "loop"
    /\ UNCHANGED <<pool, batched, devVars, asked>>

\* Mutant: the event is not waited for.
CollectWithoutWaiting ==
    /\ pending.on
    /\ found' = IF pool.inFlight THEN {Hit(i) : i \in 1..pool.lastPassed} ELSE found
    /\ pool' = [pool EXCEPT !.inFlight = FALSE]
    /\ reported' = Append(reported,
           [start |-> pending.start, size |-> pending.size, hits |-> found',
            ran |-> own.ran, last |-> own.exact /\ asked.start = pending.start])
    /\ pending' = [pending EXCEPT !.on = FALSE]
    /\ own' = own

\* CudaCollectTranscriptBatch when it succeeds: hits is what it returns.
Collect ==
    /\ pending.on
    /\ \/ ~pool.inFlight /\ found' = found /\ pool' = pool
       \/ /\ pool.inFlight /\ stream = <<>>
          /\ found' = {Hit(i) : i \in 1..pool.lastPassed}
          /\ pool' = [pool EXCEPT !.inFlight = FALSE]
    /\ reported' = Append(reported,
           [start |-> pending.start, size |-> pending.size, hits |-> found',
            ran |-> own.ran,
            last |-> own.exact /\ asked.start = pending.start])
    /\ pending' = [pending EXCEPT !.on = FALSE]
    /\ own' = own

\* It fails waiting for the event, or later, when nothing is in flight any
\* more; pipeline_pending stays set.
CollectFails ==
    /\ MayFail /\ pending.on /\ pool.inFlight
    /\ \/ pool' = pool /\ found' = found
       \/ /\ stream = <<>>
          /\ pool' = [pool EXCEPT !.inFlight = FALSE] /\ found' = {}
    /\ own' = [own EXCEPT !.lost = TRUE, !.errors = @ + 1]
    /\ UNCHANGED <<reported, pending>>

LoopCollect ==
    /\ pc = "loop" /\ rem > 0
    /\ \/ Collect /\ pc' = "issue"
       \/ CollectFails /\ pc' = "tail"
       \/ /\ ~pending.on /\ pc' = "issue"
          /\ UNCHANGED <<pool, found, reported, pending, own>>
    /\ UNCHANGED <<call, cur, rem, solves, batched, devVars, asked>>

\* Mutant: the last batch is not collected.
LoopEndsAtOnce ==
    /\ pc = "loop" /\ rem = 0 /\ pc' = "finalize"
    /\ UNCHANGED <<hostVars, pool, batched, devVars, asked, own>>

\* Mutant: the loop waits for a batch that only the next turn would collect.
LoopEndsWhenCollected ==
    /\ pc = "loop" /\ rem = 0 /\ ~pending.on /\ pc' = "tail"
    /\ UNCHANGED <<hostVars, pool, batched, devVars, asked, own>>

LoopEnds ==
    /\ pc = "loop" /\ rem = 0 /\ pc' = "tail"
    /\ UNCHANGED <<hostVars, pool, batched, devVars, asked, own>>

TailCollect ==
    /\ pc = "tail"
    /\ \/ Collect \/ CollectFails
       \/ ~pending.on /\ UNCHANGED <<pool, found, reported, pending, own>>
    /\ pc' = "finalize"
    /\ UNCHANGED <<call, cur, rem, solves, batched, devVars, asked>>

\* Mutants: Finalize keeps a prefetched gate, or clears the flags unwaited.
FinalizeKeepsGate ==
    /\ pc = "finalize"
    /\ pool.inFlight => stream = <<>>
    /\ pool' = [pool EXCEPT !.inFlight = FALSE, !.pendingNext = FALSE]
    /\ pc' = "idle"
    /\ UNCHANGED <<hostVars, batched, devVars, asked, own>>

FinalizeUnwaited ==
    /\ pc = "finalize"
    /\ pool' = [pool EXCEPT !.inFlight = FALSE, !.prefetched = FALSE,
                            !.pendingNext = FALSE]
    /\ pc' = "idle"
    /\ UNCHANGED <<hostVars, batched, devVars, asked, own>>

\* CudaFinalizeTranscriptPipeline ignores whether its waits succeed; then
\* the work is recorded.
Finalize ==
    /\ pc = "finalize"
    /\ \/ (pool.inFlight => stream = <<>>) /\ own' = own
       \/ /\ MayFail /\ (pool.inFlight \/ pool.prefetched)
          /\ own' = [own EXCEPT !.orphan = @ \/ stream # <<>>, !.errors = @ + 1]
    /\ pool' = [pool EXCEPT !.inFlight = FALSE, !.prefetched = FALSE,
                            !.pendingNext = FALSE]
    /\ pc' = "idle"
    /\ UNCHANGED <<hostVars, batched, devVars, asked>>

----------------------------------------------------------------------------
FullBatch == call.launch  \* mutant: a short last batch is not cut
Batch == Smaller(rem, call.launch)
NextBatch == Smaller(rem - Batch, call.launch)

\* The loop announces the next batch, clears the output vectors and calls
\* the launch, which makes room: growing replaces every buffer of the pool,
\* the midstates included, but neither the key nor the graphs.
Issue ==
    /\ pc = "issue"
    /\ LET grows == pool.cap < Batch
           told  == [pool EXCEPT
                       !.pendingNext = IF NextBatch > 0 THEN TRUE ELSE @,
                       !.nextStart = IF NextBatch > 0 THEN cur + Batch ELSE @,
                       !.nextBatch = IF NextBatch > 0 THEN NextBatch ELSE @]
       IN  /\ grows => stream = <<>>
           /\ pool' = IF grows
                      THEN [told EXCEPT !.cap = Batch, !.gen = @ + 1, !.midstate = NoJob]
                      ELSE told
           /\ gateBuf' = IF grows THEN [i \in Slots |-> Garbage] ELSE gateBuf
    /\ found' = {}
    /\ own' = [own EXCEPT !.exact = FALSE, !.ran = FALSE]
    /\ pc' = IF call.job \in Legacy THEN "legacy" ELSE "gate"
    /\ UNCHANGED <<call, cur, rem, pending, reported, solves, batched, results,
                   stream, asked>>

\* The batch is on its way: pipeline_pending and the loop variables.
Launched ==
    /\ pending' = [on |-> TRUE, start |-> cur, size |-> Batch]
    /\ cur' = cur + Batch /\ rem' = rem - Batch
    /\ pc' = "loop"

\* Below the V2 height one kernel does all the work, synchronously.
LaunchLegacy ==
    /\ pc = "legacy" /\ stream = <<>>
    /\ LET t == [job |-> call.job, start |-> cur]
       IN  found' = {[index |-> t, from |-> {t}, by |-> cur]}
    /\ own' = [own EXCEPT !.exact = TRUE, !.ran = TRUE]
    /\ asked' = [job |-> call.job, start |-> cur, size |-> Batch, exact |-> TRUE]
    /\ Launched
    /\ UNCHANGED <<call, reported, solves, pool, batched, devVars>>

\* The gate of this batch was run ahead of time, or is run now.
UsePrefetchedGate ==
    /\ pc = "gate" /\ pool.prefetched
    /\ pool' = [pool EXCEPT !.prefetched = FALSE, !.lastPassed = pool.gateCount]
    /\ own' = [own EXCEPT !.exact = asked.exact]
    /\ pc' = "process"
    /\ UNCHANGED <<hostVars, batched, devVars, asked>>

LaunchGate ==
    /\ pc = "gate" /\ ~pool.prefetched /\ GateMayRun(Batch)
    /\ \E o \in GateOutcomes(cur, Batch) :
          /\ pool' = [o.pool EXCEPT !.lastPassed = o.pool.gateCount]
          /\ gateBuf' = o.buf /\ asked' = o.asked
          /\ results' = ResultsAfter(results, o.damage)
          /\ stream' = StreamAfter(stream, o.damage)
          /\ own' = [own EXCEPT !.exact = o.asked.exact, !.strayed = @ \/ o.strayed]
    /\ pc' = "process"
    /\ UNCHANGED <<hostVars, batched>>

\* ProcessPassedNoncesBatched.  A pool that is too small is replaced: its
\* matrices have room for the bucket, but the seeds, midstates, digests and
\* results for this batch only.  A new target drops the graph, and a graph
\* captured now is not launched.
Grows == BucketBatchSize(pool.lastPassed) > batched.cap
Retargets == Grows \/ batched.target # Target[call.job]
HasGraph == ~Retargets /\ batched.graph # 0

\* captured: EnsureBatchedGraph succeeded (otherwise plain kernels run).
ProcessPassed ==
    /\ pc = "process" /\ pool.lastPassed > 0
    /\ \E captured \in IF MaxErrors > 0 /\ ~HasGraph THEN BOOLEAN ELSE {TRUE} :
       \E recorded \in IF MayFail THEN BOOLEAN ELSE {TRUE} :
          LET runs == HasGraph \/ ~captured
          IN  /\ ~HasGraph => stream = <<>>
              /\ batched' = [cap |-> IF Grows THEN BucketBatchSize(pool.lastPassed)
                                              ELSE batched.cap,
                             room |-> IF Grows THEN pool.lastPassed ELSE batched.room,
                             target |-> Target[call.job],
                             graph |-> IF HasGraph THEN batched.graph
                                       ELSE IF captured THEN pool.gen ELSE 0]
              /\ results' = IF Grows THEN [i \in Slots |-> Stale] ELSE results
              /\ stream' = IF runs
                           THEN Append(stream, [by |-> cur, active |-> pool.lastPassed,
                                    live |-> (HasGraph => batched.graph = pool.gen),
                                    read |-> FALSE, seeds |-> gateBuf])
                           ELSE stream
              /\ own' = [own EXCEPT !.ran = runs,
                                    !.orphan = @ \/ (runs /\ ~recorded),
                                    !.errors = IF recorded THEN @ ELSE @ + 1]
              /\ pool' = [pool EXCEPT !.inFlight = IF recorded THEN TRUE ELSE @]
              /\ pc' = IF recorded THEN "prefetch" ELSE "tail"
    /\ UNCHANGED <<hostVars, gateBuf, asked>>

NothingPassed ==
    /\ pc = "process" /\ pool.lastPassed = 0
    /\ pool' = [pool EXCEPT !.inFlight = FALSE]
    /\ pc' = "prefetch"
    /\ UNCHANGED <<hostVars, batched, devVars, asked, own>>

\* The end of the launch: the gate of the announced batch, on the other
\* stream and into the buffers this batch's kernels read.
PrefetchGate ==
    /\ pc = "prefetch" /\ pool.pendingNext /\ GateMayRun(pool.nextBatch)
    /\ \E o \in GateOutcomes(pool.nextStart, pool.nextBatch) :
          /\ pool' = [o.pool EXCEPT !.prefetched = TRUE, !.pendingNext = FALSE]
          /\ gateBuf' = o.buf /\ asked' = o.asked
          /\ results' = ResultsAfter(results, o.damage)
          /\ stream' = StreamAfter(stream, o.damage)
          /\ own' = [own EXCEPT !.strayed = @ \/ o.strayed]
    /\ Launched
    /\ UNCHANGED <<call, found, reported, solves, batched>>

NoPrefetch ==
    /\ pc = "prefetch" /\ ~pool.pendingNext
    /\ Launched
    /\ UNCHANGED <<call, found, reported, solves, pool, batched, devVars, asked, own>>

\* LaunchMatMulTranscriptBatch returns FALSE and the loop breaks.  The call
\* may fail before it changed anything; waiting for a prefetched gate, which
\* is used up; or in the gate of a new job, when the key may be stored and
\* the midstates not computed.
LaunchFails ==
    /\ MayFail /\ pc \in {"issue", "legacy", "gate", "process", "prefetch"}
    /\ \/ ~(pc = "gate" /\ pool.prefetched) /\ pool' = pool
       \/ pc = "gate" /\ pool.prefetched /\ pool' = [pool EXCEPT !.prefetched = FALSE]
       \/ /\ pc = "gate" /\ ~pool.prefetched /\ JobChanged
          /\ \E mid \in {pool.midstate, Key[call.job]} :
                pool' = [pool EXCEPT !.key = Key[call.job], !.midstate = mid, !.graph = NoGraph]
    /\ pc' = "tail"
    /\ UNCHANGED <<hostVars, batched, devVars, asked>>
    /\ Failed

\* An allocation fails while a pool grows: the pool is emptied.
PoolAllocFails ==
    /\ MayFail /\ pc = "issue" /\ pool.cap < Batch /\ stream = <<>>
    /\ pool' = [EmptyPool EXCEPT !.gen = pool.gen + 1]
    /\ gateBuf' = [i \in Slots |-> Garbage]
    /\ pc' = "tail"
    /\ UNCHANGED <<hostVars, batched, results, stream, asked>>
    /\ Failed

BatchedAllocFails ==
    /\ MayFail /\ pc = "process" /\ pool.lastPassed > 0 /\ Grows /\ stream = <<>>
    /\ batched' = EmptyBatched
    /\ results' = [i \in Slots |-> Stale]
    /\ pc' = "tail"
    /\ UNCHANGED <<hostVars, pool, gateBuf, stream, asked>>
    /\ Failed

----------------------------------------------------------------------------
(* The matmul stream: the kernels of the oldest batch first read the seeds *)
(* of the slots, later sigma, and end by writing the results.  They run on *)
(* every slot of the pool's bucket, whatever the batch passed, and overrun *)
(* the buffers that were allocated for fewer.                              *)
Overruns == batched.room < batched.cap
Overrun(damage) ==
    /\ gateBuf' = SlotsAfter(gateBuf, damage) /\ pool' = PoolAfter(pool, damage)
    /\ own' = [own EXCEPT !.strayed = @ \/ Overruns]

ReadSeeds ==
    /\ stream # <<>> /\ ~Head(stream).read
    /\ \E damage \in Damages(Overruns) :
          /\ Overrun(damage)
          /\ stream' = <<[Head(stream) EXCEPT !.read = TRUE, !.seeds = gateBuf',
                              !.live = @ /\ "work" \notin damage]>> \o Tail(stream)
    /\ UNCHANGED <<pc, hostVars, batched, results, asked>>

WriteResults ==
    /\ stream # <<>> /\ Head(stream).read
    /\ \E damage \in Damages(Overruns) :
          LET op == Head(stream)
              Result(i) == [by |-> op.by,
                            from |-> IF i <= op.active /\ op.live
                                     THEN {op.seeds[i], gateBuf'[i]} ELSE {Garbage}]
          IN  /\ Overrun(damage)
              /\ results' = ResultsAfter([i \in Slots |->
                                 IF i <= batched.cap THEN Result(i) ELSE results[i]], damage)
    /\ stream' = Tail(stream)
    /\ UNCHANGED <<pc, hostVars, batched, asked>>

Host ==
    \/ StartSolve \/ LoopCollect \/ LoopEnds \/ TailCollect \/ Finalize
    \/ Issue \/ LaunchLegacy \/ UsePrefetchedGate \/ LaunchGate
    \/ ProcessPassed \/ NothingPassed \/ PrefetchGate \/ NoPrefetch
    \/ LaunchFails \/ PoolAllocFails \/ BatchedAllocFails

Device == ReadSeeds \/ WriteResults

Next == Host \/ Device
Spec == Init /\ [][Next]_vars /\ WF_vars(Host) /\ WF_vars(Device)
----------------------------------------------------------------------------
Pool == [cap : Nat, gen : Nat, key : Keys, midstate : Keys,
         graph : [bucket : Nat, gen : Nat, job : Jobs \cup {NoJob}], gateCount : 0..MostSlots,
         lastPassed : 0..MostSlots, inFlight : BOOLEAN, prefetched : BOOLEAN,
         pendingNext : BOOLEAN, nextStart : Nat, nextBatch : 0..Largest(LaunchSizes)]
HitOf == [index : Tag, from : SUBSET Tag, by : Nat]
Report == [start : Nat, size : Nat, hits : SUBSET HitOf, ran : BOOLEAN, last : BOOLEAN]
Kernels == [by : Nat, active : 0..MostSlots, live : BOOLEAN, read : BOOLEAN,
            seeds : [Slots -> Tag]]
History == [exact : BOOLEAN, ran : BOOLEAN, orphan : BOOLEAN, lost : BOOLEAN,
            strayed : BOOLEAN, errors : 0..MaxErrors]

TypeOK ==
    /\ pc \in {"idle", "loop", "issue", "legacy", "gate", "process", "prefetch",
               "tail", "finalize"}
    /\ call \in [job : Jobs \cup {NoJob}, launch : 1..Largest(LaunchSizes),
                 start : Nat, count : Nat]
    /\ cur \in Nat /\ rem \in Nat /\ solves \in 0..MaxSolves
    /\ pending \in [on : BOOLEAN, start : Nat, size : Nat]
    /\ found \subseteq HitOf
    /\ reported \in Seq(Report)
    /\ pool \in Pool
    /\ {batched.cap, batched.room, batched.graph} \subseteq Nat
    /\ gateBuf \in [Slots -> Tag]
    /\ results \in [Slots -> [by : Nat, from : SUBSET Tag]]
    /\ stream \in Seq(Kernels)
    /\ asked \in [job : Jobs \cup {NoJob}, start : Nat, size : Nat, exact : BOOLEAN]
    /\ own \in History

\* A prefetched gate is consumed only by the batch it was run for, whatever
\* call broke off before: a flag that outlived its call would pair the
\* nonces of one job with the gate of another.
PrefetchIsForThisBatch ==
    pc = "gate" /\ pool.prefetched =>
        asked.job = call.job /\ asked.start = cur /\ asked.size = Batch

\* Between two calls nothing is flagged, and nothing runs on the device
\* except kernels whose launch failed after they were enqueued or whose end
\* the device refused to wait for: the next call comes from another thread
\* and may free the buffers they use.
IdleIsQuiet ==
    pc = "idle" =>
        /\ ~pool.inFlight /\ ~pool.prefetched /\ ~pool.pendingNext
        /\ stream # <<>> => own.orphan

\* Batches are reported in order, without a gap or a repetition, and when
\* the call returns all the nonces it will count have been reported, unless
\* a collect failed.
EveryBatchReportedOnce ==
    /\ \A k \in 1..Len(reported) :
          reported[k].start = IF k = 1 THEN call.start
                              ELSE reported[k - 1].start + reported[k - 1].size
    /\ pc = "idle" /\ cur # call.start /\ ~own.lost =>
          /\ reported # <<>>
          /\ Last(reported).start + Last(reported).size = cur

\* No call of the runtime has failed, no kernel strayed, and the
\* launch pool was not replaced: a failure and a replacement may leave a job
\* without its midstates (lines 2466 and 2948), and the pipeline does not
\* notice until the next job.
Undisturbed == own.errors = 0 /\ ~own.strayed /\ pool.gen <= 1

\* The cached gate is that of the job: no other job shares its key.
KeyIsUnique == \A j \in Jobs : Key[j] = Key[call.job] => j = call.job

\* A batch whose kernels ran is reported with the results they wrote, never
\* with those an earlier batch left in the buffer.  (When a kernel strayed,
\* nothing can be said of the results.)
ReportsItsOwnResults ==
    \A k \in 1..Len(reported) : reported[k].ran /\ ~own.strayed =>
        \A h \in reported[k].hits : h.by = reported[k].start

\* The batch after which no other gate ran, if its own gate scanned its range
\* and its kernels ran undisturbed, is reported exactly: every hit carries the
\* index of the nonce of this job it was computed from.
LastBatchIsExact ==
    \A k \in 1..Len(reported) :
        Undisturbed /\ KeyIsUnique /\ reported[k].ran /\ reported[k].last =>
            LET t == [job |-> call.job, start |-> reported[k].start]
            IN  \A h \in reported[k].hits : h.index = t /\ h.from = {t}

\* Every call returns: no wait of the host is for an event that cannot come.
SolveReturns == pc # "idle" ~> pc = "idle"

\* The assertion of the test: a call for one nonce reports this nonce, from
\* its own seeds (test_cuda_pow.cpp).  With one nonce per call SolveOnDevice
\* makes the calls of CudaVerifyAgainstCpu.
GpuAgreesWithCpu ==
    \A k \in 1..Len(reported) :
        LET t == [job |-> call.job, start |-> reported[k].start]
        IN  \E h \in reported[k].hits : h.index = t /\ h.from = {t}

\* The comment in the launch: the transcript path reuses the seeds and sigma
\* the gate left on the device.  Then a result the kernels of the batch wrote
\* goes to the index its inputs belong to.
ReusesItsGateData ==
    \A k \in 1..Len(reported) : reported[k].ran =>
        \A h \in reported[k].hits : h.from = {h.index}
=============================================================================
