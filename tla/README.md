# TLA+ models of btx-nvidia-miner

The miner connects to a mining pool over a line-based JSON protocol (stratum),
takes jobs from it, tries nonces on the GPUs, confirms every GPU hit on the CPU
and submits it as a share. This directory holds TLA+ models of the parts of it
that are hard to test, the TLC configurations that check them on small
instances, and proofs, checked by TLAPS, of what matters most.

Paths below are relative to the repository's `src/`; `SC` stands for
`stratum/stratum_client.cpp`, `SP` for `stratum/stratum_protocol.cpp`, `CS` for
`cuda/cuda_solver.cpp`, `MK` for `cuda/matmul_kernel.cu`, `MP` for
`pow/matmul_pow.cpp`, `UP` for `common/updater.cpp`.

## 1. The system

### Components

| Component | State | Operations | Interacts with |
|---|---|---|---|
| Session lifecycle (`SC`: `run_forever`, `begin_session`, `end_session`, the three loops) | `running`, `session_ended`, `rotate_pool_on_reconnect`, `endpoint_index`, `update_restart_requested`, the socket, `subscribed`, `authorized`, `auth_error` under `handshake_mutex`, three `std::thread` objects | connect, subscribe, authorize, join, back off, end a session, choose the next pool | the pool; reader, solver and metrics thread |
| Job and nonce cursor (`SC`: `handle_notify`, `solver_loop`) | `current_job`, `has_job`, `local_nonce_cursor` under `job_mutex`; the solver's copies of them | take a notify, start a slice, adopt a job in a slice, store the cursor | reader writes, solver reads and writes; reset between sessions |
| Shares and verdicts (`SC`: `submit_share`, `dispatch_line`; `SP`: `ParseRpcResult`) | `submit_id`, `pending_submit_ids`, three counters, the authorization flags | allocate an id, send, withdraw, match an answer | solver submits, reader settles, pool answers |
| GPU batch pipeline (`CS`: `SolveOnDevice`; host side of `MK`) | a `DeviceLaunchPool` and a `BatchedMatMulPool` per device: buffers, graphs, flags; two streams | issue, gate, process, prefetch, collect, finalize | one host thread per call and device; the device's two streams |
| Field arithmetic (`pow/field.cpp`, the device copies in `MK`) | none but an accumulator | reduce, add, multiply, dot product | reference and kernels |
| Proof-of-work reference (`MP`, `pow/matrix.cpp`, `pow/noise.cpp`) | none | `VerifySolution` | called for every GPU hit, and by the CPU search |
| Proof-of-work kernels (`MK`, `cuda/gpu_sha256.cu`) | buffers of the pipeline | gate, matrices and noise, words, digest | launched by the pipeline |
| Work split and launch sizes (`CS`, `cuda/hashrate.cpp`) | the solutions of a call; the threads' parts | select devices, choose a launch size and a chunk, partition over devices or threads, merge | called by the solver, calls the pipeline |
| Updater (`UP`, `main.cpp`) | the executable; archive, unpacked and staged file in the update directory | check, download, unpack, stage, rename, relaunch | metrics thread, main; other miners with the same home directory |
| Message parsing, statistics, hardware information, developer fee, command line, transcript, SHA-256 | little or none | | |

`solo/` and `common/work_dispatcher.cpp` are placeholders without code.
PROJECT.json lists every component with its sources and says of those that are
not modelled why not.

### What is hard

* **Threads of a session.** Four threads share one socket and a handful of
  atomic flags; any of the three workers, or main, may be the one that ends a
  session, at any time, also in the middle of the handshake. `join` makes main
  wait for threads that must notice the end by themselves.
* **The solver's critical sections.** A slice takes `job_mutex` at five places
  and works on copies in between; a notify may fall between any two.
* **A lock held across a join.** `begin_session` joins the reader, on two of its
  error paths, while it holds the lock the reader may be waiting for.
* **Answers.** They are matched with shares by looking for the id in the text;
  they may come late, out of order, before the share is counted, or never.
* **GPU.** One batch is on the device while the next is prepared; two streams
  use the same buffers without ordering; CUDA graphs keep what was current when
  they were captured; each call of the runtime may fail.
* **Numbers.** Products are summed in 64 bits and folded lazily; the kernels
  leave out the last subtraction of the CPU; zero and rejected candidates are
  rare.
* **Files.** An update goes through four files and two programs; any step may
  fail, the process may be killed, another miner may be doing the same.
* **Two implementations.** A share is sent only if kernel and CPU agree.

PROJECT.json `hazards` lists the places, with the properties that watch them.

### What makes it correct

* Sessions: one at a time, nothing of the last one left when the next begins;
  a lost or silent pool is left, every configured pool is tried.
* Jobs: a share is verified for the job it is sent under; each job's nonces are
  tried once and without gaps; the newest job is taken up.
* Shares: the counters are the pool's verdicts, no id is lost.
* Pipeline: each batch is reported once, with its own results, and every call
  returns.
* Work split: the parts of a range are disjoint and cover it, no solution is
  lost but those a failed device had not come to.
* Updates: the executable is always a whole release, and an installed release is
  the one that the next start runs.
* Words: exact in the field on both sides; the gate compares sigma with the
  scaled target; both sides accept the same nonces.

## 2. Modules

| Module | What it is |
|---|---|
| `SessionLifecycle` | main and the three workers, step by step |
| `ReconnectingClient` | abstract specification: a sequential client that serves one endpoint after the other |
| `SessionRefinement` | the mapping from the first to the second |
| `SessionProofs` | TLAPS proofs about the three |
| `NonceCursor` | job, cursor and the solver's critical sections |
| `ShareLedger` | rpc ids, pending shares, counters |
| `GpuPipeline` | `SolveOnDevice` and the launch, collect and finalize calls |
| `Field`, `FieldDot` | reduction and dot products |
| `MatMulWords` | the compressed words of a nonce, computed in five ways |
| `PowTrial` | one nonce of one job, from the notify's fields to the verdicts of the CPU and of the kernels |
| `PowTrialProofs` | TLAPS proofs about `FieldDot`, `MatMulWords` and `PowTrial` |
| `NaturalLemmas` | induction, recursive functions over an interval, powers of two: lemmas for `WorkSplitProofs` and `PowTrialProofs` |
| `WorkSplit` | one call of `SolveBatchCuda`: devices, launch sizes, parts, merge |
| `Updater` | `CheckForUpdate`, `InstallUpdate` and the relaunch on the file system, for several miners |
| `NonceCursorProofs`, `ShareLedgerProofs`, `UpdaterProofs`, `GpuPipelineProofs`, `WorkSplitProofs` | TLAPS proofs about the module of the same name |
| `MC...` | instances for TLC |

### SessionLifecycle

`mainPc` is the place of `run_forever`/`begin_session`, `pc[w]` that of a worker
(`"none"`: its thread object is not joinable; `"done"`: it has returned and waits
for its join). A step is a point where threads interact: an atomic flag, a lock, a
call on the socket. `endCall`/`ending` are `end_session` before and after the
`exchange` on `session_ended`; closing the socket and the decision to rotate
belong to the winner. Timers are not counted: a wait of 30 s, a nap or 300 polls
may end at any moment after it began. `dispatch_line` tests `subscribed` or
`authorized`, and only then takes `handshake_mutex`: the reader's places
`greeted`, `granted` and `refused` are those in front of the lock, and
`lockedJoin` is main in `join_session_threads` with the lock held. The pool may
answer, refuse, stay silent or drop; `link` is its end of the connection. `stop()`
is left out: only the destructor calls it, after `run_forever` has returned.
`SolverThrows` is the catch-all of `solver_loop`, which ends the thread and not
the session.

`ReconnectingClient` says the same without threads and flags: phases idle,
dialing, session, draining; workers are enlisted, leave while the session drains
(only the solver may vanish from an open one), and the client dials again, the
same endpoint or the next, when nobody is left.

### NonceCursor

One action per critical section of `solver_loop`: read the job, pick the start,
take the snapshot, decide to go on, adopt a newer job, hash, report, store the
cursor. A job is its id, parent, `clean_jobs`, start nonce, whether it can be
converted, and, as history, the session it came in. `SolveBatchCuda` may miss a
nonce and may report a wrong one; `VerifySolution` accepts the pairs in
`Winners`. `hashed` and `submitted` are history.

### ShareLedger

`submit_share` in three steps (allocate the id and put it in the queue; send, or
find the socket closed, or throw and withdraw; count) and `dispatch_line` in one
per line, with the order of its tests: first the authorization, then the first
pending id the answer matches. `MatchesRpcId` is the substring search of
`ParseRpcResult`: an answer with id *i* matches *j* when the digits of *i* begin
with those of *j*. Ids outlive the session, unread answers do not.

### GpuPipeline

Host steps follow the loop of `SolveOnDevice`: collect the batch in flight,
announce the next, make room, gate (prefetched or not), process, prefetch,
finalize. Data is provenance: a slot of the `d_passed_*` buffers holds the job
and the first nonce of the gate that wrote it, a result the slots it was
computed from. The matmul stream is a queue whose head first reads seeds and
later writes results; the host waits for it where the code does (events,
synchronous copies on the null stream). Graphs keep the generation of the
buffers they were captured with. Up to `MaxErrors` calls may fail, any of them,
the waits of `CudaFinalizeTranscriptPipeline` included, which the code does not
look at: the flags are cleared and the kernels go on.

The pools have the sizes the code gives them. `pool.cap` is the largest batch
launched so far, `batched.cap` the bucket that the batched kernels always run on,
and `batched.room` the number of passed nonces for which seeds, midstates, digests
and results were allocated, which is that of the batch the pool was made for. A
gate that captures its graph scans its bucket from nonce 0. A kernel that runs
over the end of its buffers (`Overruns`, `GateStrays`), or writes through the
pointers of a graph whose buffers have been replaced, does damage: any subset of
the slots the gate filled, the job's midstates, and results and kernels under
way. Not among what may be damaged are the copies of the targets on the device,
which no later step tells from another target, the number of passed nonces,
which the host reads before the kernels start, and the driver's own structures;
an error that the runtime reports at every later call after an illegal access is
a failing call.

`Key` gives what `PackedJobKey` holds of a job: it leaves out the seeds, n, b, r
and whether the median time was sent. Jobs with equal keys are taken for
one another, midstates, graph and parameters; a call of the new job with the
buffers of other dimensions is not modelled.

What the model shows about the code, besides the checked properties:

* The batched pool is made for a bucket (`MK` 2343), its seeds, midstates, digests
  and results for the first batch only (2352-2356, 2367-2368), and the kernels
  run on the bucket: unless that batch filled the bucket, every batch overruns
  them, and one with more passed nonces reports what lies behind them.
* The gate that is captured, at the second batch of a job, scans the nonces from 0
  on, since `EnsureGateGraph` (2895-2904) sets the start and the count of the
  batch anew; the nonces of the batch are not tried, and its hits are reported
  under wrong ones.
* A launch pool that grows loses the job's midstates (2466) and keeps the flag that
  says they are there: the gates of the job work on garbage until it changes.
* After a failed wait in `CudaFinalizeTranscriptPipeline` (3188) nothing remembers
  the kernels under way. `IdleIsQuiet` says that these and kernels whose event
  could not be recorded (3306) are the only ones left behind.

### Field, FieldDot, MatMulWords, PowTrial

Sizes are scaled: 2^31 is `Modulus + 1` and 2^64 is `4 * (Modulus + 1)^2`, which
keeps the ratio that the interval of four terms depends on. `FieldDot` runs the
loops of `ScalarDot` and `d_dot` beside the exact sum. `MatMulWords` has the
words of the CPU, of the batched kernels (half-finished reductions, shuffles
within a warp, unrolled loops), of the stepwise and the factored kernel for
older jobs, and, as the reference definition, in exact arithmetic.

`PowTrial` takes a nonce through both sides, beginning with the block target that
`StratumJobToPowJob` unpacks from nBits. SHA-256 is not computed: a `draw`
says, for each kind of seeds, what sigma and digest come out, and for each matrix
element which candidates the oracle offers; other words than the exact ones give
another digest. Numbers are sequences of digits with the byte orders of the code
(targets least significant first, sigma most significant first).

### WorkSplit

One call: the active devices in the order they were requested, a launch batch
for each (requested, or the result of the binary search over what fits in the
memory that is free), the parts of the range, threads that search their parts
and merge. Without devices the parts are those of the CPU threads, which append
each solution at once. A device's launches are single steps here, since
`GpuPipeline` has what happens in them; a launch may fail, which ends that part.
The search is a function of the turn (`Bracket`), each turn of its loop the operator
`Turn`; all functions of the machine take it as an argument, so that they can be
reasoned about apart from the state.
Memory is counted in small units with the shape of `LaunchBatchBytes`: so much per
nonce for the gate, so much per nonce that is expected to pass it, and a
workspace. The cap per device, a table over the card's total memory, is a
constant function. The chunk that main recommends at the start is resolved with
the memory that is free then, the launches of a call with what is left later.
That product is an int: a requested batch of 100 million nonces overflows it with
six devices, and the chunk is then the smallest one. The model wraps at `IntWidth`;
`EveryGpuIsFed` is about products that fit.

### Updater

A file is absent, torn or a whole release. A miner goes through `InstallUpdate`
one file operation at a time; each may fail, and the process may die between any
two and be started again over what is left. Scratch files are shared by the
miners of one home directory. `exe[0]` is the executable, `exe[1]` the file that
has its name with ` (deleted)` appended: that is what `/proc/self/exe` reads as
once the file a process runs has been replaced, and so what `InstallUpdate`
writes and `ReexecCurrentProcess` runs from then on. A writer keeps its open file
through another miner's rename (`writes`). The backup is left out: nothing reads
it and its errors are ignored.

What the model shows about the code, besides the checked properties:

* Two miners that install at the same time can leave a torn executable, because
  one renames the staged file the other is writing: the updater's files have fixed
  names and no lock. The properties exclude overlapping installations (history
  variable `overlapped`).
* The relaunch after an update at the start (`main.cpp:231`) names the file
  with ` (deleted)`, which nearly always does not exist: the process ends with
  127 and the new release waits for the next start by hand.
* A failed `--auto-update` at the start ends the miner with exit code 0
  (`main.cpp:227`) instead of mining.
* A miner that was updated while mining keeps its version, finds the same
  release again and installs it once more, to the name with ` (deleted)`.

## 3. Runs

Twelve configurations; PROJECT.json names the properties and a mutant of the code
that each of them catches.

| Run | Shows |
|---|---|
| `session_safety` | three endpoints, updates on: the safety properties of sessions, the refinement with its fairness, and that lost or idle pools are left and all pools tried, unless the handshake lock stops the client |
| `session_update` (violation) | an update installed in a session never reaches the restart in `main.cpp:441-453` |
| `session_deadlock` (violation) | main joins the reader with `handshake_mutex` held, the reader waits for it: a lost pool is never dialled again |
| `cursor` | three jobs over two sessions, at any point of a slice |
| `ledger_safety` | two sessions, lost connections, failing sends, answers in any order, colliding ids |
| `ledger_matching` (violation) | the answer to share 20 is taken for that of `mining.authorize` |
| `gpu_pipeline` | two calls over three jobs, buckets of two, the gate may reject, one CUDA call fails: the control of the pipeline, what the reports hold as long as no kernel has run over its buffers, and that every call returns |
| `gpu_selftest` (violation) | the first batch of a target reports what was in the buffer: its kernels are captured, not launched |
| `gpu_attribution` (violation) | the prefetched gate overwrites the slots of the batch in flight |
| `search` | three subjects without common state: nonces on the CPU and the kernels (sigma, targets, nBits, digests, matrices of two shapes), dot products of any length, calls split over devices or threads |
| `pow_reference` (violation) | V2 jobs without `parent_mtp`: gate kernel and reference use different seeds |
| `updater` | two miners, three releases, failing file operations and crashes |

The violations are disagreements between the code and what one of its documents,
comments or tests says; PROJECT.json `findings` quotes them. What they mean for
a miner: after an update has been installed by the metrics thread it goes on
with the old binary; when the pool's answer to the subscription comes just as
the 30 s are over, or a second answer follows a rejected authorization, it may
hang for ever with all threads alive; a share (id 20, or 2xx) may stay pending until the
authorization has been answered, and verdicts may be credited to another share's
id; some GPU hits are lost, because the CPU check, which is right, rejects what
the pipeline reports under a wrong nonce or with wrong seeds, and kernels that
run past their buffers may spoil other data of the device. No wrong share is
ever sent: `SubmittedIsVerified`.

### Bounds, and why they are enough

* `session_safety`: 3 endpoints, so that "the next one" differs from "the other
  one". No other bound: the number of sessions is unlimited.
  `session_update` and `session_deadlock` need one endpoint only.
* `cursor`: `MaxJobs` 3 (a job can be adopted, left for another parent and
  refreshed), `MaxSessions` 2, chunks of 2 in slices of 3 (the last chunk of a
  slice is cut), `MaxNonce` 4 and `NonceSpace` 7 (a slice end wraps). `Offers`
  leaves out combinations that the code treats alike, such as `clean_jobs` for a
  job without a parent.
* `ledger_safety`: ids in base 3 up to 9, so that prefix collisions occur within
  one digit more (2 and 6, 3 and 9) as they do in base 10 from 20 on; 3 pending
  ids, 2 sessions. `ledger_matching` uses base 10 itself.
* `gpu_pipeline`: calls of 1 to 3 nonces in batches of up to 2, smallest bucket 2:
  a short last batch behind a full one, the gate of one run while the kernels of
  the other are under way; a batch of one that is padded, a batched pool made for one
  passed nonce and used for two, a gate that scans more than its batch when it is
  captured; a pool that grows between calls, and a second call after one that
  failed; jobs with new targets, same targets, and below the V2 height.
  `MaxSolves` 2 bounds the calls and `MaxErrors` 1 the CUDA calls that fail, in
  either; the theorems are for any number of both, and for jobs with equal keys.
* `search`, nonces: numbers of 3 digits of 2 bits, nBits of 2 digits and every
  size from 0 to one too many, shifts up to more than the width, 2 lanes and 4
  warps (two levels of shuffles across warps), jobs without a block target with
  small share targets, shapes 8/2/5 (size, block and rank: four blocks per row, a
  rank above the reduction interval; below the V2 height it takes the factored
  path) and 5/1/4 (an odd number of blocks: the stepwise path). For all other
  sizes and matrices there are the theorems. Dot products: Modulus 31, the
  smallest Mersenne number for which products of edge elements behave as for 2^31
  - 1; the theorem covers every modulus. Calls: three devices with two caps and
  memory from too little for the smallest launch to more than the cap needs,
  requested lists with an absent device and another order, a requested batch whose
  chunk overflows, ranges of 1 to 9 nonces (fewer than threads, and not
  divisible); calls with the recommended chunk are dispatched, but not carried out
  (`CarriedOut`).
* `updater`: `MaxVersion` 3, so that a miner which was updated while mining can
  install again and another be relaunched from what it wrote; `MaxStarts` 3
  starts by hand, so that a miner that died is followed by another; the miners
  are symmetric.

`CHECK_DEADLOCK FALSE` appears where the system stops by design (a bounded number
of GPU calls, of starts by hand, one trial or call), and in the runs of
`SessionLifecycle`: there the code does stop, with main and the reader waiting
for each other. `OnlyTheLockKeepsPoolLost`, `EveryPoolIsTried` and
`ImplementsProgress` name that state (`Deadlocked`) as the only exception, and
`session_deadlock` is the run that shows it.

### Fairness

`SessionLifecycle`: the operating system schedules the threads and every timer
goes off, so main, each worker's own steps and `end_session` once called are
weakly fair. Nothing is assumed of the pool, and an exception is never required:
the solver's slice ends by itself or by throwing. `NonceCursor`: the solver is
scheduled; the properties allow it to have died. `GpuPipeline`: host thread and
device make progress. A thread that waits for a lock gets it when it is free.
`ShareLedger`, `FieldDot`, `PowTrial`, `WorkSplit` and `Updater` have safety
properties only.

## 4. Proofs

All proofs hold for every value of the constants under the named assumptions.

* **SessionProofs.** `TypeCorrect`, and from one inductive invariant
  `WorkersJoined`, `OneCloser`, `NoSocketLeak`, `FailoverRequested`,
  `EndSeenByAll`: each of the safety properties of `session_safety` for any number
  of endpoints (`EndpointsAssumption`: at least one), and two that no run repeats
  (`OneCloser`, `EndSeenByAll`). None of them is inductive by itself. `IInv` adds:
  where each thread can be when main is at a given place (`ThreadsInv`); that
  whoever is between winning `end_session` and closing has set the flag and is
  alone, and that a reader which is done has ended the session (`EndingInv`),
  which is what makes main's join at the end of a session return only for an ended
  one; that an ended session has a closed socket unless its closer is still at
  work (`SocketInv`); and the same for the rotation request, with the exception of
  a metrics thread that ends the session for an update (`RotationInv`).
* **SessionProofs**, the refinement. `Refinement`: `Spec` implements
  `ReconnectingClient!AbsSpec` under `SessionRefinement`'s mapping, initial
  states to initial states and each step to a step or a stutter. It uses `IInv`:
  without it a worker could, for example, be left over when main dials.
* **PowTrialProofs**, dot products. `NoDotProductWraps` and `DotProductsExact`:
  for every `Modulus >= 7` (`ModulusAssumption`) and rows of every length the
  accumulators of `ScalarDot` and `d_dot` never wrap, and their reduction is the
  exact sum. The invariant bounds an accumulator by a folded value plus the
  products added since, and says that it is congruent to the exact sum. That a
  fold preserves congruence is where `Base = Modulus + 1` matters.
* **PowTrialProofs**, words. `CpuComputesExactWords`, `BatchedKernelsAreExact` and
  `LegacyKernelsAreCongruent`: the words of a trial are the exact ones, for every
  shape that `StratumJobToPowJob` lets through, all matrices, noise and weights,
  and every answer of the oracles. Each way of computing a word is a sum over the
  cells of a table in another order, with reductions at other places. The
  lemmas on sums (`SumsSwap`, `SumsFlatten`, `TotalSplits`, `LanesAddUp`) bring
  the orders together, `BlocksAddUp` and `WordIsExact` turn sums over blocks into
  the row-by-column products of the exact matrices, and `Congruent` carries
  the rest through every addition, product and reduction. A product may only be
  used if its dot product does not wrap, which is why the entries of every
  intermediate matrix are bounded too (`Faithful`: at most `Modulus`, one more than
  an element may be). `WarpReduceCorrect` is about the shuffles: halving keeps the
  sum of the lanes that still count, whatever the others hold, if the number of
  lanes is a power of two (`KernelAssumption`).

  The CPU's theorem has no hypothesis. The kernels' have one on the shapes of the
  trials: the rank and the block fit the unrolled loops, a block has no more
  cells than a thread block has threads, and a row of noise (in the factored
  kernel a row of weights too) does not end with three products since the last
  reduction (`FitsKernels`, `FitsFactored`). None of these is tested by the code.
  Without the first two the kernels leave out terms; without the last
  `d_reduce64`, which stops short of a subtraction, can leave an entry
  `Modulus + 1`, and the four products of two rows of such entries no longer fit
  64 bits. The default shape, n = 512, b = 16, r = 8, meets all of them.
* **PowTrialProofs**, verdicts. `NoHitIsThrownAway`: under the same hypotheses on
  shapes, both sides accept the same nonces of a pool's job; if the job has no
  block target, but for those that the kernels alone gate, by the share target
  (`GatedByTheShare`: sigma above 2^epsilon times the share target). The invariant
  `TrialInv` says of each side that its verdict is what gate, words and target
  make of it (`CpuVerdict`, `GpuVerdict`), and that the words are those of the
  draw. With the words equal, what is left is the order of numbers: the kernels
  accept a digest that meets either target, which is the share target's verdict
  only because a comparison of digits from the most significant on is a comparison
  of numbers (`OrderOfNumbers`, for any number and size of digits), so that it is
  transitive. `GateComparesNumbers`: the CPU's gate, which works on digits, bits
  and saturation, compares sigma with 2^epsilon times the number nBits stands for.
  Digits and bits of a number are both places in a power of two (`PlacesAddUp`); a
  shift without overflow multiplies (`ShiftMultiplies`), one with overflow belongs
  to a product of more than `Width` bits (`ShiftOverflows`).
* **NonceCursorProofs.** `TypeCorrect`, `OnlyVerifiedSharesAreSent`,
  `SharesDoNotCrossSessions`, `SearchLeavesNoHoles` and the action property
  `NoWorkIsRepeated`, for any jobs, parents, nonce spaces and chunk sizes with
  `SliceCap >= Chunk` (`ChunkAssumption`). The solver works on copies, so `IInv`
  has to say of each copy, at each place, how it relates to the shared job:
  the converted parameters are those of the snapshot (`JobInv`), the snapshot is
  of this session (`SessionInv`), and, the key to gaps and repetitions,
  every cursor in use, shared or copied, is where the tried nonces of the job end
  (`CursorInv`).
* **ShareLedgerProofs.** `TypeCorrect`, `IdsAreAccountedFor`,
  `VerdictsAreNotInvented`, and, for ids that no other id begins with,
  `VerdictsAreCounted`. `Powers`, the powers of the base in which ids are
  written, is a constant, as a prefix test needs nothing else of a number; the
  proofs hold for every set of them that has 1 (`LedgerAssumption`). That a
  counter is not larger than what the pool has said is inductive only together
  with the answers still under way (`CreditInv`); that every verdict is counted
  needs that whatever the pool knows of, or has answered, is pending, and that it
  answers once (`Traceable`). The pending queue is handled by facts about
  removing one of its elements, proved for all sequences.
* **UpdaterProofs.** `TypeCorrect`, `ExecutableIsWhole`, `UpdateIsInstalled`: for
  any number of miners and releases, as long as no two install at the same time.
  `IInv` follows the release through archive, unpacked and staged file
  (`FilesAreWhole`), says which release a process runs and which its target held
  (`RunsRelease`), and that one miner at most installs (`OneInstaller`).
* **GpuPipelineProofs.** Every safety invariant of `gpu_pipeline`:
  `TypeCorrect`, `NothingIsLeftBehind`, `PrefetchIsUsedRight`,
  `BatchesAreReportedOnce`, `ReportsAreOfTheirBatch`, `LastReportIsExact`, for any
  jobs, counts and launch sizes (bounded, as ints are: `PipelineAssumption`), any
  number of calls and of failing CUDA calls, the waits of `Finalize` among them,
  and whatever damage kernels do that run over their buffers. The control (the
  first four) holds in spite of the damage, which reaches data only (`Damage`,
  `PoolDamage`). The two about reports are for executions without it
  (`own.strayed`), since after it nothing can be said; and exactness
  (`Undisturbed`, `KeyIsUnique`) also for those in which no call failed, the
  launch pool was not replaced and no other job has the same key: the code breaks
  it in each of these cases, as the hazards say. The invariant has a part for each thing
  the loop relies on without testing it: which flags may be set where
  (`ControlInv`), that what is on the stream is in flight or was orphaned by an
  error (`StreamIsWaitedFor`), that reported and pending batches form a chain up
  to the current nonce (`ReportInv`), that the gate that runs ahead is for the
  batch the loop comes to next (`PrefetchInv`), that the last kernels of the
  stream or the results belong to the batch under way (`ResultsInv`), that graphs
  and midstates are those of the pool's buffers (`PoolInv`), and where the data of
  slots, kernels and results comes from while no later gate has written over it
  (`ExactInv`).
* **WorkSplitProofs.** `LaunchesFillTheMemory`: the binary search of
  `AutoBatchSizeForDevice` finds the largest launch that fits, for all caps,
  sizes and kinds of jobs. It is exact because the memory of a launch never falls
  with its size (`SizeGrows`), although the slots for passing nonces are counted
  in powers of two and have a minimum; `Narrowed` is what a turn of the loop
  keeps, and each turn shrinks what is left, so that `cap` turns are enough.
  `CallReturnsWhatWasPassed`: for any number of devices or threads and any
  range the parts overlap nowhere and leave nothing out, and the call returns
  every solution that was passed (`DivisionInv`, `SolutionInv`: a solution that a
  thread has passed is with the thread until it is with the call).
  `RecommendedChunkFeedsAll`: of a chunk of the recommended size every device
  gets four full launches, for any devices, under two hypotheses that the code
  does not guarantee and `EveryGpuIsFed` needs: the product fits an int, and no
  device has more free memory at the call than at the start
  (`MemoryIsOnlyTaken`; the instances of `search` are of this kind too). The
  machine has to be described sensibly (`RigAssumption`): device numbers and
  memory sizes are natural numbers.

Each inductive invariant was model-checked on the instance of its component's run
before it was proved (`TrialInv` on a part of the trials).

Where an argument needs induction over natural numbers, the proofs take it from
the well-foundedness of `<` for sets (`LeastNatural`, `InductionOverNat`), and the
existence of a function defined by recursion over an interval from
`IterationExists`; both are in `NaturalLemmas`, with `RecursionUnfolds`, which
gives the values of a sum, an accumulator or a reduction turn by turn.

Every invariant and every action property of the passing runs is proved; checked
by TLC only are the liveness properties, which are beyond TLAPS:
`LatestJobIsTakenUp` (`NonceCursor`), `SolveReturns` (`GpuPipeline`),
`OnlyTheLockKeepsPoolLost`, `PoolWithoutWorkIsLeft`, `EveryPoolIsTried` and the
fairness part of the refinement, `ImplementsProgress` (`SessionLifecycle`). That a
property is violated, in the other runs, is TLC's counterexample.

## 5. What is not modelled

* `stop()`, the solution callback, logging, the statistics.
* SHA-256, the layout of hashed messages, and the parsing of lines.
* The contents of buffers beyond their provenance, the matrix cache, jobs of one
  device that differ in n, b or r (the batched pool and its graph are not made
  anew for them), scheduling of threads within a kernel.
* `close_socket` is one step, although main and a worker may run it at the same
  time; splitting it needs descriptor numbers.
* A chunk handed to `SolveBatchCuda` counts as tried in `NonceCursor`, although
  a failing device may leave some of it out, as `WorkSplit` shows.
* A device that is requested twice (`--devices 0,0`): two host threads would use
  one launch pool. `GpuPipeline` has one host thread per device.
* Sums of nonces that wrap at 2^64 within a call: `solver_loop` wraps the end of
  the slice first and then calls nothing (`NonceCursor`).
* The table of caps (`AutoBatchCapForDevice`): its line for 32 GiB and more, "16M
  for high VRAM like 5090", comes after a test for 28 GiB and is never reached.
* The answer of the release server and its parsing (`UP` 149-164): which asset's
  address is taken depends on the order of the server's fields.
* The developer fee: a pure function of the slice's number, whose count begins
  again with each session, so that every reconnect begins with the developer's
  slices; the fee is rounded to whole slices of a hundred and is at least one.
* `NeonDot`, which folds like `ScalarDot`; `sub`, `neg`, `inv`; the running
  transcript, which only tests use.

## 6. Plan

Order of the plan, most important behaviour first; what is left begins with 9.

1. `SessionLifecycle` with its abstract client, refinement and proofs.
2. `NonceCursor`.
3. `ShareLedger`.
4. `GpuPipeline`.
5. `Field`, `FieldDot`, `MatMulWords`, `PowTrial`.
6. `WorkSplit`.
7. `Updater`.
8. Proofs: every safety property of the modules above.
9. `Descriptors`: `close_socket` and `send_line` split into steps, with
   descriptor numbers that the system reuses.
10. `ClientSystem`: `SessionLifecycle`, `NonceCursor` and `ShareLedger` composed,
    instead of each one's own abstraction of the others.
