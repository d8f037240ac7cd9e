---------------------------- MODULE NonceCursor ----------------------------
(***************************************************************************)
(* The job and the nonce cursor that the reader (handle_notify) and the    *)
(* solver (solver_loop) share under job_mutex.  The solver takes the lock  *)
(* at five places of a slice and works on copies in between, so that a job *)
(* may arrive between any two of them; each such place is an action here.  *)
(*                                                                         *)
(* A job stands for its job_id (issued in order by the pool), its parent   *)
(* (prev_hash), clean_jobs, nonce64_start, whether StratumJobToPowJob can  *)
(* convert it, and the session it was sent in.                             *)
(***************************************************************************)
EXTENDS Integers, FiniteSets

CONSTANTS
    NonceSpace,     \* 2^64: nonces are uint64_t
    Chunk,          \* nonces per SolveBatchCuda call
    SliceCap,       \* max(nonces_per_slice, chunk)
    Parents,        \* block hashes jobs may build on
    NoParent,       \* the empty prev_hash, which matches no other
    Offers,         \* what a notify may carry: parent, clean, start, complete
    Winners,        \* pairs of a job and a nonce that VerifySolution accepts
    MaxJobs,        \* bound: notifies the pool sends
    MaxNonce,       \* bound: the solver starts no chunk here or above
    MaxSessions     \* bound: sessions

ASSUME ChunkAssumption ==
    /\ NonceSpace \in Nat \ {0}
    /\ Chunk \in Nat \ {0}
    /\ SliceCap \in Nat /\ SliceCap >= Chunk
    /\ NoParent \in Parents
    /\ Offers \subseteq [parent : Parents, clean : BOOLEAN,
                         start : 0 .. (NonceSpace - 1), complete : BOOLEAN]

Nonces == 0 .. (NonceSpace - 1)

JobSpace == [id : Nat, parent : Parents, clean : BOOLEAN, start : Nonces,
             complete : BOOLEAN, session : Nat]

VARIABLES
    hasJob, currentJob,  \* Impl::has_job, Impl::current_job
    nonceCursor,         \* Impl::local_nonce_cursor
    ended,               \* Impl::session_ended
    pc,                  \* where solver_loop is
    jobCopy,             \* its local job
    cursor, sliceEnd,    \* its local cursor and slice_end
    snap,                \* its local snap; cached_job_id and cached_prev_hash too
    pow,                 \* the job its local pjob was converted from
    hits,                \* solutions of the last chunk still to be handled
    session,             \* which session this is
    issued,              \* the last job the pool has sent
    hashed,              \* history: pairs of a job and a nonce that were tried
    submitted            \* history: shares given to submit_share

shared == <<hasJob, currentJob, nonceCursor>>
local == <<jobCopy, cursor, sliceEnd, snap, pow, hits>>
pool == <<session, issued>>
history == <<hashed, submitted>>
vars == <<shared, ended, pc, local, pool, history>>

NoJob == [id |-> 0, parent |-> NoParent, clean |-> FALSE, start |-> 0,
          complete |-> FALSE, session |-> 0]

TypeOK ==
    /\ hasJob \in BOOLEAN
    /\ currentJob \in JobSpace
    /\ nonceCursor \in Nonces
    /\ ended \in BOOLEAN
    /\ pc \in {"poll", "start", "snap", "test", "solve", "report", "store",
               "done"}
    /\ jobCopy \in JobSpace
    /\ cursor \in Nonces
    /\ sliceEnd \in Nonces
    /\ snap \in JobSpace
    /\ pow \in Nat
    /\ hits \subseteq Nonces
    /\ session \in Nat \ {0}
    /\ issued \in JobSpace
    /\ hashed \subseteq Nat \X Nonces
    /\ submitted \subseteq [job : Nat, nonce : Nonces, sentIn : Nat,
                            jobFrom : Nat]

Init ==
    /\ hasJob = FALSE
    /\ currentJob = NoJob
    /\ nonceCursor = 0
    /\ ended = FALSE
    /\ pc = "poll"
    /\ jobCopy = NoJob
    /\ cursor = 0
    /\ sliceEnd = 0
    /\ snap = NoJob
    /\ pow = 0
    /\ hits = {}
    /\ session = 1
    /\ issued = NoJob
    /\ hashed = {}
    /\ submitted = {}

(* Definitions marked "Mutation" are bugs that the definition below them could *)
(* have; the specification does not use them.                                  *)

\* Mutation: the stored nonce is taken for the last one tried, or the next but one.
ResumesOneEarly(job) == IF nonceCursor > 1 THEN nonceCursor - 1 ELSE job.start
ResumesOneLate(job) == IF nonceCursor # 0 THEN nonceCursor + 1 ELSE job.start
\* The cursor when it is set (0 counts as unset), else the start of the job.
ResumeAt(job) == IF nonceCursor # 0 THEN nonceCursor ELSE job.start

\* Mutation: arithmetic that does not wrap.
PlusUnbounded(nonce, count) == nonce + count
Plus(nonce, count) == (nonce + count) % NonceSpace

-----------------------------------------------------------------------------
(* The reader *)

\* handle_notify: a refresh of the same parent goes on where the miner is; a
\* new parent or clean_jobs moves the cursor to where the pool says.
HandleNotify(job) ==
    LET sameParent == /\ hasJob
                      /\ currentJob.parent # NoParent
                      /\ currentJob.parent = job.parent
    IN  /\ hasJob' = TRUE
        /\ \/ /\ sameParent /\ ~job.clean
              /\ currentJob' = [job EXCEPT !.start = ResumeAt(currentJob)]
              /\ UNCHANGED nonceCursor
           \/ /\ job.clean \/ ~sameParent
              /\ currentJob' = job
              /\ nonceCursor' = job.start

Notify ==
    /\ ~ended
    /\ issued.id < MaxJobs
    /\ \E o \in Offers :
          LET job == [id |-> issued.id + 1, parent |-> o.parent, clean |-> o.clean,
                      start |-> o.start, complete |-> o.complete,
                      session |-> session]
          IN  HandleNotify(job) /\ issued' = job
    /\ UNCHANGED <<ended, pc, local, session, history>>

-----------------------------------------------------------------------------
(* The solver *)

SolverReadsJob ==
    /\ pc = "poll"
    /\ ~ended
    /\ hasJob
    /\ jobCopy' = currentJob
    /\ pc' = "start"
    /\ UNCHANGED <<shared, ended, cursor, sliceEnd, snap, pow, hits, pool, history>>

SolverExits ==
    /\ pc = "poll"
    /\ ended
    /\ pc' = "done"
    /\ UNCHANGED <<shared, ended, local, pool, history>>

SolverPicksStart ==
    /\ pc = "start"
    /\ cursor' = ResumeAt(jobCopy)
    /\ sliceEnd' = Plus(cursor', SliceCap)
    /\ pc' = "snap"
    /\ UNCHANGED <<shared, ended, jobCopy, snap, pow, hits, pool, history>>

\* The slice works on this copy; a job with missing fields is polled again.
SolverTakesSnapshot ==
    /\ pc = "snap"
    /\ snap' = currentJob
    /\ IF currentJob.complete
       THEN pc' = "test" /\ pow' = currentJob.id
       ELSE pc' = "poll" /\ UNCHANGED pow
    /\ UNCHANGED <<shared, ended, jobCopy, cursor, sliceEnd, hits, pool, history>>

\* The cap, the deadline, the end of the session or a new parent.
SliceOver ==
    /\ pc = "test"
    /\ pc' = "poll"
    /\ UNCHANGED <<shared, ended, local, pool, history>>

SliceGoesOn ==
    /\ pc = "test"
    /\ cursor < sliceEnd
    /\ cursor < MaxNonce
    /\ ~ended
    /\ hasJob
    /\ currentJob.parent = snap.parent

\* The same job, or a newer one that cannot be converted yet.
SolverKeepsJob ==
    /\ SliceGoesOn
    /\ currentJob.id = snap.id \/ ~currentJob.complete
    /\ pc' = "solve"
    /\ UNCHANGED <<shared, ended, local, pool, history>>

\* Mutation: the converted job is not replaced with the snapshot.
SolverAdoptsSnapOnly ==
    /\ SliceGoesOn
    /\ currentJob.id # snap.id
    /\ currentJob.complete
    /\ snap' = currentJob
    /\ pc' = "solve"
    /\ UNCHANGED <<shared, ended, jobCopy, cursor, sliceEnd, pow, hits, pool, history>>

\* A newer job of the same parent is adopted in the middle of the slice.
SolverAdoptsJob ==
    /\ SliceGoesOn
    /\ currentJob.id # snap.id
    /\ currentJob.complete
    /\ snap' = currentJob
    /\ pow' = currentJob.id
    /\ pc' = "solve"
    /\ UNCHANGED <<shared, ended, jobCopy, cursor, sliceEnd, hits, pool, history>>

\* this_chunk of them
NextChunk ==
    cursor .. (IF Chunk < sliceEnd - cursor THEN cursor + Chunk - 1
                                            ELSE sliceEnd - 1)

\* SolveBatchCuda reports what it will: it may miss and it may be wrong.
SolverHashes ==
    /\ pc = "solve"
    /\ hits' \in SUBSET NextChunk
    /\ cursor' = Plus(cursor, Cardinality(NextChunk))
    /\ hashed' = hashed \cup ({pow} \X NextChunk)
    /\ pc' = "report"
    /\ UNCHANGED <<shared, ended, jobCopy, sliceEnd, snap, pow, pool, submitted>>

\* VerifySolution on the converted job, submit_share on the snapshot.
SolverReportsHit ==
    /\ pc = "report"
    /\ \E nonce \in hits :
          /\ hits' = hits \ {nonce}
          /\ submitted' =
                IF <<pow, nonce>> \in Winners
                THEN submitted \cup {[job |-> snap.id, nonce |-> nonce,
                                      sentIn |-> session,
                                      jobFrom |-> snap.session]}
                ELSE submitted
    /\ UNCHANGED <<shared, ended, pc, jobCopy, cursor, sliceEnd, snap, pow,
                   pool, hashed>>

\* Mutation: the whole snapshot is written back, not only its nonce.
SolverStoresSnapshot ==
    /\ pc = "report"
    /\ hits = {}
    /\ nonceCursor' = cursor
    /\ currentJob' = [snap EXCEPT !.start = cursor]
    /\ pc' = "test"
    /\ UNCHANGED <<hasJob, ended, local, pool, history>>

SolverStoresCursor ==
    /\ pc = "report"
    /\ hits = {}
    /\ nonceCursor' = cursor
    /\ currentJob' = IF hasJob /\ currentJob.parent = snap.parent
                     THEN [currentJob EXCEPT !.start = cursor]
                     ELSE currentJob
    /\ pc' = "test"
    /\ UNCHANGED <<hasJob, ended, local, pool, history>>

\* An exception (a job that cannot be converted, the GPU, the CPU check) ends
\* the thread; what the chunk or the slice had in hand is lost.
SolverThrows ==
    /\ pc \in {"snap", "test", "solve", "report"}
    /\ pc' = "done"
    /\ UNCHANGED <<shared, ended, local, pool, history>>

-----------------------------------------------------------------------------
(* The session around them, as SessionLifecycle has it *)

SessionEnds ==
    /\ ~ended
    /\ ended' = TRUE
    /\ UNCHANGED <<shared, pc, local, pool, history>>

\* Mutation: the job of the last session is kept.
ResetKeepsJob == nonceCursor' = 0 /\ ended' = FALSE /\ UNCHANGED hasJob
ResetSessionState == nonceCursor' = 0 /\ ended' = FALSE /\ hasJob' = FALSE

\* run_forever resets once the solver has been joined.
NextSession ==
    /\ ended
    /\ pc = "done"
    /\ session < MaxSessions
    /\ ResetSessionState
    /\ session' = session + 1
    /\ pc' = "poll"
    /\ UNCHANGED <<currentJob, local, issued, history>>

Solver ==
    \/ SolverReadsJob \/ SolverExits \/ SolverPicksStart
    \/ SolverTakesSnapshot \/ SliceOver \/ SolverKeepsJob \/ SolverAdoptsJob
    \/ SolverHashes \/ SolverReportsHit \/ SolverStoresCursor \/ SolverThrows

\* Not a step of the code: the bound on sessions has been reached.
Exhausted ==
    /\ pc = "done"
    /\ ended
    /\ session = MaxSessions
    /\ UNCHANGED vars

Next == Notify \/ Solver \/ SessionEnds \/ NextSession \/ Exhausted

Spec == Init /\ [][Next]_vars

\* The solver thread runs; nothing is assumed of the pool.
FairSpec == Spec /\ WF_vars(Solver)

-----------------------------------------------------------------------------
(* Properties *)

\* "Pool shares ... are only submitted when the CPU reference also confirms the
\* digest" (README): confirmed for the very job they are submitted under, even
\* when the solver changes jobs in the middle of a slice.
SubmittedIsVerified ==
    \A share \in submitted : <<share.job, share.nonce>> \in Winners

\* No share goes to a session (and a pool) other than the one whose job it
\* solves.
SharesStayInTheirSession ==
    \A share \in submitted : share.jobFrom = share.sentIn

\* However notifies fall between the solver's critical sections, no nonce is
\* tried twice for one job: hash rate is not spent on work already done and no
\* share is sent twice.
NoNonceHashedTwice ==
    [][pc = "solve" /\ pc' = "report" =>
          hashed \cap ({pow} \X NextChunk) = {}]_vars

\* Nor is one left out: what was tried for a job is an interval.
CoverageHasNoHoles ==
    \A job \in 1 .. MaxJobs :
        \A low, high \in {pair[2] : pair \in {h \in hashed : h[1] = job}} :
            \A n \in low .. high : <<job, n>> \in hashed

\* A solver that lives does not stay behind: again and again it is at the
\* latest job of the session, unless that one cannot be converted.
LatestJobIsTakenUp ==
    []<>(issued.session = session /\ issued.complete /\ ~ended
            => snap.id = issued.id \/ pc = "done")
=============================================================================
