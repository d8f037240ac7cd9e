------------------------- MODULE NonceCursorProofs -------------------------
(***************************************************************************)
(* Proofs about NonceCursor, for every chunk, slice and number of notifies *)
(* and sessions: no notify that falls between the solver's critical        *)
(* sections makes it try a nonce twice for a job, leave one out, or send a *)
(* share that was not verified or belongs to another session.              *)
(***************************************************************************)
EXTENDS NonceCursor, FiniteSetTheorems, TLAPS

\* The nonces tried for a job.
Tried(job) == {n \in Nonces : <<job, n>> \in hashed}

\* next is where the search for the job goes on: right behind what was tried.
Continues(job, next) ==
    Tried(job) # {} =>
        /\ next - 1 \in Tried(job)
        /\ \A n \in Tried(job) : n < next

InSlice == pc \in {"test", "solve", "report"}

\* The shared job is the last one the pool sent.  The solver has none newer,
\* nothing was tried for a newer one than it has, and the job of the converted
\* parameters is that of the snapshot.
JobInv ==
    /\ currentJob.id = issued.id
    /\ pow <= currentJob.id
    /\ \A pair \in hashed : pair[1] <= pow
    /\ InSlice => pow = snap.id

\* While the solver is at work there is a job, of this session, and its snapshot
\* is of this session too.
SessionInv ==
    /\ pc \in {"start", "snap"} \/ InSlice => hasJob
    /\ hasJob => currentJob.session = session
    /\ InSlice => snap.session = session

\* Where the next chunk of the current job begins: the shared cursor, once the
\* solver has stored its own; a cursor of 0 means that nothing was tried.
CursorInv ==
    /\ hasJob /\ pc \in {"poll", "start", "snap", "test", "solve"} =>
          Continues(currentJob.id, nonceCursor)
    /\ pc = "snap" => Continues(currentJob.id, cursor)
    /\ InSlice => Continues(pow, cursor)
    /\ pc = "solve" => cursor < sliceEnd

\* What was tried for a job is an interval.
NoHoles ==
    \A job \in Nat : \A low, high \in Tried(job) : low .. high \subseteq Tried(job)

IInv ==
    /\ TypeOK
    /\ JobInv /\ SessionInv /\ CursorInv /\ NoHoles
    /\ SubmittedIsVerified /\ SharesStayInTheirSession

-----------------------------------------------------------------------------
(* Operators of the model *)

LEMMA ConstantTypes ==
    NonceSpace \in Nat \ {0} /\ Chunk \in Nat \ {0} /\ SliceCap \in Nat
  BY ChunkAssumption

LEMMA NoncesAreNaturals == Nonces \subseteq Nat
  BY ConstantTypes DEF Nonces

LEMMA PlusType ==
    ASSUME NEW nonce \in Nat, NEW count \in Nat
    PROVE  Plus(nonce, count) \in Nonces
  BY ConstantTypes DEF Plus, Nonces

\* Nothing wraps as long as the sum is a nonce.
LEMMA PlusExact ==
    ASSUME NEW nonce \in Nat, NEW count \in Nat, nonce + count < NonceSpace
    PROVE  Plus(nonce, count) = nonce + count
<1> DEFINE sum == nonce + count
           quotient == sum \div NonceSpace
<1>1. /\ quotient \in Int
      /\ sum % NonceSpace \in 0 .. NonceSpace - 1
      /\ sum = NonceSpace * quotient + (sum % NonceSpace)
  BY ConstantTypes
<1>2. quotient >= 1 => NonceSpace * quotient >= NonceSpace
  BY <1>1, ConstantTypes
<1>3. quotient <= -1 => NonceSpace * quotient <= -NonceSpace
  BY <1>1, ConstantTypes
<1>4. quotient = 0 => NonceSpace * quotient = 0
  BY ConstantTypes
<1> QED
  BY <1>1, <1>2, <1>3, <1>4, ConstantTypes DEF Plus

LEMMA ResumeAtType ==
    ASSUME TypeOK, NEW job \in JobSpace
    PROVE  ResumeAt(job) \in Nonces
  BY DEF TypeOK, JobSpace, ResumeAt

\* A chunk is never empty and ends within its slice.
LEMMA ChunkFacts ==
    ASSUME TypeOK, cursor < sliceEnd
    PROVE  \E size \in Nat \ {0} :
              /\ NextChunk = cursor .. cursor + size - 1
              /\ Cardinality(NextChunk) = size
              /\ cursor + size <= sliceEnd
              /\ Plus(cursor, Cardinality(NextChunk)) = cursor + size
              /\ NextChunk \subseteq Nonces
<1> DEFINE size == IF Chunk < sliceEnd - cursor THEN Chunk ELSE sliceEnd - cursor
<1>1. /\ cursor \in Nat /\ sliceEnd \in Nat /\ sliceEnd < NonceSpace
      /\ size \in Nat \ {0} /\ cursor + size <= sliceEnd
  BY ConstantTypes DEF TypeOK, Nonces
<1>2. NextChunk = cursor .. cursor + size - 1
  BY <1>1, ConstantTypes DEF NextChunk
<1>3. Cardinality(NextChunk) = size
  <2> HIDE DEF size
  <2>1. cursor + size - 1 \in Int /\ ~ cursor > cursor + size - 1
    BY <1>1
  <2>2. Cardinality(cursor .. cursor + size - 1) = (cursor + size - 1) - cursor + 1
    BY <1>1, <2>1, FS_Interval
  <2> QED
    BY <1>1, <1>2, <2>2
<1>4. Plus(cursor, size) = cursor + size
  BY <1>1, PlusExact, ConstantTypes
<1>5. NextChunk \subseteq Nonces
  BY <1>1, <1>2, ConstantTypes DEF Nonces
<1> QED
  BY <1>1, <1>2, <1>3, <1>4, <1>5

\* Even a chunk that were empty would have a size.
LEMMA ChunkType ==
    ASSUME TypeOK
    PROVE  NextChunk \subseteq Nonces /\ Cardinality(NextChunk) \in Nat
<1> DEFINE last == IF Chunk < sliceEnd - cursor THEN cursor + Chunk - 1
                                                ELSE sliceEnd - 1
<1>1. cursor \in Nat /\ last \in Int /\ last < NonceSpace
  BY ConstantTypes DEF TypeOK, Nonces
<1>2. NextChunk = cursor .. last
  BY DEF NextChunk
<1>3. Cardinality(NextChunk) \in Nat
  <2> HIDE DEF last
  <2>1. IsFiniteSet(cursor .. last)
    BY <1>1, FS_Interval
  <2> QED
    BY <1>2, <2>1, FS_CardinalityType
<1> HIDE DEF last
<1>4. cursor .. last \subseteq Nonces
  BY <1>1, ConstantTypes DEF Nonces
<1> QED
  BY <1>2, <1>3, <1>4

-----------------------------------------------------------------------------
(* Type correctness *)

LEMMA InitTypeOK == Init => TypeOK
<1> SUFFICES ASSUME Init PROVE TypeOK
  OBVIOUS
<1>1. 0 \in Nonces
  BY ChunkAssumption DEF Nonces
<1>2. NoJob \in JobSpace
  BY <1>1, ChunkAssumption DEF NoJob, JobSpace
<1>3. hasJob \in BOOLEAN /\ ended \in BOOLEAN
  BY Zenon DEF Init
<1> QED
  BY <1>1, <1>2, <1>3 DEF Init, TypeOK

LEMMA OfferedJob ==
    ASSUME TypeOK, NEW o \in Offers
    PROVE  [id |-> issued.id + 1, parent |-> o.parent, clean |-> o.clean,
            start |-> o.start, complete |-> o.complete, session |-> session]
               \in JobSpace
  BY ChunkAssumption DEF TypeOK, JobSpace, Nonces

LEMMA NextTypeOK == TypeOK /\ [Next]_vars => TypeOK'
<1> SUFFICES ASSUME TypeOK, [Next]_vars PROVE TypeOK'
  OBVIOUS
<1> USE DEF TypeOK, shared, local, pool, history
<1>1. CASE Notify
  <2>1. PICK o \in Offers :
          LET job == [id |-> issued.id + 1, parent |-> o.parent, clean |-> o.clean,
                      start |-> o.start, complete |-> o.complete,
                      session |-> session]
          IN  HandleNotify(job) /\ issued' = job
    BY <1>1 DEF Notify
  <2>2. issued' \in JobSpace /\ HandleNotify(issued')
    BY <2>1, OfferedJob
  <2>3. hasJob' \in BOOLEAN
    BY <2>2, Zenon DEF HandleNotify
  <2>4. ResumeAt(currentJob) \in Nonces
    BY ResumeAtType
  <2>5. currentJob' \in JobSpace /\ nonceCursor' \in Nonces
    BY <2>2, <2>4 DEF HandleNotify, JobSpace
  <2> QED
    BY <1>1, <2>2, <2>3, <2>5 DEF Notify
<1>2. CASE SolverReadsJob
  BY <1>2 DEF SolverReadsJob
<1>3. CASE SolverExits
  BY <1>3 DEF SolverExits
<1>4. CASE SolverPicksStart
  <2>1. cursor' \in Nonces
    BY <1>4, ResumeAtType DEF SolverPicksStart
  <2>2. sliceEnd' \in Nonces
    BY <1>4, <2>1, PlusType, ChunkAssumption DEF SolverPicksStart, Nonces
  <2> QED
    BY <1>4, <2>1, <2>2 DEF SolverPicksStart
<1>5. CASE SolverTakesSnapshot
  BY <1>5 DEF SolverTakesSnapshot, JobSpace
<1>6. CASE SliceOver
  BY <1>6 DEF SliceOver
<1>7. CASE SolverKeepsJob
  BY <1>7 DEF SolverKeepsJob
<1>8. CASE SolverAdoptsJob
  BY <1>8 DEF SolverAdoptsJob, JobSpace
<1>9. CASE SolverHashes
  <2>1. hits' \subseteq Nonces /\ hashed' \subseteq Nat \X Nonces
    BY <1>9, ChunkType DEF SolverHashes
  <2>2. cursor' = Plus(cursor, Cardinality(NextChunk))
    BY <1>9 DEF SolverHashes
  <2>3. cursor \in Nat /\ Cardinality(NextChunk) \in Nat
    BY ChunkType, ConstantTypes DEF Nonces
  <2>4. cursor' \in Nonces
    BY <2>2, <2>3, PlusType
  <2> QED
    BY <1>9, <2>1, <2>4 DEF SolverHashes
<1>10. CASE SolverReportsHit
  <2>1. PICK nonce \in hits :
          /\ hits' = hits \ {nonce}
          /\ submitted' =
                IF <<pow, nonce>> \in Winners
                THEN submitted \cup {[job |-> snap.id, nonce |-> nonce,
                                      sentIn |-> session,
                                      jobFrom |-> snap.session]}
                ELSE submitted
    BY <1>10 DEF SolverReportsHit
  <2>2. snap.id \in Nat /\ snap.session \in Nat
    BY DEF JobSpace
  <2>3. submitted' \subseteq [job : Nat, nonce : Nonces, sentIn : Nat, jobFrom : Nat]
    BY <2>1, <2>2
  <2> QED
    BY <1>10, <2>1, <2>3 DEF SolverReportsHit
<1>11. CASE SolverStoresCursor
  <2>1. currentJob' \in JobSpace /\ nonceCursor' \in Nonces
    BY <1>11 DEF SolverStoresCursor, JobSpace
  <2> QED
    BY <1>11, <2>1 DEF SolverStoresCursor
<1>12. CASE SolverThrows
  BY <1>12 DEF SolverThrows
<1>13. CASE SessionEnds
  BY <1>13 DEF SessionEnds
<1>14. CASE NextSession
  <2>1. hasJob' \in BOOLEAN /\ ended' \in BOOLEAN
    BY <1>14, Zenon DEF NextSession, ResetSessionState
  <2> QED
    BY <1>14, <2>1, ChunkAssumption DEF NextSession, ResetSessionState, Nonces
<1>15. CASE UNCHANGED vars
  BY <1>15 DEF vars
<1> QED
  BY <1>1, <1>2, <1>3, <1>4, <1>5, <1>6, <1>7, <1>8, <1>9, <1>10, <1>11,
     <1>12, <1>13, <1>14, <1>15 DEF Next, Solver, Exhausted

\* Every variable keeps its type; in particular the cursors stay 64-bit numbers.
THEOREM TypeCorrect == Spec => []TypeOK
  BY InitTypeOK, NextTypeOK, PTL DEF Spec

-----------------------------------------------------------------------------
(* The inductive invariant *)

LEMMA InitIInv == Init => IInv
<1> SUFFICES ASSUME Init PROVE IInv
  OBVIOUS
<1>1. \A job : Tried(job) = {}
  BY DEF Init, Tried
<1>2. JobInv
  BY DEF Init, JobInv, InSlice, NoJob
<1>3. SessionInv
  BY DEF Init, SessionInv, InSlice
<1>4. CursorInv
  BY <1>1 DEF Init, CursorInv, InSlice
<1> QED
  BY <1>1, <1>2, <1>3, <1>4, InitTypeOK
     DEF Init, IInv, NoHoles, SubmittedIsVerified, SharesStayInTheirSession

\* A step that leaves hashed alone leaves Tried alone.
LEMMA SameTried ==
    ASSUME hashed' = hashed
    PROVE  /\ \A job : Tried(job)' = Tried(job)
           /\ \A job, next : Continues(job, next)' <=> Continues(job, next)
  BY DEF Tried, Continues

\* Nothing was tried for a job newer than the solver's.
LEMMA NewJobUntried ==
    ASSUME JobInv, NEW job \in Nat, job > pow, TypeOK
    PROVE  Tried(job) = {}
<1> SUFFICES ASSUME NEW n \in Nonces, <<job, n>> \in hashed PROVE FALSE
  BY DEF Tried
<1>1. job <= pow
  BY DEF JobInv
<1> QED
  BY <1>1 DEF TypeOK

LEMMA OlderJobsTried ==
    ASSUME JobInv, TypeOK, NEW job \in Nat, pow <= job
    PROVE  \A pair \in hashed : pair[1] <= job
<1> TAKE pair \in hashed
<1>1. pair \in Nat \X Nonces
  BY DEF TypeOK
<1>2. pair[1] \in Nat
  BY <1>1, Zenon
<1>3. pair[1] <= pow
  BY DEF JobInv
<1> QED
  BY <1>2, <1>3 DEF TypeOK

\* The invariants that relate history to itself survive every step that adds
\* nothing to it.
LEMMA HistoryKept ==
    ASSUME UNCHANGED history, NoHoles, SubmittedIsVerified, SharesStayInTheirSession
    PROVE  NoHoles' /\ SubmittedIsVerified' /\ SharesStayInTheirSession'
  BY DEF history, NoHoles, Tried, SubmittedIsVerified, SharesStayInTheirSession

LEMMA NotifyIInv == IInv /\ Notify => IInv'
<1> SUFFICES ASSUME IInv, Notify PROVE IInv'
  OBVIOUS
<1> USE DEF IInv, InSlice
<1>1. TypeOK'
  BY NextTypeOK DEF Next
<1>2. /\ UNCHANGED <<ended, pc, local, session, history>>
      /\ issued' \in JobSpace /\ issued'.id = issued.id + 1
      /\ issued'.session = session
      /\ HandleNotify(issued')
  BY OfferedJob DEF Notify
<1>3. hasJob' /\ currentJob'.id = issued.id + 1 /\ currentJob'.session = session
  BY <1>2 DEF HandleNotify, TypeOK, JobSpace
<1>4. JobInv'
  BY <1>2, <1>3 DEF JobInv, TypeOK, JobSpace, local, history
<1>5. SessionInv'
  BY <1>2, <1>3 DEF SessionInv, local
<1>6. Tried(currentJob'.id) = {}
  BY <1>3, NewJobUntried DEF JobInv, TypeOK, JobSpace
<1>7. CursorInv'
  BY <1>2, <1>3, <1>6 DEF CursorInv, Continues, Tried, local, history
<1>8. NoHoles' /\ SubmittedIsVerified' /\ SharesStayInTheirSession'
  BY <1>2, HistoryKept
<1> QED
  BY <1>1, <1>4, <1>5, <1>7, <1>8

LEMMA SolverHashesIInv == IInv /\ SolverHashes => IInv'
<1> SUFFICES ASSUME IInv, SolverHashes PROVE IInv'
  OBVIOUS
<1> USE DEF IInv, InSlice
<1>1. TypeOK'
  BY NextTypeOK DEF Next, Solver
<1>2. cursor < sliceEnd /\ Continues(pow, cursor)
  BY DEF SolverHashes, CursorInv
<1>3. PICK size \in Nat \ {0} :
          /\ NextChunk = cursor .. cursor + size - 1
          /\ Plus(cursor, Cardinality(NextChunk)) = cursor + size
          /\ NextChunk \subseteq Nonces
  BY <1>2, ChunkFacts
<1>4. /\ pc = "solve" /\ pc' = "report" /\ cursor' = cursor + size
      /\ hashed' = hashed \cup ({pow} \X NextChunk)
      /\ UNCHANGED <<shared, ended, jobCopy, sliceEnd, snap, pow, pool, submitted>>
  BY <1>3 DEF SolverHashes
<1>5. cursor \in Nat /\ pow \in Nat
  BY ConstantTypes DEF TypeOK, Nonces
<1>6. /\ Tried(pow)' = Tried(pow) \cup NextChunk
      /\ \A job \in Nat \ {pow} : Tried(job)' = Tried(job)
  BY <1>3, <1>4 DEF Tried
<1>7. JobInv'
  <2>1. \A pair \in {pow} \X NextChunk : pair[1] \in {pow}
    BY Zenon
  <2> QED
    BY <1>4, <1>5, <2>1 DEF JobInv, shared, pool
<1>8. SessionInv'
  BY <1>4 DEF SessionInv, shared, pool
<1>9. \A n \in Tried(pow) : n \in Nat /\ n < cursor
  BY <1>2, NoncesAreNaturals DEF Continues, Tried
<1>10. CursorInv'
  <2>1. cursor' - 1 \in Tried(pow)' /\ \A n \in Tried(pow)' : n < cursor'
    BY <1>3, <1>4, <1>5, <1>6, <1>9
  <2>2. Continues(pow, cursor)'
    BY <1>4, <2>1 DEF Continues, Tried
  <2> QED
    BY <1>4, <2>2 DEF CursorInv
<1>11. NoHoles'
  <2>1. \A low, high \in Tried(pow) \cup NextChunk :
            low .. high \subseteq Tried(pow) \cup NextChunk
    <3> SUFFICES ASSUME NEW low \in Tried(pow) \cup NextChunk,
                        NEW high \in Tried(pow) \cup NextChunk,
                        NEW n \in low .. high
                 PROVE  n \in Tried(pow) \cup NextChunk
      OBVIOUS
    <3>1. low \in Nat /\ high \in Nat /\ n \in Nat /\ high < cursor + size
      BY <1>3, <1>5, <1>9
    <3>2. CASE n >= cursor
      BY <1>3, <1>5, <3>1, <3>2
    <3>3. CASE n < cursor
      <4>1. low \in Tried(pow)
        BY <1>3, <1>5, <3>1, <3>3
      <4>2. cursor - 1 \in Tried(pow)
        BY <1>2, <4>1 DEF Continues
      <4>3. n \in low .. cursor - 1
        BY <1>5, <3>1, <3>3
      <4> QED
        BY <1>5, <4>1, <4>2, <4>3 DEF NoHoles
    <3> QED
      BY <1>5, <3>1, <3>2, <3>3
  <2>2. \A job \in Nat : Tried(job)' = IF job = pow THEN Tried(pow) \cup NextChunk
                                                   ELSE Tried(job)
    BY <1>3, <1>4 DEF Tried
  <2> QED
    BY <2>1, <2>2 DEF NoHoles
<1>12. SubmittedIsVerified' /\ SharesStayInTheirSession'
  BY <1>4 DEF SubmittedIsVerified, SharesStayInTheirSession
<1> QED
  BY <1>1, <1>7, <1>8, <1>10, <1>11, <1>12

\* Nothing needs to be known of the current job's nonces but that they are
\* those of the slice's job, or none.
LEMMA SolverStoresCursorIInv == IInv /\ SolverStoresCursor => IInv'
<1> SUFFICES ASSUME IInv, SolverStoresCursor PROVE IInv'
  OBVIOUS
<1> USE DEF IInv, InSlice
<1>1. TypeOK'
  BY NextTypeOK DEF Next, Solver
<1>2. /\ pc = "report" /\ pc' = "test" /\ nonceCursor' = cursor
      /\ currentJob'.id = currentJob.id /\ currentJob'.session = currentJob.session
      /\ UNCHANGED <<hasJob, ended, local, pool, history>>
  BY DEF SolverStoresCursor, TypeOK, JobSpace
<1>3. JobInv'
  BY <1>2 DEF JobInv, local, pool, history
<1>4. SessionInv'
  BY <1>2 DEF SessionInv, local, pool
<1>5. Continues(currentJob.id, cursor)
  <2>1. CASE currentJob.id = pow
    BY <1>2, <2>1 DEF CursorInv
  <2>2. CASE currentJob.id # pow
    <3>1. Tried(currentJob.id) = {}
      BY <2>2, NewJobUntried DEF JobInv, TypeOK, JobSpace
    <3> QED
      BY <3>1 DEF Continues
  <2> QED
    BY <2>1, <2>2
<1>6. CursorInv'
  BY <1>2, <1>5 DEF CursorInv, Continues, Tried, local, history
<1>7. NoHoles' /\ SubmittedIsVerified' /\ SharesStayInTheirSession'
  BY <1>2, HistoryKept
<1> QED
  BY <1>1, <1>3, <1>4, <1>6, <1>7

LEMMA SolverReportsHitIInv == IInv /\ SolverReportsHit => IInv'
<1> SUFFICES ASSUME IInv, SolverReportsHit PROVE IInv'
  OBVIOUS
<1> USE DEF IInv, InSlice
<1>1. TypeOK'
  BY NextTypeOK DEF Next, Solver
<1>2. /\ pc = "report"
      /\ UNCHANGED <<shared, ended, pc, jobCopy, cursor, sliceEnd, snap, pow,
                     pool, hashed>>
  BY DEF SolverReportsHit
<1>3. pow = snap.id /\ snap.session = session
  BY <1>2 DEF JobInv, SessionInv
<1>4. JobInv' /\ SessionInv' /\ CursorInv' /\ NoHoles'
  BY <1>2 DEF JobInv, SessionInv, CursorInv, NoHoles, Continues, Tried, shared, pool
<1>5. PICK nonce \in hits :
          submitted' = IF <<pow, nonce>> \in Winners
                       THEN submitted \cup {[job |-> snap.id, nonce |-> nonce,
                                             sentIn |-> session,
                                             jobFrom |-> snap.session]}
                       ELSE submitted
  BY DEF SolverReportsHit
<1>6. SubmittedIsVerified'
  <2>1. <<pow, nonce>> \in Winners => <<snap.id, nonce>> \in Winners
    BY <1>3
  <2>2. \A share \in submitted' :
            \/ share \in submitted
            \/ /\ share.job = snap.id /\ share.nonce = nonce
               /\ <<pow, nonce>> \in Winners
    BY <1>5
  <2>3. ASSUME NEW share \in submitted' PROVE <<share.job, share.nonce>> \in Winners
    BY <2>1, <2>2, <2>3, Zenon DEF SubmittedIsVerified
  <2> QED
    BY <2>3 DEF SubmittedIsVerified
<1>7. SharesStayInTheirSession'
  BY <1>3, <1>5 DEF SharesStayInTheirSession
<1> QED
  BY <1>1, <1>4, <1>6, <1>7

LEMMA SolverPicksStartIInv == IInv /\ SolverPicksStart => IInv'
<1> SUFFICES ASSUME IInv, SolverPicksStart PROVE IInv'
  OBVIOUS
<1> USE DEF IInv, InSlice
<1>1. TypeOK'
  BY NextTypeOK DEF Next, Solver
<1>2. /\ pc = "start" /\ pc' = "snap" /\ cursor' = ResumeAt(jobCopy)
      /\ UNCHANGED <<shared, ended, jobCopy, snap, pow, hits, pool, history>>
  BY DEF SolverPicksStart
<1>3. JobInv' /\ SessionInv'
  BY <1>2 DEF JobInv, SessionInv, shared, pool, history
<1>4. Continues(currentJob.id, nonceCursor)
  BY <1>2 DEF CursorInv, SessionInv
<1>5. Continues(currentJob.id, ResumeAt(jobCopy))
  <2>1. CASE nonceCursor # 0
    BY <1>4, <2>1 DEF ResumeAt
  <2>2. CASE nonceCursor = 0
    <3>1. nonceCursor - 1 \notin Tried(currentJob.id)
      BY <2>2, NoncesAreNaturals DEF Tried
    <3> QED
      BY <1>4, <3>1 DEF Continues
  <2> QED
    BY <2>1, <2>2
<1>6. CursorInv'
  BY <1>2, <1>4, <1>5 DEF CursorInv, Continues, Tried, shared, history
<1>7. NoHoles' /\ SubmittedIsVerified' /\ SharesStayInTheirSession'
  BY <1>2, HistoryKept
<1> QED
  BY <1>1, <1>3, <1>6, <1>7

LEMMA NextIInv == IInv /\ [Next]_vars => IInv'
<1> SUFFICES ASSUME IInv, [Next]_vars PROVE IInv'
  OBVIOUS
<1> USE DEF IInv, InSlice, shared, local, pool, history
<1>0. TypeOK'
  BY NextTypeOK
<1>1. CASE UNCHANGED history
  <2> SUFFICES (JobInv' /\ SessionInv' /\ CursorInv') \/ IInv'
    BY <1>0, <1>1, HistoryKept
  <2> USE DEF JobInv, SessionInv, CursorInv, Continues, Tried
  <2>1. CASE SolverReadsJob
    BY <2>1 DEF SolverReadsJob
  <2>2. CASE SolverExits
    BY <2>2 DEF SolverExits
  <2>3. CASE SolverTakesSnapshot
    <3>1. currentJob.id \in Nat /\ \A pair \in hashed : pair[1] <= currentJob.id
      BY OlderJobsTried DEF TypeOK, JobSpace
    <3>2. JobInv'
      BY <2>3, <3>1 DEF SolverTakesSnapshot
    <3>3. SessionInv'
      BY <2>3 DEF SolverTakesSnapshot
    <3>4. CursorInv'
      BY <2>3 DEF SolverTakesSnapshot
    <3> QED
      BY <3>2, <3>3, <3>4
  <2>4. CASE SliceOver
    <3>1. CASE currentJob.id = pow
      BY <2>4, <3>1 DEF SliceOver
    <3>2. CASE currentJob.id # pow
      BY <2>4, <3>2 DEF SliceOver
    <3> QED
      BY <3>1, <3>2
  <2>5. CASE SolverKeepsJob
    BY <2>5 DEF SolverKeepsJob, SliceGoesOn
  <2>6. CASE SolverAdoptsJob
    <3>1. Tried(currentJob.id) = {}
      BY <2>6, NewJobUntried DEF SolverAdoptsJob, SliceGoesOn, TypeOK, JobSpace
    <3>2. currentJob.id \in Nat /\ \A pair \in hashed : pair[1] <= currentJob.id
      BY OlderJobsTried DEF TypeOK, JobSpace
    <3>3. JobInv'
      BY <2>6, <3>2 DEF SolverAdoptsJob
    <3>4. SessionInv'
      BY <2>6 DEF SolverAdoptsJob, SliceGoesOn
    <3>5. CursorInv'
      BY <2>6, <3>1 DEF SolverAdoptsJob, SliceGoesOn
    <3> QED
      BY <3>3, <3>4, <3>5
  <2>7. CASE SolverThrows
    BY <2>7 DEF SolverThrows
  <2>8. CASE SessionEnds
    BY <2>8 DEF SessionEnds
  <2>9. CASE NextSession
    BY <2>9 DEF NextSession, ResetSessionState
  <2>10. CASE UNCHANGED vars
    BY <2>10 DEF vars
  <2>11. CASE Notify \/ SolverPicksStart \/ SolverStoresCursor \/ SolverHashes
              \/ SolverReportsHit
    BY <2>11, NotifyIInv, SolverPicksStartIInv, SolverStoresCursorIInv,
       SolverHashesIInv, SolverReportsHitIInv
  <2> QED
    BY <2>1, <2>2, <2>3, <2>4, <2>5, <2>6, <2>7, <2>8, <2>9, <2>10, <2>11
       DEF Next, Solver, Exhausted
<1>2. CASE SolverHashes \/ SolverReportsHit
  BY <1>2, SolverHashesIInv, SolverReportsHitIInv
<1>3. SolverHashes \/ SolverReportsHit \/ UNCHANGED history
  BY DEF Next, Solver, Exhausted, vars, Notify, SolverReadsJob, SolverExits,
         SolverPicksStart, SolverTakesSnapshot, SliceOver, SolverKeepsJob,
         SolverAdoptsJob, SolverStoresCursor, SolverThrows, SessionEnds, NextSession
<1> QED
  BY <1>1, <1>2, <1>3

LEMMA Invariance == Spec => []IInv
  BY InitIInv, NextIInv, PTL DEF Spec

-----------------------------------------------------------------------------
(* The properties *)

\* Whatever notifies arrive between the conversion of a job, its chunk and the
\* report, submit_share gets only what VerifySolution confirmed for that job.
THEOREM OnlyVerifiedSharesAreSent == Spec => []SubmittedIsVerified
<1>1. IInv => SubmittedIsVerified
  BY DEF IInv
<1> QED
  BY <1>1, Invariance, PTL

\* A job of an earlier session, with another pool perhaps, has been forgotten
\* before a share is sent in the next.
THEOREM SharesDoNotCrossSessions == Spec => []SharesStayInTheirSession
<1>1. IInv => SharesStayInTheirSession
  BY DEF IInv
<1> QED
  BY <1>1, Invariance, PTL

\* The nonces tried for a job are an interval, however slices, refreshed jobs and
\* the cursor of another parent come and go.
THEOREM SearchLeavesNoHoles == Spec => []CoverageHasNoHoles
<1>1. IInv => CoverageHasNoHoles
  <2> SUFFICES ASSUME IInv, NEW job \in 1 .. MaxJobs,
                      NEW low \in {pair[2] : pair \in {h \in hashed : h[1] = job}},
                      NEW high \in {pair[2] : pair \in {h \in hashed : h[1] = job}},
                      NEW n \in low .. high
               PROVE  <<job, n>> \in hashed
    BY Zenon DEF CoverageHasNoHoles
  <2>1. \A pair \in hashed : pair \in Nat \X Nonces
    BY DEF IInv, TypeOK
  <2>2. \A pair \in Nat \X Nonces : pair[2] \in Nonces /\ pair = <<pair[1], pair[2]>>
    OBVIOUS
  <2>3. low \in Tried(job) /\ high \in Tried(job)
    BY <2>1, <2>2, Zenon DEF Tried
  <2>4. job \in Nat
    OBVIOUS
  <2>5. n \in Tried(job)
    BY <2>3, <2>4, Zenon DEF IInv, NoHoles
  <2> QED
    BY <2>5 DEF Tried
<1> QED
  BY <1>1, Invariance, PTL

\* A chunk holds no nonce that was tried for the same job before.
THEOREM NoWorkIsRepeated == Spec => NoNonceHashedTwice
<1>1. IInv /\ pc = "solve" => hashed \cap ({pow} \X NextChunk) = {}
  <2> SUFFICES ASSUME IInv, pc = "solve",
                      NEW pair \in hashed \cap ({pow} \X NextChunk)
               PROVE  FALSE
    BY Zenon
  <2> PICK n \in NextChunk : pair = <<pow, n>>
    OBVIOUS
  <2>1. cursor < sliceEnd /\ Continues(pow, cursor)
    BY DEF IInv, CursorInv, InSlice
  <2>2. n \in Nonces /\ n >= cursor
    <3>1. PICK size \in Nat \ {0} : /\ NextChunk = cursor .. cursor + size - 1
                                   /\ NextChunk \subseteq Nonces
      BY <2>1, ChunkFacts DEF IInv
    <3> QED
      BY <3>1, NoncesAreNaturals DEF IInv, TypeOK
  <2>3. n \in Tried(pow)
    BY <2>2 DEF Tried
  <2>4. n < cursor
    BY <2>1, <2>3 DEF Continues
  <2> QED
    BY <2>2, <2>4, NoncesAreNaturals DEF IInv, TypeOK
<1>2. IInv /\ [Next]_vars =>
         [pc = "solve" /\ pc' = "report" =>
             hashed \cap ({pow} \X NextChunk) = {}]_vars
  BY <1>1
<1> QED
  BY <1>2, Invariance, PTL DEF Spec, NoNonceHashedTwice
=============================================================================
