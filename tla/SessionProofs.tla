--------------------------- MODULE SessionProofs ---------------------------
(***************************************************************************)
(* Proofs about SessionLifecycle, for every number of endpoints: type      *)
(* correctness, the inductive invariant, and from it the invariants and    *)
(* action properties that the runs check, and the refinement of            *)
(* ReconnectingClient.                                                     *)
(***************************************************************************)
EXTENDS SessionRefinement, TLAPS

Nobody == \A w \in Workers : pc[w] = "none"
NobodyEnding == \A w \in Workers : pc[w] # "ending"

\* Where each thread can be, and what main knows of it.
ThreadsInv ==
    /\ pc["reader"] \in {"none", "loop", "recv", "greeted", "granted", "refused",
                         "endCall", "ending", "done"}
    /\ pc["solver"] \in {"none", "loop", "mine", "endCall", "ending", "done"}
    /\ pc["metrics"] \in {"none", "nap", "report", "endCall", "ending", "done"}
    /\ Idle \/ mainPc = "begin" => Nobody
    /\ mainPc \in {"subscribe", "waitSub"} =>
          pc["reader"] # "none" /\ pc["solver"] = "none" /\ pc["metrics"] = "none"
    /\ mainPc \in {"authorize", "waitAuth", "join", "lockedJoin"} =>
          pc["reader"] # "none"
    /\ mainPc # "start" => running

\* session_ended, and who has done what about it.
EndingInv ==
    /\ \A w \in Workers : pc[w] = "ending" => sessionEnded
    /\ \A v, w \in Workers : pc[v] = "ending" /\ pc[w] = "ending" => v = w
    /\ pc["reader"] = "done" => sessionEnded
    /\ mainPc \in {"connect", "begin"} => ~sessionEnded

\* The socket is closed by whoever ends the session, or by main.
SocketInv ==
    /\ sessionEnded /\ NobodyEnding => ~sockOpen
    /\ mainPc \in {"start", "top", "connect", "lockedJoin", "failJoin", "post",
                   "sleep", "returned"} => ~sockOpen

RotationInv ==
    /\ rotate => CanRotate
    /\ pc["metrics"] \in {"endCall", "ending"} => updateRestart
    /\ sessionEnded /\ NobodyEnding /\ ~updateRestart => rotate = CanRotate
    /\ mainPc \in {"post", "sleep"} /\ ~updateRestart => rotate = CanRotate

IInv == TypeOK /\ ThreadsInv /\ EndingInv /\ SocketInv /\ RotationInv

-----------------------------------------------------------------------------
(* Type correctness *)

LEMMA InitTypeOK == Init => TypeOK
<1> SUFFICES ASSUME Init PROVE TypeOK
  OBVIOUS
<1>1. /\ running \in BOOLEAN
      /\ sessionEnded \in BOOLEAN
      /\ rotate \in BOOLEAN
      /\ updateRestart \in BOOLEAN
      /\ sockOpen \in BOOLEAN
      /\ subscribed \in BOOLEAN
      /\ authorized \in BOOLEAN
      /\ authError \in BOOLEAN
  BY Zenon DEF Init
<1>2. endpoint \in Endpoints
  BY EndpointsAssumption DEF Init, Endpoints
<1> QED
  BY <1>1, <1>2 DEF Init, TypeOK, Workers

LEMMA CloseType == CloseSocket => sockOpen' \in BOOLEAN
  BY Zenon DEF CloseSocket

LEMMA NextTypeOK == TypeOK /\ [Next]_vars => TypeOK'
<1> SUFFICES ASSUME TypeOK, [Next]_vars PROVE TypeOK'
  OBVIOUS
<1> USE DEF TypeOK, Workers, flags, handshake, pool
<1>1. CASE RunForever
  BY <1>1 DEF RunForever
<1>2. CASE BeginAttempt
  <2>1. /\ sessionEnded' \in BOOLEAN
        /\ rotate' \in BOOLEAN
        /\ subscribed' \in BOOLEAN
        /\ authorized' \in BOOLEAN
        /\ authError' \in BOOLEAN
    BY <1>2, Zenon DEF BeginAttempt
  <2>2. endpoint' \in Endpoints
    BY <1>2, EndpointsAssumption DEF BeginAttempt, NextEndpoint, Endpoints
  <2> QED
    BY <1>2, <2>1, <2>2 DEF BeginAttempt
<1>3. CASE ConnectSucceeds
  BY <1>3 DEF ConnectSucceeds
<1>4. CASE ConnectThrows
  BY <1>4 DEF ConnectThrows
<1>5. CASE StartReader
  BY <1>5 DEF StartReader
<1>6. CASE SendSubscribe
  <2>1. asked' \in SUBSET {"subscribe", "authorize"}
    BY <1>6 DEF SendSubscribe, SendRequest
  <2>2. mainPc' \in {"waitSub", "fail"}
    BY <1>6 DEF SendSubscribe, SendRequest
  <2> QED
    BY <1>6, <2>1, <2>2 DEF SendSubscribe, SendRequest
<1>7. CASE SubscribeConfirmed
  BY <1>7 DEF SubscribeConfirmed
<1>8. CASE SubscribeTimesOut
  BY <1>8, CloseType DEF SubscribeTimesOut
<1>9. CASE SendAuthorize
  <2>1. asked' \in SUBSET {"subscribe", "authorize"}
    BY <1>9 DEF SendAuthorize, SendRequest
  <2>2. mainPc' \in {"waitAuth", "fail"}
    BY <1>9 DEF SendAuthorize, SendRequest
  <2> QED
    BY <1>9, <2>1, <2>2 DEF SendAuthorize, SendRequest
<1>10. CASE AuthorizeRejected
  BY <1>10, CloseType DEF AuthorizeRejected
<1>11. CASE AuthorizeWaitOver
  BY <1>11 DEF AuthorizeWaitOver
<1>12. CASE JoinSession
  BY <1>12 DEF JoinSession, JoinWorkers
<1>13. CASE CatchCloses
  BY <1>13, CloseType DEF CatchCloses
<1>14. CASE CatchJoins
  <2>1. rotate' \in BOOLEAN
    BY <1>14 DEF CatchJoins, CanRotate
  <2>2. pc' \in [Workers -> {"none", "loop", "recv", "greeted", "granted",
                             "refused", "mine", "nap", "report", "endCall",
                             "ending", "done"}]
    BY <1>14 DEF CatchJoins, JoinWorkers
  <2> QED
    BY <1>14, <2>1, <2>2 DEF CatchJoins
<1>15. CASE AfterSession
  <2>1. sessionEnded' \in BOOLEAN /\ sockOpen' \in BOOLEAN
    BY <1>15, CloseType, Zenon DEF AfterSession
  <2> QED
    BY <1>15, <2>1 DEF AfterSession
<1>16. CASE Backoff
  BY <1>16 DEF Backoff
<1>17. CASE ReaderTests
  BY <1>17 DEF ReaderTests, Goto
<1>18. CASE ReaderLosesConnection
  BY <1>18 DEF ReaderLosesConnection, Goto
<1>19. CASE SubscribeAnswered
  BY <1>19 DEF SubscribeAnswered, ReaderDispatches, Goto
<1>20. CASE \E answer \in {"granted", "refused"} : AuthorizeAnswered(answer)
  BY <1>20 DEF AuthorizeAnswered, ReaderDispatches, Goto
<1>21. CASE \E kind \in {"partial", "complete"} : NotifyArrives(kind)
  BY <1>21 DEF NotifyArrives, ReaderDispatches, Goto
<1>22. CASE SolverSeesEnd
  BY <1>22 DEF SolverSeesEnd, Goto
<1>23. CASE SolverGivesUp
  BY <1>23 DEF SolverGivesUp, Goto
<1>24. CASE SolverStartsSlice
  BY <1>24 DEF SolverStartsSlice, Goto
<1>25. CASE SolverEndsSlice
  BY <1>25 DEF SolverEndsSlice, Goto
<1>26. CASE SolverThrows
  BY <1>26 DEF SolverThrows, Goto
<1>27. CASE MetricsWakes
  BY <1>27 DEF MetricsWakes, Goto
<1>28. CASE MetricsReports
  BY <1>28 DEF MetricsReports, Goto
<1>29. CASE MetricsInstallsUpdate
  BY <1>29 DEF MetricsInstallsUpdate, Goto
<1>30. CASE \E w \in Workers : EndSessionTooLate(w)
  BY <1>30 DEF EndSessionTooLate
<1>31. CASE \E w \in Workers : EndSessionWins(w)
  BY <1>31 DEF EndSessionWins
<1>32. CASE \E w \in Workers : EndSessionCloses(w)
  <2> PICK w \in Workers : EndSessionCloses(w)
    BY <1>32
  <2>1. sockOpen' \in BOOLEAN
    BY CloseType DEF EndSessionCloses
  <2>2. rotate' \in BOOLEAN
    BY DEF EndSessionCloses, RotatesAfter, CanRotate
  <2> QED
    BY <2>1, <2>2 DEF EndSessionCloses
<1>33. CASE PoolDrops
  BY <1>33 DEF PoolDrops
<1>34. CASE JoinUnderLock
  BY <1>34 DEF JoinUnderLock, JoinWorkers
<1>35. CASE ReaderConfirms
  <2>1. /\ subscribed' \in BOOLEAN
        /\ authorized' \in BOOLEAN
        /\ authError' \in BOOLEAN
    BY <1>35 DEF ReaderConfirms
  <2> QED
    BY <1>35, <2>1 DEF ReaderConfirms, Goto
<1>36. CASE UNCHANGED vars
  BY <1>36 DEF vars
<1> QED
  BY <1>1, <1>2, <1>3, <1>4, <1>5, <1>6, <1>7, <1>8, <1>9, <1>10, <1>11,
     <1>12, <1>13, <1>14, <1>15, <1>16, <1>17, <1>18, <1>19, <1>20, <1>21,
     <1>22, <1>23, <1>24, <1>25, <1>26, <1>27, <1>28, <1>29, <1>30, <1>31,
     <1>32, <1>33, <1>34, <1>35, <1>36
     DEF Next, Main, Reader, Solver, Metrics, EndSession

\* Every variable keeps its type; in particular endpoint stays an index of the
\* endpoint list, however many times advance_endpoint runs.
THEOREM TypeCorrect == Spec => []TypeOK
  BY InitTypeOK, NextTypeOK, PTL DEF Spec

-----------------------------------------------------------------------------
(* The inductive invariant *)

LEMMA InitIInv == Init => IInv
  BY InitTypeOK, EndpointsAssumption
     DEF Init, IInv, TypeOK, ThreadsInv, EndingInv, SocketInv, RotationInv,
         Nobody, NobodyEnding, Idle, Workers, CanRotate

LEMMA NextIInv == IInv /\ [Next]_vars => IInv'
<1> SUFFICES ASSUME IInv, [Next]_vars
             PROVE  ThreadsInv' /\ EndingInv' /\ SocketInv' /\ RotationInv'
  BY NextTypeOK DEF IInv
<1>0. TypeOK'
  BY NextTypeOK DEF IInv
<1> USE <1>0 DEF IInv, TypeOK, ThreadsInv, EndingInv, SocketInv, RotationInv,
            Nobody, NobodyEnding, Idle, Workers, CanRotate,
            flags, handshake, pool
<1>1. CASE RunForever
  BY <1>1 DEF RunForever
<1>2. CASE BeginAttempt
  BY <1>2 DEF BeginAttempt
<1>3. CASE ConnectSucceeds
  BY <1>3 DEF ConnectSucceeds
<1>4. CASE ConnectThrows
  BY <1>4 DEF ConnectThrows
<1>5. CASE StartReader
  BY <1>5 DEF StartReader
<1>6. CASE SendSubscribe
  BY <1>6 DEF SendSubscribe, SendRequest, Deliverable
<1>7. CASE SubscribeConfirmed
  BY <1>7 DEF SubscribeConfirmed
<1>8. CASE SubscribeTimesOut
  BY <1>8 DEF SubscribeTimesOut, CloseSocket
<1>9. CASE SendAuthorize
  BY <1>9 DEF SendAuthorize, SendRequest, Deliverable
<1>10. CASE AuthorizeRejected
  BY <1>10 DEF AuthorizeRejected, CloseSocket
<1>11. CASE AuthorizeWaitOver
  BY <1>11 DEF AuthorizeWaitOver
<1>12. CASE JoinSession
  BY <1>12 DEF JoinSession, JoinWorkers, WorkersHaveFinished
<1>13. CASE CatchCloses
  BY <1>13 DEF CatchCloses, CloseSocket
<1>14. CASE CatchJoins
  BY <1>14 DEF CatchJoins, JoinWorkers, WorkersHaveFinished
<1>15. CASE AfterSession
  BY <1>15 DEF AfterSession, CloseSocket
<1>16. CASE Backoff
  BY <1>16 DEF Backoff
<1>17. CASE ReaderTests
  BY <1>17 DEF ReaderTests, Goto
<1>18. CASE ReaderLosesConnection
  BY <1>18 DEF ReaderLosesConnection, Goto
<1>19. CASE SubscribeAnswered
  BY <1>19 DEF SubscribeAnswered, ReaderDispatches, Goto
<1>20. CASE \E answer \in {"granted", "refused"} : AuthorizeAnswered(answer)
  BY <1>20 DEF AuthorizeAnswered, ReaderDispatches, Goto
<1>21. CASE \E kind \in {"partial", "complete"} : NotifyArrives(kind)
  BY <1>21 DEF NotifyArrives, ReaderDispatches, Goto
<1>22. CASE SolverSeesEnd
  BY <1>22 DEF SolverSeesEnd, Goto
<1>23. CASE SolverGivesUp
  BY <1>23 DEF SolverGivesUp, Goto
<1>24. CASE SolverStartsSlice
  BY <1>24 DEF SolverStartsSlice, Goto
<1>25. CASE SolverEndsSlice
  BY <1>25 DEF SolverEndsSlice, Goto
<1>26. CASE SolverThrows
  BY <1>26 DEF SolverThrows, Goto
<1>27. CASE MetricsWakes
  BY <1>27 DEF MetricsWakes, Goto
<1>28. CASE MetricsReports
  BY <1>28 DEF MetricsReports, Goto
<1>29. CASE MetricsInstallsUpdate
  BY <1>29 DEF MetricsInstallsUpdate, Goto
<1>30. CASE \E w \in Workers : EndSessionTooLate(w)
  BY <1>30 DEF EndSessionTooLate, MayEnd
<1>31. CASE \E w \in Workers : EndSessionWins(w)
  BY <1>31 DEF EndSessionWins, MayEnd
<1>32. CASE \E w \in Workers : EndSessionCloses(w)
  BY <1>32 DEF EndSessionCloses, CloseSocket, RotatesAfter
<1>33. CASE PoolDrops
  BY <1>33 DEF PoolDrops
<1>34. CASE JoinUnderLock
  BY <1>34 DEF JoinUnderLock, JoinWorkers, WorkersHaveFinished
<1>35. CASE ReaderConfirms
  BY <1>35 DEF ReaderConfirms, WantsLock, LockFree, Goto
<1>36. CASE UNCHANGED vars
  BY <1>36 DEF vars
<1> QED
  BY <1>1, <1>2, <1>3, <1>4, <1>5, <1>6, <1>7, <1>8, <1>9, <1>10, <1>11,
     <1>12, <1>13, <1>14, <1>15, <1>16, <1>17, <1>18, <1>19, <1>20, <1>21,
     <1>22, <1>23, <1>24, <1>25, <1>26, <1>27, <1>28, <1>29, <1>30, <1>31,
     <1>32, <1>33, <1>34, <1>35, <1>36
     DEF Next, Main, Reader, Solver, Metrics, EndSession

LEMMA Inductive == Spec => []IInv
  BY InitIInv, NextIInv, PTL DEF Spec

-----------------------------------------------------------------------------
(* The properties *)

\* The three threads of a session are joined before anything of the next one
\* is written: reset_session_state and advance_endpoint need no lock.
THEOREM WorkersJoined == Spec => []NoWorkerOutlivesSession
<1>1. IInv => NoWorkerOutlivesSession
  BY DEF IInv, ThreadsInv, NoWorkerOutlivesSession, Nobody
<1> QED
  BY <1>1, Inductive, PTL

\* The exchange in end_session elects one thread, whatever the order of the
\* reader's, the solver's and the metrics thread's calls.
THEOREM OneCloser == Spec => []OneThreadEndsSession
<1>1. IInv => OneThreadEndsSession
  BY DEF IInv, EndingInv, OneThreadEndsSession
<1> QED
  BY <1>1, Inductive, PTL

\* No path through a session (normal end, failed handshake, catch block) leaks
\* its descriptor.
THEOREM NoSocketLeak == Spec => []SocketClosedBetweenSessions
<1>1. IInv => SocketClosedBetweenSessions
  BY DEF IInv, SocketInv, SocketClosedBetweenSessions
<1> QED
  BY <1>1, Inductive, PTL

\* Fallback pools are asked for after every failure, and only where there are
\* any, for every number of endpoints.
THEOREM FailoverRequested == Spec => []FailureRequestsNextPool
<1>1. IInv => FailureRequestsNextPool
  BY DEF IInv, RotationInv, FailureRequestsNextPool
<1> QED
  BY <1>1, Inductive, PTL

\* session_ended is cleared behind the back of no worker.
THEOREM EndSeenByAll == Spec => EndIsNotMissed
<1>1. ASSUME IInv, [Next]_vars, sessionEnded, ~sessionEnded'
      PROVE  BeginAttempt \/ AfterSession
  BY <1>1 DEF Next, Main, Reader, Solver, Metrics, EndSession, vars, flags,
     RunForever, ConnectSucceeds, ConnectThrows, StartReader, SendSubscribe,
     SendAuthorize, SendRequest, SubscribeConfirmed, SubscribeTimesOut,
     AuthorizeRejected, AuthorizeWaitOver, JoinUnderLock, JoinSession, CatchCloses, CatchJoins,
     Backoff, ReaderTests, ReaderLosesConnection,
     SubscribeAnswered, AuthorizeAnswered, ReaderConfirms, NotifyArrives,
     ReaderDispatches,
     SolverSeesEnd, SolverGivesUp, SolverStartsSlice, SolverEndsSlice,
     SolverThrows, MetricsWakes, MetricsReports, MetricsInstallsUpdate,
     EndSessionTooLate, EndSessionWins, EndSessionCloses, PoolDrops
<1>2. ASSUME IInv, BeginAttempt \/ AfterSession
      PROVE  \A w \in Workers : pc[w] = "none"
  BY <1>2 DEF IInv, ThreadsInv, Idle, Nobody, BeginAttempt, AfterSession
<1>3. IInv /\ [Next]_vars =>
        [sessionEnded /\ ~sessionEnded' => \A w \in Workers : pc[w] = "none"]_vars
  BY <1>1, <1>2
<1> QED
  BY <1>3, Inductive, PTL DEF Spec, EndIsNotMissed

-----------------------------------------------------------------------------
(* Every step of SessionLifecycle is, under the mapping of                  *)
(* SessionRefinement, a step of ReconnectingClient or a stutter.            *)

LEMMA InitRefines == Init => Reconnecting!AbsInit
  BY DEF Init, Reconnecting!AbsInit, phaseBar, startedBar, liveBar, Workers

\* Worker w, started and not finished, moves on to "to", and nothing that the
\* mapping looks at changes besides.
Moves(w, to) ==
    /\ pc[w] \notin {"none", "done"}
    /\ Goto(w, to)
    /\ UNCHANGED <<sessionEnded, mainPc, endpoint>>

\* A step of a worker that goes on is no step of the abstract client.
LEMMA QuietStep ==
  ASSUME IInv, NEW w \in Workers, NEW to, to \notin {"none", "done"},
         Moves(w, to)
  PROVE  UNCHANGED Reconnecting!absVars
<1> USE DEF Moves, Goto
<1>1. phaseBar' = phaseBar
  BY DEF phaseBar
<1>2. \A v \in Workers : pc'[v] \in {"none", "done"} <=> pc[v] \in {"none", "done"}
  BY DEF IInv, TypeOK
<1>3. \A v \in Workers : pc'[v] = "none" <=> pc[v] = "none"
  BY DEF IInv, TypeOK
<1>4. startedBar' = startedBar
  BY <1>3 DEF startedBar
<1>5. liveBar' = liveBar
  BY <1>2 DEF liveBar
<1> QED
  BY <1>1, <1>4, <1>5 DEF Reconnecting!absVars

\* A worker's step that ends it.
LEMMA LastStep ==
  ASSUME IInv, NEW w \in Workers, sessionEnded \/ w = "solver",
         Moves(w, "done")
  PROVE  Reconnecting!Leave(w)
<1> USE DEF Moves, Goto
<1>1. phaseBar \in {"session", "draining"}
  BY DEF IInv, ThreadsInv, EndingInv, Idle, Nobody, phaseBar, TypeOK
<1>2. sessionEnded => phaseBar = "draining"
  BY <1>1 DEF phaseBar
<1>3. phaseBar' = phaseBar
  BY DEF phaseBar
<1>4. startedBar' = startedBar
  BY DEF startedBar, IInv, TypeOK
<1>5. w \in liveBar /\ liveBar' = liveBar \ {w}
  BY DEF liveBar, IInv, TypeOK
<1> QED
  BY <1>1, <1>2, <1>3, <1>4, <1>5 DEF Reconnecting!Leave

\* A step of main that moves no worker.
LEMMA SamePcs ==
  ASSUME pc' = pc
  PROVE  startedBar' = startedBar /\ liveBar' = liveBar
  BY DEF startedBar, liveBar

LEMMA NextRefines ==
  IInv /\ [Next]_vars => [Reconnecting!AbsNext]_(Reconnecting!absVars)
<1> SUFFICES ASSUME IInv, [Next]_vars
             PROVE  [Reconnecting!AbsNext]_(Reconnecting!absVars)
  OBVIOUS
<1>a. Reconnecting!Dial \/ Reconnecting!Open \/ Reconnecting!GiveUp
        \/ Reconnecting!Drop \/ Reconnecting!Retire
        => Reconnecting!AbsNext
  BY DEF Reconnecting!AbsNext
<1>b. \A w \in Workers : Reconnecting!Leave(w) => Reconnecting!AbsNext
  BY DEF Reconnecting!AbsNext
<1>c. \A team \in SUBSET Workers : Reconnecting!Enlist(team) => Reconnecting!AbsNext
  BY DEF Reconnecting!AbsNext
<1>d. TypeOK /\ ThreadsInv /\ EndingInv
  BY DEF IInv
<1>e. \A w \in Workers : pc[w] # "none" => running
  BY <1>d DEF ThreadsInv, Idle, Nobody
<1> USE DEF flags, handshake, pool
<1>1. CASE RunForever
  BY <1>1, SamePcs DEF RunForever, phaseBar, Reconnecting!absVars
<1>2. CASE BeginAttempt
  <2>1. liveBar = {}
    BY <1>2, <1>d DEF BeginAttempt, ThreadsInv, Idle, Nobody, liveBar
  <2> QED
    BY <1>2, <1>a, <2>1, SamePcs
       DEF BeginAttempt, NextEndpoint, phaseBar, Reconnecting!Dial
<1>3. CASE ConnectSucceeds
  BY <1>3, <1>a, <1>d, SamePcs DEF ConnectSucceeds, EndingInv, phaseBar, Reconnecting!Open
<1>4. CASE ConnectThrows
  BY <1>4, <1>a, <1>d, SamePcs
     DEF ConnectThrows, ThreadsInv, Idle, Nobody, phaseBar, Reconnecting!GiveUp
<1>5. CASE StartReader
  <2>1. startedBar = {} /\ liveBar = {}
    BY <1>5, <1>d DEF StartReader, ThreadsInv, Nobody, startedBar, liveBar
  <2>2. startedBar' = {"reader"} /\ liveBar' = {"reader"}
    BY <1>5, <1>d DEF StartReader, ThreadsInv, Nobody, startedBar, liveBar, TypeOK, Workers
  <2>3. phaseBar = "session" /\ phaseBar' = phaseBar /\ endpoint' = endpoint
    BY <1>5, <1>d DEF StartReader, EndingInv, phaseBar
  <2>4. Reconnecting!Enlist({"reader"})
    BY <2>1, <2>2, <2>3 DEF Reconnecting!Enlist
  <2> QED
    BY <2>4, <1>c DEF Workers
<1>6. CASE SendSubscribe
  <2>1. \/ phaseBar' = phaseBar
        \/ phaseBar = "session" /\ phaseBar' = "draining"
    BY <1>6, <1>d DEF SendSubscribe, SendRequest, ThreadsInv, Workers, phaseBar
  <2> QED
    BY <1>6, <1>a, <2>1, SamePcs
       DEF SendSubscribe, SendRequest, Reconnecting!Drop, Reconnecting!absVars
<1>7. CASE SubscribeConfirmed
  <2> DEFINE team == {"solver", "metrics"}
  <2>1. team \cap startedBar = {}
    BY <1>7, <1>d DEF SubscribeConfirmed, ThreadsInv, startedBar
  <2>2. startedBar' = startedBar \cup team /\ liveBar' = liveBar \cup team
    BY <1>7, <1>d DEF SubscribeConfirmed, startedBar, liveBar, TypeOK, Workers
  <2>3. phaseBar \in {"session", "draining"} /\ phaseBar' = phaseBar /\ endpoint' = endpoint
    BY <1>7 DEF SubscribeConfirmed, phaseBar
  <2>4. Reconnecting!Enlist(team)
    BY <2>1, <2>2, <2>3 DEF Reconnecting!Enlist
  <2> QED
    BY <2>4, <1>c DEF Workers
<1>8. CASE SubscribeTimesOut
  BY <1>8, <1>a, SamePcs DEF SubscribeTimesOut, phaseBar, Reconnecting!Drop, Reconnecting!absVars
<1>9. CASE SendAuthorize
  <2>1. \/ phaseBar' = phaseBar
        \/ phaseBar = "session" /\ phaseBar' = "draining"
    BY <1>9, <1>d DEF SendAuthorize, SendRequest, ThreadsInv, Workers, phaseBar
  <2> QED
    BY <1>9, <1>a, <2>1, SamePcs
       DEF SendAuthorize, SendRequest, Reconnecting!Drop, Reconnecting!absVars
<1>10. CASE AuthorizeRejected
  BY <1>10, <1>a, SamePcs DEF AuthorizeRejected, phaseBar, Reconnecting!Drop, Reconnecting!absVars
<1>11. CASE AuthorizeWaitOver
  BY <1>11, SamePcs DEF AuthorizeWaitOver, phaseBar, Reconnecting!absVars
<1>12. CASE JoinSession
  <2>1. sessionEnded
    BY <1>12, <1>d DEF JoinSession, JoinWorkers, WorkersHaveFinished, ThreadsInv, EndingInv, Workers
  <2>2. liveBar = {} /\ liveBar' = {} /\ startedBar' = {}
    BY <1>12, <1>d DEF JoinSession, JoinWorkers, WorkersHaveFinished, liveBar, startedBar
  <2> QED
    BY <1>12, <1>a, <2>1, <2>2 DEF JoinSession, phaseBar, Reconnecting!Retire
<1>13. CASE CatchCloses
  BY <1>13, SamePcs DEF CatchCloses, phaseBar, Reconnecting!absVars
<1>14. CASE CatchJoins
  <2>1. liveBar = {} /\ liveBar' = {} /\ startedBar' = {}
    BY <1>14, <1>d DEF CatchJoins, JoinWorkers, WorkersHaveFinished, liveBar, startedBar
  <2>2. phaseBar' = "idle" /\ phaseBar \in {"idle", "draining"}
    BY <1>14 DEF CatchJoins, phaseBar
  <2>3. phaseBar = "idle" => startedBar = {}
    BY <1>14 DEF CatchJoins, phaseBar, startedBar
  <2> QED
    BY <1>14, <1>a, <2>1, <2>2, <2>3
       DEF CatchJoins, Reconnecting!Retire, Reconnecting!absVars
<1>15. CASE AfterSession
  BY <1>15, SamePcs DEF AfterSession, phaseBar, Reconnecting!absVars
<1>16. CASE Backoff
  BY <1>16, SamePcs DEF Backoff, phaseBar, Reconnecting!absVars
<1>17. CASE ReaderTests
  <2>1. CASE running /\ ~sessionEnded
    <3>1. Moves("reader", "recv")
      BY <1>17, <2>1 DEF ReaderTests, Moves
    <3> QED
      BY <3>1, QuietStep DEF Workers
  <2>2. CASE ~(running /\ ~sessionEnded)
    <3>1. Moves("reader", "done")
      BY <1>17, <2>2 DEF ReaderTests, Moves
    <3>2. sessionEnded
      BY <1>e, <2>2, <3>1 DEF Moves, Workers
    <3> QED
      BY <1>b, <3>1, <3>2, LastStep DEF Workers
  <2> QED
    BY <2>1, <2>2
<1>18. CASE ReaderLosesConnection
  <2>1. Moves("reader", "endCall")
    BY <1>18 DEF ReaderLosesConnection, Moves
  <2> QED
    BY <2>1, QuietStep DEF Workers
<1>19. CASE SubscribeAnswered
  <2>1. Moves("reader", "greeted")
    BY <1>19 DEF SubscribeAnswered, ReaderDispatches, Moves
  <2> QED
    BY <2>1, QuietStep DEF Workers
<1>20. ASSUME NEW answer \in {"granted", "refused"}, AuthorizeAnswered(answer)
       PROVE  [Reconnecting!AbsNext]_(Reconnecting!absVars)
  <2>1. Moves("reader", answer)
    BY <1>20 DEF AuthorizeAnswered, ReaderDispatches, Moves
  <2>2. answer \notin {"none", "done"}
    OBVIOUS
  <2> QED
    BY <2>1, <2>2, QuietStep DEF Workers
<1>21. CASE \E kind \in {"partial", "complete"} : NotifyArrives(kind)
  <2>1. Moves("reader", "loop")
    BY <1>21 DEF NotifyArrives, ReaderDispatches, Moves
  <2> QED
    BY <2>1, QuietStep DEF Workers
<1>22. CASE SolverSeesEnd
  <2>1. Moves("solver", "done")
    BY <1>22 DEF SolverSeesEnd, Moves
  <2> QED
    BY <1>b, <2>1, LastStep DEF Workers
<1>23. CASE SolverGivesUp
  <2>1. Moves("solver", "endCall")
    BY <1>23 DEF SolverGivesUp, Moves
  <2> QED
    BY <2>1, QuietStep DEF Workers
<1>24. CASE SolverStartsSlice
  <2>1. Moves("solver", "mine")
    BY <1>24 DEF SolverStartsSlice, Moves
  <2> QED
    BY <2>1, QuietStep DEF Workers
<1>25. CASE SolverEndsSlice
  <2>1. Moves("solver", "loop")
    BY <1>25 DEF SolverEndsSlice, Moves
  <2> QED
    BY <2>1, QuietStep DEF Workers
<1>26. CASE SolverThrows
  <2>1. Moves("solver", "done")
    BY <1>26 DEF SolverThrows, Moves
  <2> QED
    BY <1>b, <2>1, LastStep DEF Workers
<1>27. CASE MetricsWakes
  <2>1. CASE running /\ ~sessionEnded
    <3>1. Moves("metrics", "report")
      BY <1>27, <2>1 DEF MetricsWakes, Moves
    <3> QED
      BY <3>1, QuietStep DEF Workers
  <2>2. CASE ~(running /\ ~sessionEnded)
    <3>1. Moves("metrics", "done")
      BY <1>27, <2>2 DEF MetricsWakes, Moves
    <3>2. sessionEnded
      BY <1>e, <2>2, <3>1 DEF Moves, Workers
    <3> QED
      BY <1>b, <3>1, <3>2, LastStep DEF Workers
  <2> QED
    BY <2>1, <2>2
<1>28. CASE MetricsReports
  <2>1. Moves("metrics", "nap")
    BY <1>28 DEF MetricsReports, Moves
  <2> QED
    BY <2>1, QuietStep DEF Workers
<1>29. CASE MetricsInstallsUpdate
  <2>1. Moves("metrics", "endCall")
    BY <1>29 DEF MetricsInstallsUpdate, Moves
  <2> QED
    BY <2>1, QuietStep DEF Workers
<1>30. ASSUME NEW w \in Workers, EndSessionTooLate(w)
       PROVE  [Reconnecting!AbsNext]_(Reconnecting!absVars)
  <2>1. sessionEnded
    BY <1>30, <1>e DEF EndSessionTooLate, MayEnd
  <2>2. Moves(w, "done")
    BY <1>30 DEF EndSessionTooLate, Moves, Goto
  <2> QED
    BY <1>b, <2>1, <2>2, LastStep
<1>31. ASSUME NEW w \in Workers, EndSessionWins(w)
       PROVE  [Reconnecting!AbsNext]_(Reconnecting!absVars)
  <2>1. startedBar' = startedBar /\ liveBar' = liveBar
    BY <1>31, <1>d DEF EndSessionWins, startedBar, liveBar, TypeOK
  <2>2. \/ phaseBar' = phaseBar
        \/ phaseBar = "session" /\ phaseBar' = "draining"
    BY <1>31, <1>d DEF EndSessionWins, phaseBar, ThreadsInv, Idle, Nobody, TypeOK
  <2> QED
    BY <1>31, <1>a, <2>1, <2>2 DEF EndSessionWins, Reconnecting!Drop, Reconnecting!absVars
<1>32. ASSUME NEW w \in Workers, EndSessionCloses(w)
       PROVE  [Reconnecting!AbsNext]_(Reconnecting!absVars)
  <2>1. sessionEnded
    BY <1>32, <1>d DEF EndSessionCloses, EndingInv
  <2>2. Moves(w, "done")
    BY <1>32 DEF EndSessionCloses, Moves, Goto
  <2> QED
    BY <1>b, <2>1, <2>2, LastStep
<1>33. CASE PoolDrops
  BY <1>33, SamePcs DEF PoolDrops, phaseBar, Reconnecting!absVars
<1>34. CASE JoinUnderLock
  <2>1. /\ liveBar = {} /\ liveBar' = {} /\ startedBar' = {}
        /\ \A w \in Workers : pc'[w] = "none"
    BY <1>34, <1>d DEF JoinUnderLock, JoinWorkers, WorkersHaveFinished, liveBar, startedBar
  <2>2. phaseBar = "draining" /\ phaseBar' = "idle"
    BY <1>34, <2>1 DEF JoinUnderLock, phaseBar
  <2> QED
    BY <1>34, <1>a, <2>1, <2>2 DEF JoinUnderLock, Reconnecting!Retire
<1>35. CASE ReaderConfirms
  <2>1. Moves("reader", "loop")
    BY <1>35 DEF ReaderConfirms, WantsLock, Moves
  <2> QED
    BY <2>1, QuietStep DEF Workers
<1>36. CASE UNCHANGED vars
  BY <1>36, SamePcs DEF vars, phaseBar, Reconnecting!absVars
<1> QED
  BY <1>1, <1>2, <1>3, <1>4, <1>5, <1>6, <1>7, <1>8, <1>9, <1>10, <1>11,
     <1>12, <1>13, <1>14, <1>15, <1>16, <1>17, <1>18, <1>19, <1>20, <1>21,
     <1>22, <1>23, <1>24, <1>25, <1>26, <1>27, <1>28, <1>29, <1>30, <1>31,
     <1>32, <1>33, <1>34, <1>35, <1>36
     DEF Next, Main, Reader, Solver, Metrics, EndSession

\* The threads, flags and joins implement the sequential client: sessions do
\* not overlap, and only a solver that threw is missing from an open one.
THEOREM Refinement == Spec => ImplementsReconnecting
  BY InitRefines, NextRefines, Inductive, PTL
     DEF Spec, ImplementsReconnecting, Reconnecting!AbsSpec
=============================================================================
