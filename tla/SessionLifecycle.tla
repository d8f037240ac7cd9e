-------------------------- MODULE SessionLifecycle --------------------------
(***************************************************************************)
(* The life of a pool session in the stratum client: the thread that calls *)
(* StratumClient::run_forever (main), the three threads a session starts   *)
(* (reader, solver, metrics), the socket they share, the flags through     *)
(* which they tell each other that the session is over, and the choice of  *)
(* the pool endpoint for the next one.                                     *)
(*                                                                         *)
(* A worker's step is one of the code's points of interaction with the     *)
(* others: an atomic flag, the handshake lock, the job lock, a call on the *)
(* socket.  Timers are not counted: a wait of 30 s, a nap of 60 s or 300   *)
(* polls may end at any moment after the wait began.                       *)
(***************************************************************************)
EXTENDS Integers

CONSTANTS
    NumEndpoints,   \* the primary pool and the fallbacks, duplicates removed
    AutoUpdate      \* --auto-update: metrics_loop looks for releases

ASSUME EndpointsAssumption == NumEndpoints \in Nat \ {0}
ASSUME AutoUpdateAssumption == AutoUpdate \in BOOLEAN

Workers == {"reader", "solver", "metrics"}

VARIABLES
    running,        \* Impl::running
    sessionEnded,   \* Impl::session_ended
    rotate,         \* Impl::rotate_pool_on_reconnect
    endpoint,       \* Impl::endpoint_index
    updateRestart,  \* Impl::update_restart_requested
    sockOpen,       \* Impl::sock >= 0
    subscribed,     \* Impl::subscribed
    authorized,     \* Impl::authorized
    authError,      \* Impl::auth_error is not empty
    job,            \* "none": !has_job; else whether current_job can be solved
    mainPc,         \* where run_forever is
    pc,             \* where each worker is; "none": its std::thread is not joinable
    link,           \* the pool's end of the connection: "up" or "down"
    asked           \* the requests that have reached the pool

flags == <<running, sessionEnded, rotate, endpoint, updateRestart>>
handshake == <<subscribed, authorized, authError>>
pool == <<link, asked>>
vars == <<flags, sockOpen, handshake, job, mainPc, pc, pool>>

Endpoints == 0 .. (NumEndpoints - 1)

TypeOK ==
    /\ running \in BOOLEAN
    /\ sessionEnded \in BOOLEAN
    /\ rotate \in BOOLEAN
    /\ endpoint \in Endpoints
    /\ updateRestart \in BOOLEAN
    /\ sockOpen \in BOOLEAN
    /\ subscribed \in BOOLEAN
    /\ authorized \in BOOLEAN
    /\ authError \in BOOLEAN
    /\ job \in {"none", "partial", "complete"}
    /\ mainPc \in {"start", "top", "connect", "begin", "subscribe", "waitSub",
                   "authorize", "waitAuth", "lockedJoin", "join", "fail",
                   "failJoin", "post", "sleep", "returned"}
    /\ pc \in [Workers -> {"none", "loop", "recv", "greeted", "granted",
                           "refused", "mine", "nap", "report", "endCall",
                           "ending", "done"}]
    /\ link \in {"up", "down"}
    /\ asked \in SUBSET {"subscribe", "authorize"}

Init ==
    /\ running = FALSE
    /\ sessionEnded = FALSE
    /\ rotate = FALSE
    /\ endpoint = 0
    /\ updateRestart = FALSE
    /\ sockOpen = FALSE
    /\ subscribed = FALSE
    /\ authorized = FALSE
    /\ authError = FALSE
    /\ job = "none"
    /\ mainPc = "start"
    /\ pc = [w \in Workers |-> "none"]
    /\ link = "down"
    /\ asked = {}

(* Definitions marked "Mutation" are bugs that the definition below them could *)
(* have; the specification does not use them.                                  *)

CanRotate == NumEndpoints > 1

\* Mutation: no wrap-around.
NextEndpointUnwrapped == endpoint + 1
\* Mutation: stops at the last fallback.
NextEndpointSticks == IF endpoint + 1 < NumEndpoints THEN endpoint + 1 ELSE endpoint
\* advance_endpoint
NextEndpoint == (endpoint + 1) % NumEndpoints

\* A line written now reaches the pool.
Deliverable == sockOpen /\ link = "up"

\* Mutation: shutdown without close.
ShutdownOnly == UNCHANGED sockOpen
CloseSocket == sockOpen' = FALSE

\* Mutation: the reader is taken for the last to go.
ReaderHasFinished == pc["reader"] \in {"none", "done"}
\* join returns for every thread that was started.
WorkersHaveFinished == \A w \in Workers : pc[w] \in {"none", "done"}
JoinWorkers ==
    /\ WorkersHaveFinished
    /\ pc' = [w \in Workers |-> IF pc[w] = "done" THEN "none" ELSE pc[w]]

-----------------------------------------------------------------------------
(* run_forever *)

RunForever ==
    /\ mainPc = "start"
    /\ running' = TRUE
    /\ mainPc' = "top"
    /\ UNCHANGED <<sessionEnded, rotate, endpoint, updateRestart, sockOpen,
                   handshake, job, pc, pool>>

\* The head of the loop: advance_endpoint if asked to, reset_session_state.
BeginAttempt ==
    /\ mainPc = "top"
    /\ endpoint' = IF rotate /\ CanRotate THEN NextEndpoint ELSE endpoint
    /\ rotate' = FALSE
    /\ subscribed' = FALSE
    /\ authorized' = FALSE
    /\ authError' = FALSE
    /\ job' = "none"
    /\ sessionEnded' = FALSE
    /\ mainPc' = "connect"
    /\ UNCHANGED <<running, updateRestart, sockOpen, pc, pool>>

ConnectSucceeds ==
    /\ mainPc = "connect"
    /\ sockOpen' = TRUE
    /\ link' = "up"
    /\ asked' = {}
    /\ mainPc' = "begin"
    /\ UNCHANGED <<flags, handshake, job, pc>>

ConnectThrows ==
    /\ mainPc = "connect"
    /\ mainPc' = "fail"
    /\ UNCHANGED <<flags, sockOpen, handshake, job, pc, pool>>

\* begin_session starts the reader before it says anything to the pool.
StartReader ==
    /\ mainPc = "begin"
    /\ pc' = [pc EXCEPT !["reader"] = "loop"]
    /\ mainPc' = "subscribe"
    /\ UNCHANGED <<flags, sockOpen, handshake, job, pool>>

\* send_line: delivered; or silently dropped (sock < 0, or bytes the kernel
\* took for a peer that is gone); or it throws and run_forever's catch runs.
SendRequest(from, request, to) ==
    /\ mainPc = from
    /\ \/ /\ Deliverable
          /\ asked' = asked \cup {request}
          /\ mainPc' = to
       \/ /\ ~Deliverable
          /\ mainPc' \in {to, "fail"}
          /\ UNCHANGED asked
    /\ UNCHANGED <<flags, sockOpen, handshake, job, pc, link>>

SendSubscribe == SendRequest("subscribe", "subscribe", "waitSub")

\* Mining starts as soon as the subscription is confirmed; the session may
\* be over already, which the wait does not look at.
SubscribeConfirmed ==
    /\ mainPc = "waitSub"
    /\ subscribed
    /\ pc' = [pc EXCEPT !["solver"] = "loop", !["metrics"] = "nap"]
    /\ mainPc' = "authorize"
    /\ UNCHANGED <<flags, sockOpen, handshake, job, pool>>

\* wait_for has taken handshake_mutex back and begin_session keeps it.
SubscribeTimesOut ==
    /\ mainPc = "waitSub"
    /\ ~subscribed
    /\ CloseSocket
    /\ mainPc' = "lockedJoin"
    /\ UNCHANGED <<flags, handshake, job, pc, pool>>

SendAuthorize == SendRequest("authorize", "authorize", "waitAuth")

\* The pool said no.
AuthorizeRejected ==
    /\ mainPc = "waitAuth"
    /\ authError
    /\ CloseSocket
    /\ mainPc' = "lockedJoin"
    /\ UNCHANGED <<flags, handshake, job, pc, pool>>

\* join_session_threads with handshake_mutex held; then begin_session throws,
\* which releases it.
JoinUnderLock ==
    /\ mainPc = "lockedJoin"
    /\ JoinWorkers
    /\ mainPc' = "fail"
    /\ UNCHANGED <<flags, sockOpen, handshake, job, pool>>

\* Authorized, or 30 s without an answer: only a warning, mining continues.
AuthorizeWaitOver ==
    /\ mainPc = "waitAuth"
    /\ ~authError
    /\ mainPc' = "join"
    /\ UNCHANGED <<flags, sockOpen, handshake, job, pc, pool>>

\* The three joins of the session's normal end.
JoinSession ==
    /\ mainPc = "join"
    /\ JoinWorkers
    /\ mainPc' = "post"
    /\ UNCHANGED <<flags, sockOpen, handshake, job, pool>>

\* The catch block of run_forever: close_socket ...
CatchCloses ==
    /\ mainPc = "fail"
    /\ CloseSocket
    /\ mainPc' = "failJoin"
    /\ UNCHANGED <<flags, handshake, job, pc, pool>>

\* ... join_session_threads, and the next pool is asked for.
CatchJoins ==
    /\ mainPc = "failJoin"
    /\ JoinWorkers
    /\ rotate' = CanRotate
    /\ mainPc' = "post"
    /\ UNCHANGED <<running, sessionEnded, endpoint, updateRestart, sockOpen,
                   handshake, job, pool>>

AfterSession ==
    /\ mainPc = "post"
    /\ IF ~running
       THEN mainPc' = "returned" /\ UNCHANGED <<sessionEnded, sockOpen>>
       ELSE /\ mainPc' = "sleep"
            /\ sessionEnded' = FALSE
            /\ IF sessionEnded THEN CloseSocket ELSE UNCHANGED sockOpen
    /\ UNCHANGED <<running, rotate, endpoint, updateRestart, handshake, job,
                   pc, pool>>

\* The 5 s pause, and the loop's test.
Backoff ==
    /\ mainPc = "sleep"
    /\ mainPc' = IF running THEN "top" ELSE "returned"
    /\ UNCHANGED <<flags, sockOpen, handshake, job, pc, pool>>

-----------------------------------------------------------------------------
(* end_session, called by a worker whose pc is "endCall" *)

\* Mutation: the flag is set without a look at its old value.
MayEndUnchecked == running
MayEnd == running /\ ~sessionEnded

\* Mutation: only a lost connection is a reason to go elsewhere.
RotatesAfterReaderOnly(w) == CanRotate /\ w = "reader"
\* An installed update keeps the pool.
RotatesAfter(w) == CanRotate /\ w # "metrics"

\* The session has been ended by another thread already.
EndSessionTooLate(w) ==
    /\ pc[w] = "endCall"
    /\ ~MayEnd
    /\ pc' = [pc EXCEPT ![w] = "done"]
    /\ UNCHANGED <<flags, sockOpen, handshake, job, mainPc, pool>>

\* The exchange on session_ended makes one caller the winner.
EndSessionWins(w) ==
    /\ pc[w] = "endCall"
    /\ MayEnd
    /\ sessionEnded' = TRUE
    /\ pc' = [pc EXCEPT ![w] = "ending"]
    /\ UNCHANGED <<running, rotate, endpoint, updateRestart, sockOpen,
                   handshake, job, mainPc, pool>>

\* The winner decides on the rotation and closes; then its thread returns.
EndSessionCloses(w) ==
    /\ pc[w] = "ending"
    /\ rotate' = RotatesAfter(w)
    /\ CloseSocket
    /\ pc' = [pc EXCEPT ![w] = "done"]
    /\ UNCHANGED <<running, sessionEnded, endpoint, updateRestart, handshake,
                   job, mainPc, pool>>

EndSession(w) ==
    EndSessionTooLate(w) \/ EndSessionWins(w) \/ EndSessionCloses(w)

Goto(w, to) == pc' = [pc EXCEPT ![w] = to]

-----------------------------------------------------------------------------
(* reader_loop *)

ReaderTests ==
    /\ pc["reader"] = "loop"
    /\ Goto("reader", IF running /\ ~sessionEnded THEN "recv" ELSE "done")
    /\ UNCHANGED <<flags, sockOpen, handshake, job, mainPc, pool>>

\* Mutation: the thread ends without a word.
ReaderQuitsQuietly ==
    /\ pc["reader"] = "recv"
    /\ ~Deliverable
    /\ Goto("reader", "done")
    /\ UNCHANGED <<flags, sockOpen, handshake, job, mainPc, pool>>

\* recv fails: the socket was closed here or at the pool.
ReaderLosesConnection ==
    /\ pc["reader"] = "recv"
    /\ ~Deliverable
    /\ Goto("reader", "endCall")
    /\ UNCHANGED <<flags, sockOpen, handshake, job, mainPc, pool>>

\* A line has arrived and dispatch_line has read it.
ReaderDispatches(to) ==
    /\ pc["reader"] = "recv"
    /\ Deliverable
    /\ Goto("reader", to)
    /\ UNCHANGED <<flags, sockOpen, mainPc, pool>>

\* dispatch_line tests subscribed and authorized before it takes the lock.
SubscribeAnswered ==
    /\ ReaderDispatches("greeted")
    /\ "subscribe" \in asked
    /\ ~subscribed
    /\ UNCHANGED <<handshake, job>>

AuthorizeAnswered(answer) ==
    /\ ReaderDispatches(answer)
    /\ "authorize" \in asked
    /\ ~authorized
    /\ UNCHANGED <<handshake, job>>

\* The reader has an answer for main and is about to lock handshake_mutex.
WantsLock == pc["reader"] \in {"greeted", "granted", "refused"}

\* main sits in a condition wait, which gives the lock up, or is elsewhere.
LockFree == mainPc # "lockedJoin"

ReaderConfirms ==
    /\ WantsLock
    /\ LockFree
    /\ subscribed' = (subscribed \/ pc["reader"] = "greeted")
    /\ authorized' = (authorized \/ pc["reader"] = "granted")
    /\ authError' = (authError \/ pc["reader"] = "refused")
    /\ Goto("reader", "loop")
    /\ UNCHANGED <<flags, sockOpen, job, mainPc, pool>>

\* handle_notify replaces the job; what it does to the nonces is in NonceCursor.
NotifyArrives(kind) ==
    /\ ReaderDispatches("loop")
    /\ asked # {}
    /\ job' = kind
    /\ UNCHANGED handshake

-----------------------------------------------------------------------------
(* solver_loop *)

SolverSeesEnd ==
    /\ pc["solver"] = "loop"
    /\ ~running \/ sessionEnded
    /\ Goto("solver", "done")
    /\ UNCHANGED <<flags, sockOpen, handshake, job, mainPc, pool>>

\* Mutation: having no job at all is not counted as a stall.
StalledOnPartialOnly == job = "partial"
\* No job yet, or one that lacks fields.
Stalled == job # "complete"

\* 60 s of polls while stalled.
SolverGivesUp ==
    /\ pc["solver"] = "loop"
    /\ running
    /\ Stalled
    /\ Goto("solver", "endCall")
    /\ UNCHANGED <<flags, sockOpen, handshake, job, mainPc, pool>>

SolverStartsSlice ==
    /\ pc["solver"] = "loop"
    /\ running /\ ~sessionEnded
    /\ job = "complete"
    /\ Goto("solver", "mine")
    /\ UNCHANGED <<flags, sockOpen, handshake, job, mainPc, pool>>

SolverEndsSlice ==
    /\ pc["solver"] = "mine"
    /\ Goto("solver", "loop")
    /\ UNCHANGED <<flags, sockOpen, handshake, job, mainPc, pool>>

\* An exception ends the thread; nobody is told.
SolverThrows ==
    /\ pc["solver"] = "mine"
    /\ Goto("solver", "done")
    /\ UNCHANGED <<flags, sockOpen, handshake, job, mainPc, pool>>

-----------------------------------------------------------------------------
(* metrics_loop *)

\* The nap (up to 60 s) is not cut short by the end of the session.
MetricsWakes ==
    /\ pc["metrics"] = "nap"
    /\ Goto("metrics", IF running /\ ~sessionEnded THEN "report" ELSE "done")
    /\ UNCHANGED <<flags, sockOpen, handshake, job, mainPc, pool>>

\* No update is due, or none is out, or it failed: report, sent or not.
MetricsReports ==
    /\ pc["metrics"] = "report"
    /\ Goto("metrics", "nap")
    /\ UNCHANGED <<flags, sockOpen, handshake, job, mainPc, pool>>

\* InstallUpdate has replaced the binary.
MetricsInstallsUpdate ==
    /\ pc["metrics"] = "report"
    /\ AutoUpdate
    /\ updateRestart' = TRUE
    /\ Goto("metrics", "endCall")
    /\ UNCHANGED <<running, sessionEnded, rotate, endpoint, sockOpen, handshake,
                   job, mainPc, pool>>

-----------------------------------------------------------------------------
\* The pool closes the connection, or sends the empty line that
\* recv_line_blocking takes for its end.
PoolDrops ==
    /\ link = "up"
    /\ link' = "down"
    /\ UNCHANGED <<flags, sockOpen, handshake, job, mainPc, pc, asked>>

Main ==
    \/ RunForever \/ BeginAttempt \/ ConnectSucceeds \/ ConnectThrows
    \/ StartReader \/ SendSubscribe \/ SubscribeConfirmed \/ SubscribeTimesOut
    \/ SendAuthorize \/ AuthorizeRejected \/ AuthorizeWaitOver
    \/ JoinUnderLock \/ JoinSession \/ CatchCloses \/ CatchJoins
    \/ AfterSession \/ Backoff

Reader ==
    \/ ReaderTests \/ ReaderLosesConnection \/ SubscribeAnswered
    \/ \E answer \in {"granted", "refused"} : AuthorizeAnswered(answer)
    \/ ReaderConfirms
    \/ \E kind \in {"partial", "complete"} : NotifyArrives(kind)

Solver ==
    SolverSeesEnd \/ SolverGivesUp \/ SolverStartsSlice \/ SolverEndsSlice
    \/ SolverThrows

Metrics == MetricsWakes \/ MetricsReports \/ MetricsInstallsUpdate

Next ==
    \/ Main \/ Reader \/ Solver \/ Metrics
    \/ \E w \in Workers : EndSession(w)
    \/ PoolDrops

Spec == Init /\ [][Next]_vars

(***************************************************************************)
(* The threads are scheduled, every timer goes off and a lock that is free *)
(* is got: main, each worker's own steps, a call of end_session once begun. *)
(* Nothing is assumed of the pool: it may never answer, send work or drop  *)
(* the connection.                                                         *)
(***************************************************************************)
Fairness ==
    /\ WF_vars(Main)
    /\ WF_vars(ReaderTests \/ ReaderLosesConnection \/ ReaderConfirms)
    /\ WF_vars(SolverSeesEnd \/ SolverStartsSlice)
    /\ WF_vars(SolverGivesUp)
    /\ WF_vars(SolverEndsSlice \/ SolverThrows)
    /\ WF_vars(Metrics)
    /\ \A w \in Workers : WF_vars(EndSession(w))

FairSpec == Spec /\ Fairness

-----------------------------------------------------------------------------
(* Properties *)

\* A session is over for main: between two sessions, or still looking for one.
Idle == mainPc \in {"start", "top", "connect", "post", "sleep", "returned"}

\* Between sessions no worker exists, running or unjoined: reset_session_state
\* and advance_endpoint write host, has_job and the cursor without a lock, and
\* assigning a std::thread to a joinable one would terminate the process.
NoWorkerOutlivesSession ==
    Idle => \A w \in Workers : pc[w] = "none"

\* session_ended.exchange lets one thread through: two never run the closing
\* part of end_session together (a second close could hit a descriptor that
\* was given to somebody else), and whoever runs it has set the flag.
OneThreadEndsSession ==
    \A v, w \in Workers :
        pc[v] = "ending" /\ pc[w] = "ending" => v = w /\ sessionEnded

\* However a session ends, and with whatever interleaving of the threads that
\* end it, its descriptor is closed before the next connect: a client that
\* reconnects for months does not leak sockets.
SocketClosedBetweenSessions ==
    mainPc \in {"start", "sleep", "top", "connect"} => ~sockOpen

\* With a fallback configured, a session or an attempt that ended for any other
\* reason than an installed update leaves the request to try the next pool,
\* whichever of the threads won end_session; without one it never does.
FailureRequestsNextPool ==
    /\ mainPc \in {"post", "sleep"} /\ ~updateRestart => rotate = CanRotate
    /\ rotate => CanRotate

\* session_ended, once set, is cleared only after every worker has been joined:
\* no worker can miss it and go on into the next session.
EndIsNotMissed ==
    [][sessionEnded /\ ~sessionEnded' => \A w \in Workers : pc[w] = "none"]_vars

\* A connection lost in the middle of a session, or in its handshake, leads to
\* a new attempt to connect ("blocks; auto-reconnects when the pool drops",
\* stratum_client.h:69), although every thread is blocked somewhere else.
LostPoolIsRedialled ==
    (link = "down" /\ mainPc # "start") ~> (mainPc = "connect")

\* main holds handshake_mutex and joins a reader that waits for it.
Deadlocked == mainPc = "lockedJoin" /\ WantsLock

\* That is the only way for a lost connection not to be made again: with an
\* answer that came as main gave up waiting for it.
OnlyTheLockKeepsPoolLost ==
    (link = "down" /\ mainPc # "start") ~> (mainPc = "connect" \/ Deadlocked)

\* A pool that takes the connection but never sends a job is given up.
PoolWithoutWorkIsLeft ==
    (mainPc = "join" /\ job = "none" /\ pc["solver"] # "none")
        ~> (job # "none" \/ mainPc = "connect")

\* Either some session lasts for ever, or an update asks for a restart, or the
\* lock stops the client, or every configured endpoint is dialled again and again.
EveryPoolIsTried ==
    \/ <>[](mainPc = "join")
    \/ <>Deadlocked
    \/ <>updateRestart
    \/ \A e \in Endpoints : []<>(mainPc = "connect" /\ endpoint = e)

\* What main.cpp:441-453 relies on ("[update] Restarting with new binary..."):
\* after an update has been installed, run_forever returns, unless the lock stops
\* it.
UpdateReachesRestart ==
    updateRestart ~> (mainPc = "returned" \/ Deadlocked)
=============================================================================
