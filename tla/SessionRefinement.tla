-------------------------- MODULE SessionRefinement -------------------------
(* SessionLifecycle implements ReconnectingClient. *)
EXTENDS SessionLifecycle

\* The catch block has nobody to wait for after a failed connect, and after a
\* failed handshake whose threads begin_session has joined.
phaseBar ==
    IF \/ mainPc \in {"start", "top", "post", "sleep", "returned"}
       \/ mainPc \in {"fail", "failJoin"} /\ \A w \in Workers : pc[w] = "none"
    THEN "idle"
    ELSE IF mainPc = "connect" THEN "dialing"
    ELSE IF sessionEnded \/ mainPc \in {"lockedJoin", "fail", "failJoin"}
         THEN "draining"
    ELSE "session"

startedBar == {w \in Workers : pc[w] # "none"}
liveBar == {w \in Workers : pc[w] \notin {"none", "done"}}

Reconnecting == INSTANCE ReconnectingClient
    WITH NumSlots <- NumEndpoints, Crew <- Workers, MayVanish <- {"solver"},
         phase <- phaseBar, slot <- endpoint,
         started <- startedBar, live <- liveBar

\* Every step of the threads is a step of the abstract client or none: sessions
\* do not overlap, and only a solver that threw is missing from an open one.
ImplementsReconnecting == Reconnecting!AbsSpec

\* It makes the abstract client's progress too, unless the lock stops everything:
\* a session being wound up is gone in the end (although join waits for a metrics
\* thread that naps), and a client without a session dials again.
ImplementsProgress == <>Deadlocked \/ Reconnecting!AbsFairness
=============================================================================
