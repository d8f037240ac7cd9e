------------------------- MODULE ReconnectingClient -------------------------
(***************************************************************************)
(* What the stratum client promises about its sessions, without threads,   *)
(* flags or sockets: it serves one endpoint at a time, one session at a    *)
(* time; a session starts each of its workers at most once; the next       *)
(* session begins only when nothing of the last one is left; and it does   *)
(* begin.                                                                  *)
(***************************************************************************)
EXTENDS Integers

CONSTANTS
    NumSlots,     \* endpoints, visited in a circle; at least one
    Crew,         \* the workers of a session
    MayVanish     \* those of the crew that may leave a session still open

VARIABLES
    phase,    \* "idle", "dialing", "session", "draining"
    slot,     \* the endpoint in use
    started,  \* the workers this session has started
    live      \* those still at work

absVars == <<phase, slot, started, live>>

AbsTypeOK ==
    /\ phase \in {"idle", "dialing", "session", "draining"}
    /\ slot \in 0 .. (NumSlots - 1)
    /\ started \subseteq Crew
    /\ live \subseteq started

AbsInit ==
    /\ phase = "idle"
    /\ slot = 0
    /\ started = {}
    /\ live = {}

\* The same endpoint again, or the next one.
Dial ==
    /\ phase = "idle"
    /\ live = {}
    /\ phase' = "dialing"
    /\ slot' \in {slot, (slot + 1) % NumSlots}
    /\ UNCHANGED <<started, live>>

Open ==
    /\ phase = "dialing"
    /\ phase' = "session"
    /\ UNCHANGED <<slot, started, live>>

\* A session that has just been lost may still start workers.
Enlist(team) ==
    /\ phase \in {"session", "draining"}
    /\ team # {}
    /\ team \cap started = {}
    /\ started' = started \cup team
    /\ live' = live \cup team
    /\ UNCHANGED <<phase, slot>>

Leave(w) ==
    /\ w \in live
    /\ phase = "draining" \/ (phase = "session" /\ w \in MayVanish)
    /\ live' = live \ {w}
    /\ UNCHANGED <<phase, slot, started>>

\* No connection came about.
GiveUp ==
    /\ phase = "dialing"
    /\ phase' = "idle"
    /\ UNCHANGED <<slot, started, live>>

Drop ==
    /\ phase = "session"
    /\ phase' = "draining"
    /\ UNCHANGED <<slot, started, live>>

Retire ==
    /\ phase = "draining"
    /\ live = {}
    /\ phase' = "idle"
    /\ started' = {}
    /\ UNCHANGED <<slot, live>>

AbsNext ==
    \/ Dial \/ Open \/ GiveUp \/ Drop \/ Retire
    \/ \E team \in SUBSET Crew : Enlist(team)
    \/ \E w \in Crew : Leave(w)

AbsSpec == AbsInit /\ [][AbsNext]_absVars

\* A session may stay open for ever; nothing else may.
AbsFairness ==
    /\ WF_absVars(Dial)
    /\ WF_absVars(Open \/ GiveUp)
    /\ WF_absVars(phase = "draining" /\ \E w \in Crew : Leave(w))
    /\ WF_absVars(Retire)
=============================================================================
