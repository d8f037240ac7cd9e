---------------------------- MODULE ShareLedger ----------------------------
(***************************************************************************)
(* What happens to a share after it has been found: submit_share, run by   *)
(* the solver, gives it an rpc id, notes the id as pending and sends it;   *)
(* dispatch_line, run by the reader, matches the pool's answers with the   *)
(* pending ids.  Ids and pending entries outlive the session; the          *)
(* connection and its unread answers do not.                               *)
(***************************************************************************)
EXTENDS Integers, Sequences, SequencesExt, FiniteSets

CONSTANTS
    Powers,         \* the powers of 10, the base ids are written in
    MaxId,          \* bound: rpc ids handed out
    MaxPending,     \* bound: ids pending at a time
    MaxSessions     \* bound: sessions

AuthorizeId == 2
FirstSubmitId == 3

ASSUME LedgerAssumption ==
    /\ Powers \subseteq Nat \ {0} /\ 1 \in Powers
    /\ MaxId \in Nat /\ MaxId >= FirstSubmitId
    /\ MaxPending \in Nat
    /\ MaxSessions \in Nat \ {0}

VARIABLES
    submitId,       \* Impl::submit_id
    pending,        \* Impl::pending_submit_ids
    counts,         \* Impl::shares_submitted, _accepted and _rejected
    authorized,     \* Impl::authorized
    authError,      \* Impl::auth_error is not empty
    pc,             \* submit_share: "idle", "send" or "count"
    connected,      \* a line sent now reaches the pool
    session,        \* which session this is
    atPool,         \* requests the pool has received and not answered
    inbox,          \* its answers on their way, in order
    withdrawn,      \* history: ids erased because the send threw
    answers         \* history: answers to shares, by verdict

impl == <<submitId, pending, counts, authorized, authError>>
net == <<connected, session, atPool, inbox>>
history == <<withdrawn, answers>>
vars == <<impl, pc, net, history>>

Ids == FirstSubmitId .. MaxId
Answer == [id : Ids \cup {AuthorizeId}, ok : BOOLEAN]

TypeOK ==
    /\ submitId \in FirstSubmitId .. (MaxId + 1)
    /\ pending \in Seq(Ids)
    /\ counts \in [{"submitted", "accepted", "rejected"} -> Nat]
    /\ authorized \in BOOLEAN
    /\ authError \in BOOLEAN
    /\ pc \in {"idle", "send", "count"}
    /\ connected \in BOOLEAN
    /\ session \in 1 .. MaxSessions
    /\ atPool \subseteq Ids \cup {AuthorizeId}
    /\ inbox \in Seq(Answer)
    /\ withdrawn \in Nat
    /\ answers \in [BOOLEAN -> Nat]

Init ==
    /\ submitId = FirstSubmitId
    /\ pending = <<>>
    /\ counts = [submitted |-> 0, accepted |-> 0, rejected |-> 0]
    /\ authorized = FALSE
    /\ authError = FALSE
    /\ pc = "idle"
    /\ connected = TRUE
    /\ session = 1
    /\ atPool = {AuthorizeId}
    /\ inbox = <<>>
    /\ withdrawn = 0
    /\ answers = [ok \in BOOLEAN |-> 0]

(* Definitions marked "Mutation" are bugs that the definition below them could *)
(* have; the specification does not use them.                                  *)

\* Mutation: the counter is read after it was moved on.
CurrentIdLate == submitId
\* The id submit_share is working on.
CurrentId == submitId - 1

\* ParseRpcResult finds "id":<id> in the line by substring: the digits of the
\* answer's id need only begin with those of id.
MatchesRpcId(answerId, id) == \E power \in Powers : answerId \div power = id

\* Mutation: the id is left in the queue.
KeepPending(i) == i \in DOMAIN pending /\ UNCHANGED pending
ErasePending(i) == pending' = RemoveAt(pending, i)

-----------------------------------------------------------------------------
(* submit_share *)

AllocateId ==
    /\ pc = "idle"
    /\ submitId <= MaxId
    /\ Len(pending) < MaxPending
    /\ submitId' = submitId + 1
    /\ pending' = Append(pending, submitId)
    /\ pc' = "send"
    /\ UNCHANGED <<counts, authorized, authError, net, history>>

SendShare ==
    /\ pc = "send"
    /\ connected
    /\ atPool' = atPool \cup {CurrentId}
    /\ pc' = "count"
    /\ UNCHANGED <<impl, connected, session, inbox, history>>

\* send_line returns at once when the socket is closed: the share counts as
\* submitted although it has gone nowhere.
SendIsDropped ==
    /\ pc = "send"
    /\ ~connected
    /\ pc' = "count"
    /\ UNCHANGED <<impl, net, history>>

\* send fails: the first entry of the id is taken back, if there is one still.
SendThrows ==
    /\ pc = "send"
    /\ ~connected
    /\ LET mine == {i \in DOMAIN pending : pending[i] = CurrentId}
       IN  \/ /\ mine = {}
              /\ UNCHANGED <<pending, withdrawn>>
           \/ /\ \E i \in mine : ErasePending(i) /\ \A j \in mine : i <= j
              /\ withdrawn' = withdrawn + 1
    /\ pc' = "idle"
    /\ UNCHANGED <<submitId, counts, authorized, authError, net, answers>>

CountSubmitted ==
    /\ pc = "count"
    /\ counts' = [counts EXCEPT !["submitted"] = @ + 1]
    /\ pc' = "idle"
    /\ UNCHANGED <<submitId, pending, authorized, authError, net, history>>

-----------------------------------------------------------------------------
(* dispatch_line on the answer at the head of the inbox *)

ReadAnswer(answer) ==
    /\ inbox # <<>>
    /\ answer = Head(inbox)
    /\ inbox' = Tail(inbox)
    /\ UNCHANGED <<submitId, pc, connected, session, atPool, history>>

\* While the client is not authorized, it takes whatever matches id 2 for the
\* answer to mining.authorize.
TakeForAuthorize ==
    \E answer \in Answer :
        /\ ReadAnswer(answer)
        /\ ~authorized
        /\ MatchesRpcId(answer.id, AuthorizeId)
        /\ authorized' = answer.ok
        /\ authError' = (authError \/ ~answer.ok)
        /\ UNCHANGED <<pending, counts>>

PassesAuthorize(answer) ==
    authorized \/ ~MatchesRpcId(answer.id, AuthorizeId)

\* Mutation: answers are expected in the order of the shares.
MatchingFrontOnly(answer) ==
    {i \in DOMAIN pending : i = 1 /\ MatchesRpcId(answer.id, pending[1])}
Matching(answer) ==
    {i \in DOMAIN pending : MatchesRpcId(answer.id, pending[i])}

Verdict(answer) == IF answer.ok THEN "accepted" ELSE "rejected"

\* Mutation: the loop goes on after the first match.
SettleEveryMatch ==
    \E answer \in Answer :
        /\ ReadAnswer(answer)
        /\ PassesAuthorize(answer)
        /\ Matching(answer) # {}
        /\ pending' = SelectSeq(pending, LAMBDA id : ~MatchesRpcId(answer.id, id))
        /\ counts' = [counts EXCEPT ![Verdict(answer)] =
                         @ + Cardinality(Matching(answer))]
        /\ UNCHANGED <<authorized, authError>>

\* The first pending id that matches is settled.
SettleShare ==
    \E answer \in Answer :
        /\ ReadAnswer(answer)
        /\ PassesAuthorize(answer)
        /\ \E i \in Matching(answer) :
              /\ \A j \in Matching(answer) : i <= j
              /\ ErasePending(i)
        /\ counts' = [counts EXCEPT ![Verdict(answer)] = @ + 1]
        /\ UNCHANGED <<authorized, authError>>

IgnoreAnswer ==
    \E answer \in Answer :
        /\ ReadAnswer(answer)
        /\ PassesAuthorize(answer)
        /\ Matching(answer) = {}
        /\ UNCHANGED <<pending, counts, authorized, authError>>

-----------------------------------------------------------------------------
(* The pool and the session *)

\* Answers come in any order; some never come.
PoolAnswers ==
    /\ connected
    /\ \E id \in atPool, ok \in BOOLEAN :
          /\ atPool' = atPool \ {id}
          /\ inbox' = Append(inbox, [id |-> id, ok |-> ok])
          /\ answers' = IF id = AuthorizeId THEN answers
                        ELSE [answers EXCEPT ![ok] = @ + 1]
    /\ UNCHANGED <<impl, pc, connected, session, withdrawn>>

ConnectionLost ==
    /\ connected
    /\ connected' = FALSE
    /\ UNCHANGED <<impl, pc, session, atPool, inbox, history>>

\* The workers have been joined; reset_session_state keeps ids and counters.
Reconnect ==
    /\ ~connected
    /\ pc = "idle"
    /\ session < MaxSessions
    /\ session' = session + 1
    /\ connected' = TRUE
    /\ authorized' = FALSE
    /\ authError' = FALSE
    /\ atPool' = {AuthorizeId}
    /\ inbox' = <<>>
    /\ UNCHANGED <<submitId, pending, counts, pc, history>>

\* Not a step of the code: the bounds of the model are used up.
Exhausted ==
    /\ pc = "idle"
    /\ submitId > MaxId \/ Len(pending) >= MaxPending
    /\ session = MaxSessions \/ connected
    /\ UNCHANGED vars

Submit == AllocateId \/ SendShare \/ SendIsDropped \/ SendThrows \/ CountSubmitted
Dispatch == TakeForAuthorize \/ SettleShare \/ IgnoreAnswer
Next ==
    Submit \/ Dispatch \/ PoolAnswers \/ ConnectionLost \/ Reconnect \/ Exhausted

Spec == Init /\ [][Next]_vars

-----------------------------------------------------------------------------
(* Properties *)

\* The counters never show more verdicts of a kind than the pools gave,
\* although one answer may match several pending ids, answers may be taken for
\* the authorization, and ids of dead sessions stay pending.
VerdictsAreThePools ==
    /\ counts["accepted"] <= answers[TRUE]
    /\ counts["rejected"] <= answers[FALSE]

\* Every id handed out is pending, settled once, or taken back: the solver's
\* clean-up after a failed send and the reader's settling, in either order,
\* never take two entries for one id nor lose one.
EveryIdIsAccountedFor ==
    Len(pending) + counts["accepted"] + counts["rejected"] + withdrawn
        = submitId - FirstSubmitId

\* Where in a sequence members of a set are.
Occurrences(seq, set) == {i \in DOMAIN seq : seq[i] \in set}

\* How many of the answers on their way are to shares.
ShareAnswers(coming) == Cardinality(Occurrences(coming, [id : Ids, ok : BOOLEAN]))

\* The ids handed out so far, none of which begins with the digits of another.
IdsAreDistinguishable ==
    \A i, j \in {AuthorizeId} \cup (FirstSubmitId .. submitId - 1) :
        MatchesRpcId(i, j) => i = j

\* As long as no id begins with the digits of another one (the first 17 shares)
\* and the first connection lasts, every verdict of the pool is counted, in
\* whatever order the answers come: an id is pending before the pool can know
\* of it.
EveryVerdictIsCounted ==
    IdsAreDistinguishable /\ session = 1 =>
        answers[TRUE] + answers[FALSE]
            = counts["accepted"] + counts["rejected"] + ShareAnswers(inbox)

\* An answer settles the share it answers ("Parse mining.submit / other RPC
\* responses with an id field", stratum_protocol.h).
AnswerSettlesItsShare ==
    [][inbox # <<>> /\ inbox' = Tail(inbox) /\ Head(inbox).id \in ToSet(pending)
          => Head(inbox).id \notin ToSet(pending')]_vars
=============================================================================
