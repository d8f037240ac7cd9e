------------------------- MODULE ShareLedgerProofs -------------------------
(***************************************************************************)
(* Proofs about ShareLedger, for every number of ids, of ids pending and   *)
(* of sessions, and whichever ids begin with the digits of others: what    *)
(* the counters of shares say, although the pool's answers are matched by  *)
(* substring.                                                              *)
(***************************************************************************)
EXTENDS ShareLedger, FunctionTheorems, FiniteSetTheorems, TLAPS

\* Answers to shares, by verdict: those the pools gave, and those of them that
\* are on their way.
YesGiven(given) == given[TRUE]
NoGiven(given) == given[FALSE]
ShareVerdicts(oks) == [id : Ids, ok : oks]
YesComing(coming) == Cardinality(Occurrences(coming, ShareVerdicts({TRUE})))
NoComing(coming) == Cardinality(Occurrences(coming, ShareVerdicts({FALSE})))

\* Every id in use has been handed out.
IdsInv ==
    /\ pc # "idle" => submitId > FirstSubmitId
    /\ \A i \in DOMAIN pending : pending[i] < submitId
    /\ \A id \in atPool : id < submitId
    /\ \A i \in DOMAIN inbox : inbox[i].id < submitId

\* Each verdict counted is one of the pool's that has been read.
CreditInv ==
    /\ counts["accepted"] + YesComing(inbox) <= YesGiven(answers)
    /\ counts["rejected"] + NoComing(inbox) <= NoGiven(answers)

\* Whatever the pool knows of is pending; it answers a share once, and a share
\* that is about to be sent not before.
Traceable ==
    /\ \A id \in atPool : id # AuthorizeId => id \in ToSet(pending)
    /\ \A i \in DOMAIN inbox :
          inbox[i].id # AuthorizeId =>
              /\ inbox[i].id \in ToSet(pending)
              /\ inbox[i].id \notin atPool
              /\ \A j \in DOMAIN inbox : inbox[j].id = inbox[i].id => i = j
    /\ pc = "send" =>
          /\ CurrentId \in ToSet(pending)
          /\ CurrentId \notin atPool
          /\ \A i \in DOMAIN inbox : inbox[i].id # CurrentId

AllCounted ==
    YesGiven(answers) + NoGiven(answers)
        = counts["accepted"] + counts["rejected"] + ShareAnswers(inbox)

FirstSessionInv ==
    IdsAreDistinguishable /\ session = 1 => Traceable /\ AllCounted

-----------------------------------------------------------------------------
(* Sequences *)

LEMMA RemoveAtFacts ==
    ASSUME NEW S, NEW seq \in Seq(S), NEW i \in DOMAIN seq
    PROVE  /\ RemoveAt(seq, i) \in Seq(S)
           /\ Len(RemoveAt(seq, i)) = Len(seq) - 1
           /\ \A k \in 1 .. Len(seq) - 1 :
                 RemoveAt(seq, i)[k] = IF k < i THEN seq[k] ELSE seq[k + 1]
<1> DEFINE front == SubSeq(seq, 1, i - 1)
           back == SubSeq(seq, i + 1, Len(seq))
<1>1. i \in 1 .. Len(seq) /\ Len(seq) \in Nat
  OBVIOUS
<1>2. /\ front \in Seq(S)
      /\ Len(front) = i - 1
      /\ \A k \in 1 .. i - 1 : front[k] = seq[k]
  BY <1>1
<1>3. /\ back \in Seq(S)
      /\ Len(back) = Len(seq) - i
      /\ \A k \in 1 .. Len(seq) - i : back[k] = seq[k + i]
  BY <1>1
<1>4. RemoveAt(seq, i) = front \o back
  BY DEF RemoveAt
<1> HIDE DEF front, back
<1>5. /\ front \o back \in Seq(S)
      /\ Len(front \o back) = Len(front) + Len(back)
      /\ \A k \in 1 .. Len(front) + Len(back) :
            (front \o back)[k] = IF k <= Len(front) THEN front[k]
                                 ELSE back[k - Len(front)]
  BY <1>2, <1>3
<1> DEFINE joined == front \o back
<1> HIDE DEF joined
<1>6. /\ joined \in Seq(S) /\ Len(joined) = Len(seq) - 1
      /\ \A k \in 1 .. i - 1 : joined[k] = front[k]
      /\ \A k \in i .. Len(seq) - 1 : joined[k] = back[k - (i - 1)]
  <2>1. /\ joined \in Seq(S) /\ Len(joined) = Len(seq) - 1
        /\ \A k \in 1 .. Len(seq) - 1 :
              joined[k] = IF k <= i - 1 THEN front[k] ELSE back[k - (i - 1)]
    <3>1. Len(front) + Len(back) = Len(seq) - 1
      BY <1>1, <1>2, <1>3
    <3> QED
      BY <1>2, <1>5, <3>1 DEF joined
  <2>2. \A k \in 1 .. i - 1 : k \in 1 .. Len(seq) - 1 /\ k <= i - 1
    BY <1>1
  <2>3. \A k \in i .. Len(seq) - 1 : k \in 1 .. Len(seq) - 1 /\ ~ k <= i - 1
    BY <1>1
  <2> QED
    BY <2>1, <2>2, <2>3
<1>7. \A k \in i .. Len(seq) - 1 :
          k - (i - 1) \in 1 .. Len(seq) - i /\ (k - (i - 1)) + i = k + 1
  BY <1>1
<1>8. \A k \in i .. Len(seq) - 1 : joined[k] = seq[k + 1]
  BY <1>3, <1>6, <1>7
<1>9. \A k \in 1 .. Len(seq) - 1 : IF k < i THEN k \in 1 .. i - 1
                                              ELSE k \in i .. Len(seq) - 1
  BY <1>1
<1>10. \A k \in 1 .. Len(seq) - 1 : joined[k] = IF k < i THEN seq[k] ELSE seq[k + 1]
  BY <1>2, <1>6, <1>8, <1>9
<1> QED
  BY <1>4, <1>6, <1>10 DEF joined

\* Appending and taking from the front, seen by who counts the members of a set.
LEMMA OccurrencesFinite ==
    ASSUME NEW S, NEW seq \in Seq(S), NEW set
    PROVE  /\ IsFiniteSet(Occurrences(seq, set))
           /\ Cardinality(Occurrences(seq, set)) \in Nat
<1>1. Occurrences(seq, set) \in SUBSET (1 .. Len(seq)) /\ Len(seq) \in Nat
  BY DEF Occurrences
<1>2. IsFiniteSet(1 .. Len(seq))
  BY <1>1, FS_Interval
<1> QED
  BY <1>1, <1>2, FS_Subset, FS_CardinalityType

LEMMA OccurrencesAppend ==
    ASSUME NEW S, NEW seq \in Seq(S), NEW x \in S, NEW set
    PROVE  Cardinality(Occurrences(Append(seq, x), set)) =
               Cardinality(Occurrences(seq, set)) + (IF x \in set THEN 1 ELSE 0)
<1>1. Len(seq) + 1 \notin Occurrences(seq, set)
  BY DEF Occurrences
<1>2. Occurrences(Append(seq, x), set) =
          Occurrences(seq, set) \cup (IF x \in set THEN {Len(seq) + 1} ELSE {})
  BY DEF Occurrences
<1>3. IsFiniteSet(Occurrences(seq, set)) /\ Cardinality(Occurrences(seq, set)) \in Nat
  BY OccurrencesFinite
<1>4. CASE x \in set
  BY <1>1, <1>2, <1>3, <1>4, FS_AddElement
<1>5. CASE x \notin set
  BY <1>2, <1>3, <1>5
<1> QED
  BY <1>4, <1>5

LEMMA OccurrencesTail ==
    ASSUME NEW S, NEW seq \in Seq(S), seq # <<>>, NEW set
    PROVE  Cardinality(Occurrences(seq, set)) =
               Cardinality(Occurrences(Tail(seq), set))
                   + (IF Head(seq) \in set THEN 1 ELSE 0)
<1> DEFINE later == Occurrences(seq, set) \ {1}
           shift == [i \in later |-> i - 1]
<1>1. /\ Len(seq) \in Nat \ {0} /\ Tail(seq) \in Seq(S)
      /\ Len(Tail(seq)) = Len(seq) - 1 /\ DOMAIN seq = 1 .. Len(seq)
      /\ \A i \in 1 .. Len(seq) - 1 : Tail(seq)[i] = seq[i + 1]
      /\ Head(seq) = seq[1]
  OBVIOUS
<1>2. shift \in Bijection(later, Occurrences(Tail(seq), set))
  <2>1. \A i \in later : i \in Nat \ {0, 1} /\ i - 1 \in Occurrences(Tail(seq), set)
    BY <1>1 DEF Occurrences
  <2>2. \A i \in Occurrences(Tail(seq), set) : i + 1 \in later /\ (i + 1) - 1 = i
    BY <1>1 DEF Occurrences
  <2> QED
    BY <2>1, <2>2, Fun_IsBij
<1>3. IsFiniteSet(later) /\ Cardinality(later) = Cardinality(Occurrences(Tail(seq), set))
  BY <1>2, FS_Bijection, FS_RemoveElement, OccurrencesFinite DEF ExistsBijection
<1>4. 1 \in Occurrences(seq, set) <=> Head(seq) \in set
  BY <1>1 DEF Occurrences
<1> QED
  BY <1>1, <1>3, <1>4, OccurrencesFinite, FS_RemoveElement

-----------------------------------------------------------------------------
(* Operators of the model *)

LEMMA DivBound ==
    ASSUME NEW x \in Nat, NEW power \in Nat \ {0}
    PROVE  x \div power \in 0 .. x
<1> DEFINE quotient == x \div power
<1>1. /\ quotient \in Int /\ x % power \in 0 .. power - 1
      /\ x = power * quotient + (x % power)
  OBVIOUS
<1>2. quotient <= -1 => power * quotient <= -power
  BY <1>1
<1>3. quotient >= 0 => power * quotient >= quotient
  BY <1>1
<1> QED
  BY <1>1, <1>2, <1>3

\* An id begins with its own digits.
LEMMA IdMatchesItself ==
    ASSUME NEW id \in Nat PROVE MatchesRpcId(id, id)
<1>1. 1 \in Powers /\ id \div 1 = id
  BY LedgerAssumption
<1> QED
  BY <1>1 DEF MatchesRpcId

\* The answer to the authorization settles no share.
LEMMA AuthorizeSettlesNothing ==
    ASSUME TypeOK, NEW answer \in Answer, NEW i \in Matching(answer)
    PROVE  answer.id \in Ids
<1>1. pending[i] \in Ids
  BY DEF Matching, TypeOK
<1>2. PICK power \in Powers : answer.id \div power = pending[i]
  BY DEF Matching, MatchesRpcId
<1>3. SUFFICES ASSUME answer.id = AuthorizeId PROVE FALSE
  BY DEF Answer
<1>4. power \in Nat \ {0}
  BY LedgerAssumption
<1>5. pending[i] \in 0 .. AuthorizeId
  BY <1>2, <1>3, <1>4, DivBound DEF AuthorizeId
<1> QED
  BY <1>1, <1>5 DEF Ids, AuthorizeId, FirstSubmitId

LEMMA Erased ==
    ASSUME TypeOK, NEW i \in DOMAIN pending, ErasePending(i)
    PROVE  /\ pending' \in Seq(Ids)
           /\ Len(pending') = Len(pending) - 1
           /\ \A k \in DOMAIN pending' : pending'[k] \in ToSet(pending)
           /\ ToSet(pending) \ {pending[i]} \subseteq ToSet(pending')
<1>1. pending \in Seq(Ids) /\ Len(pending) \in Nat /\ i \in 1 .. Len(pending)
  BY DEF TypeOK
<1>2. /\ pending' \in Seq(Ids)
      /\ Len(pending') = Len(pending) - 1
      /\ \A k \in 1 .. Len(pending) - 1 :
            pending'[k] = IF k < i THEN pending[k] ELSE pending[k + 1]
  BY <1>1, RemoveAtFacts DEF ErasePending
<1>3. DOMAIN pending' = 1 .. Len(pending) - 1
  BY <1>1, <1>2
<1>4. \A k \in DOMAIN pending' : pending'[k] \in ToSet(pending)
  BY <1>1, <1>2, <1>3 DEF ToSet
<1>5. ASSUME NEW id \in ToSet(pending), id # pending[i] PROVE id \in ToSet(pending')
  <2>1. PICK k \in 1 .. Len(pending) : id = pending[k] /\ k # i
    BY <1>1, <1>5 DEF ToSet
  <2>2. CASE k < i
    BY <1>1, <1>2, <1>3, <2>1, <2>2 DEF ToSet
  <2>3. CASE k > i
    <3>1. k - 1 \in 1 .. Len(pending) - 1 /\ ~ k - 1 < i /\ (k - 1) + 1 = k
      BY <1>1, <2>1, <2>3
    <3>2. pending'[k - 1] = id
      BY <1>2, <2>1, <3>1
    <3> QED
      BY <1>3, <3>1, <3>2 DEF ToSet
  <2> QED
    BY <1>1, <2>1, <2>2, <2>3
<1> QED
  BY <1>2, <1>4, <1>5

\* Reading takes the head of the inbox; what is left has the same ids, one
\* place further to the front.
LEMMA ReadFacts ==
    ASSUME TypeOK, NEW answer \in Answer, ReadAnswer(answer)
    PROVE  /\ 1 \in DOMAIN inbox /\ answer = inbox[1]
           /\ inbox' \in Seq(Answer)
           /\ \A i \in DOMAIN inbox' :
                 i + 1 \in DOMAIN inbox /\ i + 1 # 1 /\ inbox'[i] = inbox[i + 1]
<1>1. inbox \in Seq(Answer) /\ inbox # <<>> /\ inbox' = Tail(inbox)
      /\ answer = Head(inbox)
  BY DEF ReadAnswer, TypeOK
<1> QED
  BY <1>1

\* An answer that settles a share is one to a share, and erases an entry.
LEMMA SettleFacts ==
    ASSUME TypeOK, SettleShare
    PROVE  \E answer \in Answer, i \in DOMAIN pending :
              /\ ReadAnswer(answer)
              /\ answer.id \in Ids
              /\ MatchesRpcId(answer.id, pending[i])
              /\ ErasePending(i)
              /\ counts' = [counts EXCEPT ![Verdict(answer)] = @ + 1]
              /\ UNCHANGED <<authorized, authError>>
<1>1. PICK answer \in Answer :
        /\ ReadAnswer(answer)
        /\ \E i \in Matching(answer) : ErasePending(i)
        /\ counts' = [counts EXCEPT ![Verdict(answer)] = @ + 1]
        /\ UNCHANGED <<authorized, authError>>
  BY DEF SettleShare
<1>2. PICK i \in Matching(answer) : ErasePending(i)
  BY <1>1
<1>3. answer.id \in Ids
  BY AuthorizeSettlesNothing
<1>4. i \in DOMAIN pending /\ MatchesRpcId(answer.id, pending[i])
  BY DEF Matching
<1> QED
  BY <1>1, <1>2, <1>3, <1>4

-----------------------------------------------------------------------------
(* Type correctness.  A share is only sent after an id has been allocated. *)

LEMMA InitTypes == Init => TypeOK /\ IdsInv
<1> SUFFICES ASSUME Init PROVE TypeOK /\ IdsInv
  OBVIOUS
<1>1. authorized \in BOOLEAN /\ authError \in BOOLEAN /\ connected \in BOOLEAN
  BY Zenon DEF Init
<1>2. answers \in [BOOLEAN -> Nat]
  BY Zenon DEF Init
<1> QED
  BY <1>1, <1>2, LedgerAssumption
     DEF Init, TypeOK, IdsInv, Ids, Answer, AuthorizeId, FirstSubmitId

LEMMA ReadTypes ==
    ASSUME TypeOK, IdsInv, Dispatch
    PROVE  TypeOK' /\ IdsInv'
<1> USE DEF TypeOK, IdsInv, history
<1>1. PICK answer \in Answer : ReadAnswer(answer)
  BY DEF Dispatch, TakeForAuthorize, SettleShare, IgnoreAnswer
<1>2. /\ UNCHANGED <<submitId, pc, connected, session, atPool, withdrawn, answers>>
      /\ inbox' \in Seq(Answer)
      /\ \A i \in DOMAIN inbox' : inbox'[i].id < submitId
  BY <1>1, ReadFacts DEF ReadAnswer
<1>3. CASE TakeForAuthorize
  <2>1. PICK taken \in Answer : /\ authorized' = taken.ok
                               /\ authError' = (authError \/ ~taken.ok)
    BY <1>3 DEF TakeForAuthorize
  <2>2. taken.ok \in BOOLEAN
    BY DEF Answer
  <2>3. authorized' \in BOOLEAN /\ authError' \in BOOLEAN
    BY <2>1, <2>2, Zenon
  <2>4. UNCHANGED <<pending, counts>>
    BY <1>3 DEF TakeForAuthorize
  <2> QED
    BY <1>2, <2>3, <2>4
<1>4. CASE SettleShare
  <2>1. PICK settled \in Answer, i \in DOMAIN pending :
          /\ ErasePending(i)
          /\ counts' = [counts EXCEPT ![Verdict(settled)] = @ + 1]
          /\ UNCHANGED <<authorized, authError>>
    BY <1>4, SettleFacts
  <2>2. pending' \in Seq(Ids) /\ \A k \in DOMAIN pending' : pending'[k] < submitId
    BY <2>1, Erased DEF ToSet
  <2>3. counts' \in [{"submitted", "accepted", "rejected"} -> Nat]
    BY <2>1 DEF Verdict
  <2> QED
    BY <1>2, <2>1, <2>2, <2>3
<1>5. CASE IgnoreAnswer
  BY <1>2, <1>5 DEF IgnoreAnswer
<1> QED
  BY <1>3, <1>4, <1>5 DEF Dispatch

LEMMA IdsAreNaturals ==
    ASSUME TypeOK
    PROVE  /\ submitId \in Nat
           /\ \A i \in DOMAIN pending : pending[i] \in Nat
           /\ \A id \in atPool : id \in Nat
           /\ \A i \in DOMAIN inbox : inbox[i].id \in Nat
<1>1. Ids \subseteq Nat /\ AuthorizeId \in Nat /\ submitId \in Nat
  BY LedgerAssumption DEF TypeOK, Ids, AuthorizeId, FirstSubmitId
<1>2. \A i \in DOMAIN pending : pending[i] \in Nat
  <2>1. \A i \in DOMAIN pending : pending[i] \in Ids
    BY DEF TypeOK
  <2> QED
    BY <1>1, <2>1
<1>3. \A i \in DOMAIN inbox : inbox[i].id \in Nat
  <2>1. \A i \in DOMAIN inbox : inbox[i] \in Answer
    BY DEF TypeOK
  <2> QED
    BY <1>1, <2>1 DEF Answer
<1> QED
  BY <1>1, <1>2, <1>3 DEF TypeOK

LEMMA NextTypes == TypeOK /\ IdsInv /\ [Next]_vars => TypeOK' /\ IdsInv'
<1> SUFFICES ASSUME TypeOK, IdsInv, [Next]_vars PROVE TypeOK' /\ IdsInv'
  OBVIOUS
<1> USE LedgerAssumption DEF TypeOK, IdsInv, impl, net, history
<1>1. CASE AllocateId
  <2>1. submitId \in Ids /\ submitId' = submitId + 1
    BY <1>1 DEF AllocateId, Ids, FirstSubmitId
  <2>2. /\ pending' \in Seq(Ids) /\ Len(pending') = Len(pending) + 1
        /\ \A i \in DOMAIN pending' :
              pending'[i] = IF i \in DOMAIN pending THEN pending[i] ELSE submitId
    BY <1>1, <2>1 DEF AllocateId
  <2>3. \A i \in DOMAIN pending' : pending'[i] < submitId'
    BY <2>1, <2>2, IdsAreNaturals, SMTT(60)
  <2>4. submitId' \in FirstSubmitId .. (MaxId + 1) /\ submitId' > FirstSubmitId
    BY <2>1 DEF Ids, FirstSubmitId
  <2>5. (\A id \in atPool : id < submitId') /\ \A i \in DOMAIN inbox : inbox[i].id < submitId'
    BY <2>1, IdsAreNaturals, SMTT(60)
  <2> QED
    BY <1>1, <2>2, <2>3, <2>4, <2>5 DEF AllocateId
<1>2. CASE SendShare
  <2>1. CurrentId \in Ids /\ CurrentId < submitId
    BY <1>2 DEF SendShare, CurrentId, Ids, FirstSubmitId
  <2> QED
    BY <1>2, <2>1 DEF SendShare
<1>3. CASE SendIsDropped
  BY <1>3 DEF SendIsDropped
<1>4. CASE SendThrows
  <2>1. CASE UNCHANGED <<pending, withdrawn>>
    BY <1>4, <2>1 DEF SendThrows
  <2>2. CASE /\ \E i \in DOMAIN pending : ErasePending(i)
             /\ withdrawn' = withdrawn + 1
    <3>1. pending' \in Seq(Ids) /\ \A k \in DOMAIN pending' : pending'[k] < submitId
      BY <2>2, Erased DEF ToSet
    <3> QED
      BY <1>4, <2>2, <3>1 DEF SendThrows
  <2> QED
    BY <1>4, <2>1, <2>2 DEF SendThrows
<1>5. CASE CountSubmitted
  BY <1>5 DEF CountSubmitted
<1>6. CASE Dispatch
  BY <1>6, ReadTypes
<1>7. CASE PoolAnswers
  <2>1. PICK id \in atPool, ok \in BOOLEAN :
          /\ atPool' = atPool \ {id}
          /\ inbox' = Append(inbox, [id |-> id, ok |-> ok])
          /\ answers' = IF id = AuthorizeId THEN answers
                        ELSE [answers EXCEPT ![ok] = @ + 1]
    BY <1>7 DEF PoolAnswers
  <2>2. [id |-> id, ok |-> ok] \in Answer
    BY DEF Answer
  <2>3. inbox' \in Seq(Answer) /\ \A i \in DOMAIN inbox' : inbox'[i].id < submitId
    BY <2>1, <2>2
  <2>4. answers' \in [BOOLEAN -> Nat]
    BY <2>1
  <2> QED
    BY <1>7, <2>1, <2>3, <2>4 DEF PoolAnswers
<1>8. CASE ConnectionLost
  BY <1>8 DEF ConnectionLost
<1>9. CASE Reconnect
  <2>1. /\ authorized' \in BOOLEAN /\ authError' \in BOOLEAN /\ connected' \in BOOLEAN
        /\ pc' = "idle" /\ submitId' = submitId /\ atPool' = {AuthorizeId}
    BY <1>9, Zenon DEF Reconnect
  <2>2. AuthorizeId < submitId' /\ atPool' \subseteq Ids \cup {AuthorizeId}
    BY <2>1 DEF AuthorizeId, FirstSubmitId
  <2>3. /\ session' \in 1 .. MaxSessions /\ inbox' = <<>>
        /\ UNCHANGED <<submitId, pending, counts, history>>
    BY <1>9 DEF Reconnect
  <2> QED
    BY <2>1, <2>2, <2>3
<1>10. CASE UNCHANGED vars
  BY <1>10 DEF vars
<1> QED
  BY <1>1, <1>2, <1>3, <1>4, <1>5, <1>6, <1>7, <1>8, <1>9, <1>10
     DEF Next, Submit, Exhausted

LEMMA TypesInvariance == Spec => [](TypeOK /\ IdsInv)
  BY InitTypes, NextTypes, PTL DEF Spec

\* Every variable keeps its type; in particular only ids that were handed out
\* are pending.
THEOREM TypeCorrect == Spec => []TypeOK
  BY TypesInvariance, PTL

-----------------------------------------------------------------------------
(* The ledger.  Each step moves an id, or an answer, from one account to    *)
(* another: these are the moves.                                            *)

LEMMA ReadMoves ==
    ASSUME TypeOK, NEW answer \in Answer, ReadAnswer(answer), NEW oks
    PROVE  Cardinality(Occurrences(inbox, ShareVerdicts(oks))) =
               Cardinality(Occurrences(inbox', ShareVerdicts(oks)))
                   + (IF answer.id \in Ids /\ answer.ok \in oks THEN 1 ELSE 0)
<1>1. inbox \in Seq(Answer) /\ inbox # <<>> /\ inbox' = Tail(inbox)
      /\ answer = Head(inbox)
  BY DEF ReadAnswer, TypeOK
<1>2. answer \in ShareVerdicts(oks) <=> answer.id \in Ids /\ answer.ok \in oks
  BY DEF Answer, ShareVerdicts
<1> QED
  BY <1>1, <1>2, OccurrencesTail

LEMMA AnswerMoves ==
    ASSUME TypeOK, NEW id \in Ids \cup {AuthorizeId}, NEW ok \in BOOLEAN, NEW oks,
           inbox' = Append(inbox, [id |-> id, ok |-> ok])
    PROVE  Cardinality(Occurrences(inbox', ShareVerdicts(oks))) =
               Cardinality(Occurrences(inbox, ShareVerdicts(oks)))
                   + (IF id \in Ids /\ ok \in oks THEN 1 ELSE 0)
<1> DEFINE answer == [id |-> id, ok |-> ok]
<1>1. answer \in Answer /\ inbox \in Seq(Answer)
  BY DEF Answer, TypeOK
<1>2. answer \in ShareVerdicts(oks) <=> id \in Ids /\ ok \in oks
  BY DEF ShareVerdicts
<1> HIDE DEF answer
<1>3. inbox' = Append(inbox, answer)
  BY DEF answer
<1> QED
  BY <1>1, <1>2, <1>3, OccurrencesAppend

LEMMA CountTypes ==
    ASSUME TypeOK
    PROVE  /\ counts["accepted"] \in Nat /\ counts["rejected"] \in Nat
           /\ Len(pending) \in Nat /\ submitId \in Nat /\ withdrawn \in Nat
  BY IdsAreNaturals DEF TypeOK

LEMMA AnswerTypes ==
    ASSUME TypeOK
    PROVE  /\ YesGiven(answers) \in Nat /\ NoGiven(answers) \in Nat
           /\ YesComing(inbox) \in Nat /\ NoComing(inbox) \in Nat
           /\ ShareAnswers(inbox) \in Nat
<1>1. YesGiven(answers) \in Nat /\ NoGiven(answers) \in Nat
  BY Zenon DEF TypeOK, YesGiven, NoGiven
<1>2. /\ YesComing(inbox) \in Nat /\ NoComing(inbox) \in Nat
      /\ ShareAnswers(inbox) \in Nat
  BY OccurrencesFinite DEF TypeOK, YesComing, NoComing, ShareAnswers
<1> QED
  BY <1>1, <1>2

\* Reading an answer to a share takes one from the account of its verdict.
LEMMA ReadAccounts ==
    ASSUME TypeOK, NEW answer \in Answer, ReadAnswer(answer)
    PROVE  /\ YesComing(inbox') \in Nat /\ NoComing(inbox') \in Nat
           /\ ShareAnswers(inbox') \in Nat
           /\ \/ /\ answer.id \notin Ids
                 /\ YesComing(inbox) = YesComing(inbox')
                 /\ NoComing(inbox) = NoComing(inbox')
                 /\ ShareAnswers(inbox) = ShareAnswers(inbox')
              \/ /\ answer.id \in Ids /\ Verdict(answer) = "accepted"
                 /\ YesComing(inbox) = YesComing(inbox') + 1
                 /\ NoComing(inbox) = NoComing(inbox')
                 /\ ShareAnswers(inbox) = ShareAnswers(inbox') + 1
              \/ /\ answer.id \in Ids /\ Verdict(answer) = "rejected"
                 /\ YesComing(inbox) = YesComing(inbox')
                 /\ NoComing(inbox) = NoComing(inbox') + 1
                 /\ ShareAnswers(inbox) = ShareAnswers(inbox') + 1
<1> DEFINE mine(oks) == IF answer.id \in Ids /\ answer.ok \in oks THEN 1 ELSE 0
<1>1. /\ YesComing(inbox) = YesComing(inbox') + mine({TRUE})
      /\ NoComing(inbox) = NoComing(inbox') + mine({FALSE})
      /\ ShareAnswers(inbox) = ShareAnswers(inbox') + mine(BOOLEAN)
  BY ReadMoves, Zenon DEF YesComing, NoComing, ShareAnswers, ShareVerdicts
<1>2. /\ YesComing(inbox') \in Nat /\ NoComing(inbox') \in Nat
      /\ ShareAnswers(inbox') \in Nat
  BY ReadFacts, OccurrencesFinite DEF YesComing, NoComing, ShareAnswers
<1>3. answer.ok = TRUE \/ answer.ok = FALSE
  BY Zenon DEF Answer
<1>4. \/ /\ answer.id \notin Ids
         /\ mine({TRUE}) = 0 /\ mine({FALSE}) = 0 /\ mine(BOOLEAN) = 0
      \/ /\ answer.id \in Ids /\ Verdict(answer) = "accepted"
         /\ mine({TRUE}) = 1 /\ mine({FALSE}) = 0 /\ mine(BOOLEAN) = 1
      \/ /\ answer.id \in Ids /\ Verdict(answer) = "rejected"
         /\ mine({TRUE}) = 0 /\ mine({FALSE}) = 1 /\ mine(BOOLEAN) = 1
  BY <1>3, Zenon DEF Verdict
<1> HIDE DEF mine
<1> QED
  BY <1>1, <1>2, <1>4

\* The pool's answer to a share goes to the account of its verdict.
LEMMA AnswerAccounts ==
    ASSUME TypeOK, PoolAnswers
    PROVE  \/ /\ YesGiven(answers') = YesGiven(answers)
              /\ YesComing(inbox') = YesComing(inbox)
              /\ NoGiven(answers') = NoGiven(answers)
              /\ NoComing(inbox') = NoComing(inbox)
              /\ ShareAnswers(inbox') = ShareAnswers(inbox)
           \/ /\ YesGiven(answers') = YesGiven(answers) + 1
              /\ YesComing(inbox') = YesComing(inbox) + 1
              /\ NoGiven(answers') = NoGiven(answers)
              /\ NoComing(inbox') = NoComing(inbox)
              /\ ShareAnswers(inbox') = ShareAnswers(inbox) + 1
           \/ /\ YesGiven(answers') = YesGiven(answers)
              /\ YesComing(inbox') = YesComing(inbox)
              /\ NoGiven(answers') = NoGiven(answers) + 1
              /\ NoComing(inbox') = NoComing(inbox) + 1
              /\ ShareAnswers(inbox') = ShareAnswers(inbox) + 1
<1>1. PICK id \in atPool, ok \in BOOLEAN :
        /\ inbox' = Append(inbox, [id |-> id, ok |-> ok])
        /\ answers' = IF id = AuthorizeId THEN answers
                      ELSE [answers EXCEPT ![ok] = @ + 1]
  BY DEF PoolAnswers
<1>2. id \in Ids \cup {AuthorizeId} /\ (id = AuthorizeId <=> id \notin Ids)
  BY DEF TypeOK, Ids, AuthorizeId, FirstSubmitId
<1> DEFINE mine(oks) == IF id \in Ids /\ ok \in oks THEN 1 ELSE 0
<1>3. /\ YesComing(inbox') = YesComing(inbox) + mine({TRUE})
      /\ NoComing(inbox') = NoComing(inbox) + mine({FALSE})
      /\ ShareAnswers(inbox') = ShareAnswers(inbox) + mine(BOOLEAN)
  BY <1>1, <1>2, AnswerMoves, Zenon
     DEF YesComing, NoComing, ShareAnswers, ShareVerdicts
<1>4. ok = TRUE \/ ok = FALSE
  BY Zenon
<1>5. \/ /\ YesGiven(answers') = YesGiven(answers)
         /\ NoGiven(answers') = NoGiven(answers)
         /\ mine({TRUE}) = 0 /\ mine({FALSE}) = 0 /\ mine(BOOLEAN) = 0
      \/ /\ YesGiven(answers') = YesGiven(answers) + 1
         /\ NoGiven(answers') = NoGiven(answers)
         /\ mine({TRUE}) = 1 /\ mine({FALSE}) = 0 /\ mine(BOOLEAN) = 1
      \/ /\ YesGiven(answers') = YesGiven(answers)
         /\ NoGiven(answers') = NoGiven(answers) + 1
         /\ mine({TRUE}) = 0 /\ mine({FALSE}) = 1 /\ mine(BOOLEAN) = 1
  BY <1>1, <1>2, <1>4, Zenon DEF TypeOK, YesGiven, NoGiven
<1>6. /\ YesComing(inbox) \in Nat /\ NoComing(inbox) \in Nat
      /\ ShareAnswers(inbox) \in Nat
  BY AnswerTypes
<1> HIDE DEF mine
<1> QED
  BY <1>3, <1>5, <1>6

-----------------------------------------------------------------------------
(* What the counters say *)

LedgerInv ==
    TypeOK /\ IdsInv /\ EveryIdIsAccountedFor /\ CreditInv

LEMMA InitLedger == Init => LedgerInv
<1> SUFFICES ASSUME Init PROVE LedgerInv
  OBVIOUS
<1>1. YesComing(inbox) = 0 /\ NoComing(inbox) = 0
  <2>1. \A set : Occurrences(inbox, set) = {}
    BY DEF Init, Occurrences
  <2> QED
    BY <2>1, FS_EmptySet DEF YesComing, NoComing
<1>2. YesGiven(answers) = 0 /\ NoGiven(answers) = 0
  BY Zenon DEF Init, YesGiven, NoGiven
<1>3. CreditInv
  BY <1>1, <1>2 DEF Init, CreditInv
<1>4. EveryIdIsAccountedFor
  BY DEF Init, EveryIdIsAccountedFor, FirstSubmitId
<1> QED
  BY <1>3, <1>4, InitTypes DEF LedgerInv

\* A step that reads no answer and hears of none keeps the credit.
LEMMA SameCredit ==
    ASSUME CreditInv, inbox' = inbox, answers' = answers,
           counts'["accepted"] = counts["accepted"],
           counts'["rejected"] = counts["rejected"]
    PROVE  CreditInv'
  BY DEF CreditInv, YesComing, NoComing, YesGiven, NoGiven, ShareVerdicts, Ids

\* An entry that leaves the queue goes to one of the other accounts.
LEMMA EntryMoves ==
    ASSUME TypeOK, EveryIdIsAccountedFor,
           submitId' = submitId, Len(pending') = Len(pending) - 1,
           \/ /\ counts'["accepted"] = counts["accepted"] + 1
              /\ counts'["rejected"] = counts["rejected"] /\ withdrawn' = withdrawn
           \/ /\ counts'["accepted"] = counts["accepted"]
              /\ counts'["rejected"] = counts["rejected"] + 1 /\ withdrawn' = withdrawn
           \/ /\ counts'["accepted"] = counts["accepted"]
              /\ counts'["rejected"] = counts["rejected"] /\ withdrawn' = withdrawn + 1
    PROVE  EveryIdIsAccountedFor'
<1>0. /\ counts["accepted"] \in Nat /\ counts["rejected"] \in Nat
      /\ Len(pending) \in Nat /\ submitId \in Nat /\ withdrawn \in Nat
  BY CountTypes
<1>9. Len(pending) + counts["accepted"] + counts["rejected"] + withdrawn
          = submitId - FirstSubmitId
  BY DEF EveryIdIsAccountedFor
<1>1. CASE /\ counts'["accepted"] = counts["accepted"] + 1
           /\ counts'["rejected"] = counts["rejected"] /\ withdrawn' = withdrawn
  <2>1. (Len(pending) - 1) + (counts["accepted"] + 1) + counts["rejected"] + withdrawn
            = submitId - FirstSubmitId
    BY <1>0, <1>9 DEF FirstSubmitId
  <2> QED
    BY <1>1, <2>1, Zenon DEF EveryIdIsAccountedFor
<1>2. CASE /\ counts'["accepted"] = counts["accepted"]
           /\ counts'["rejected"] = counts["rejected"] + 1 /\ withdrawn' = withdrawn
  <2>1. (Len(pending) - 1) + counts["accepted"] + (counts["rejected"] + 1) + withdrawn
            = submitId - FirstSubmitId
    BY <1>0, <1>9 DEF FirstSubmitId
  <2> QED
    BY <1>2, <2>1, Zenon DEF EveryIdIsAccountedFor
<1>3. CASE /\ counts'["accepted"] = counts["accepted"]
           /\ counts'["rejected"] = counts["rejected"] /\ withdrawn' = withdrawn + 1
  <2>1. (Len(pending) - 1) + counts["accepted"] + counts["rejected"] + (withdrawn + 1)
            = submitId - FirstSubmitId
    BY <1>0, <1>9, SMTT(60) DEF FirstSubmitId
  <2> QED
    BY <1>3, <2>1, Zenon DEF EveryIdIsAccountedFor
<1> QED
  BY <1>1, <1>2, <1>3

\* A verdict that is read is counted.
LEMMA VerdictMoves ==
    ASSUME TypeOK, CreditInv, UNCHANGED answers,
           YesComing(inbox') \in Nat, NoComing(inbox') \in Nat,
           \/ /\ YesComing(inbox) = YesComing(inbox') + 1
              /\ NoComing(inbox) = NoComing(inbox')
              /\ counts'["accepted"] = counts["accepted"] + 1
              /\ counts'["rejected"] = counts["rejected"]
           \/ /\ YesComing(inbox) = YesComing(inbox')
              /\ NoComing(inbox) = NoComing(inbox') + 1
              /\ counts'["accepted"] = counts["accepted"]
              /\ counts'["rejected"] = counts["rejected"] + 1
    PROVE  CreditInv'
<1>1. YesGiven(answers') = YesGiven(answers) /\ NoGiven(answers') = NoGiven(answers)
  BY Zenon DEF YesGiven, NoGiven
<1>2. /\ counts'["accepted"] + YesComing(inbox') = counts["accepted"] + YesComing(inbox)
      /\ counts'["rejected"] + NoComing(inbox') = counts["rejected"] + NoComing(inbox)
  <2>1. /\ (counts["accepted"] + 1) + YesComing(inbox') =
              counts["accepted"] + (YesComing(inbox') + 1)
        /\ (counts["rejected"] + 1) + NoComing(inbox') =
              counts["rejected"] + (NoComing(inbox') + 1)
    <3>1. counts["accepted"] \in Nat /\ counts["rejected"] \in Nat
      BY CountTypes
    <3> QED
      BY <3>1
  <2> QED
    BY <2>1, Zenon
<1>3. /\ counts'["accepted"] + YesComing(inbox') <= YesGiven(answers')
      /\ counts'["rejected"] + NoComing(inbox') <= NoGiven(answers')
  BY <1>1, <1>2, Zenon DEF CreditInv
<1> QED
  BY <1>3 DEF CreditInv

LEMMA DispatchLedger == LedgerInv /\ Dispatch => EveryIdIsAccountedFor' /\ CreditInv'
<1> SUFFICES ASSUME TypeOK, EveryIdIsAccountedFor, CreditInv, Dispatch
             PROVE  EveryIdIsAccountedFor' /\ CreditInv'
  BY DEF LedgerInv
<1>1. CASE SettleShare
  <2>1. PICK answer \in Answer, i \in DOMAIN pending :
          /\ ReadAnswer(answer)
          /\ answer.id \in Ids
          /\ ErasePending(i)
          /\ counts' = [counts EXCEPT ![Verdict(answer)] = @ + 1]
    BY <1>1, SettleFacts
  <2>2. UNCHANGED <<submitId, withdrawn, answers>> /\ Len(pending') = Len(pending) - 1
    BY <2>1, Erased DEF ReadAnswer, history
  <2>3. counts \in [{"submitted", "accepted", "rejected"} -> Nat]
    BY DEF TypeOK
  <2>4. \/ /\ YesComing(inbox) = YesComing(inbox') + 1
           /\ NoComing(inbox) = NoComing(inbox')
           /\ counts'["accepted"] = counts["accepted"] + 1
           /\ counts'["rejected"] = counts["rejected"]
        \/ /\ YesComing(inbox) = YesComing(inbox')
           /\ NoComing(inbox) = NoComing(inbox') + 1
           /\ counts'["accepted"] = counts["accepted"]
           /\ counts'["rejected"] = counts["rejected"] + 1
    <3>1. \/ /\ Verdict(answer) = "accepted"
             /\ YesComing(inbox) = YesComing(inbox') + 1
             /\ NoComing(inbox) = NoComing(inbox')
          \/ /\ Verdict(answer) = "rejected"
             /\ YesComing(inbox) = YesComing(inbox')
             /\ NoComing(inbox) = NoComing(inbox') + 1
      BY <2>1, ReadAccounts
    <3> QED
      BY <2>1, <2>3, <3>1
  <2>5. YesComing(inbox') \in Nat /\ NoComing(inbox') \in Nat
    BY <2>1, ReadAccounts
  <2>6. EveryIdIsAccountedFor'
    BY <2>2, <2>4, EntryMoves
  <2>7. CreditInv'
    BY <2>2, <2>4, <2>5, VerdictMoves
  <2> QED
    BY <2>6, <2>7
<1>2. CASE TakeForAuthorize \/ IgnoreAnswer
  <2>1. PICK answer \in Answer : ReadAnswer(answer)
    BY <1>2 DEF TakeForAuthorize, IgnoreAnswer
  <2>2. UNCHANGED <<submitId, withdrawn, answers, pending, counts>>
    BY <1>2, <2>1 DEF ReadAnswer, TakeForAuthorize, IgnoreAnswer, history
  <2>3. /\ YesComing(inbox') \in Nat /\ NoComing(inbox') \in Nat
        /\ YesComing(inbox') <= YesComing(inbox) /\ NoComing(inbox') <= NoComing(inbox)
    BY <2>1, ReadAccounts
  <2>4. EveryIdIsAccountedFor'
    BY <2>2 DEF EveryIdIsAccountedFor
  <2>5. CreditInv'
    BY <2>2, <2>3, CountTypes, AnswerTypes, SMTT(60) DEF CreditInv
  <2> QED
    BY <2>4, <2>5
<1> QED
  BY <1>1, <1>2 DEF Dispatch

LEMMA NextLedger == LedgerInv /\ [Next]_vars => LedgerInv'
<1> SUFFICES ASSUME LedgerInv, [Next]_vars
             PROVE  EveryIdIsAccountedFor' /\ CreditInv'
  BY NextTypes DEF LedgerInv
<1>0. TypeOK /\ EveryIdIsAccountedFor /\ CreditInv
  BY DEF LedgerInv
<1> USE <1>0 DEF impl, net, history
<1>1. counts \in [{"submitted", "accepted", "rejected"} -> Nat]
  BY DEF TypeOK
<1>2. CASE AllocateId
  <2>1. Len(pending') = Len(pending) + 1 /\ submitId' = submitId + 1
    BY <1>2 DEF AllocateId, TypeOK
  <2>2. UNCHANGED <<counts, withdrawn>>
    BY <1>2 DEF AllocateId
  <2>3. EveryIdIsAccountedFor'
    BY <2>1, <2>2, CountTypes, SMTT(60) DEF EveryIdIsAccountedFor, FirstSubmitId
  <2> QED
    BY <1>2, <2>2, <2>3, SameCredit DEF AllocateId
<1>3. CASE SendShare
  BY <1>3, SameCredit DEF SendShare, EveryIdIsAccountedFor
<1>4. CASE SendIsDropped
  BY <1>4, SameCredit DEF SendIsDropped, EveryIdIsAccountedFor
<1>5. CASE SendThrows
  <2>1. UNCHANGED <<submitId, counts, inbox, answers>>
    BY <1>5 DEF SendThrows
  <2>2. CASE UNCHANGED <<pending, withdrawn>>
    BY <2>1, <2>2, SameCredit DEF EveryIdIsAccountedFor
  <2>3. CASE /\ \E i \in DOMAIN pending : ErasePending(i)
             /\ withdrawn' = withdrawn + 1
    <3>1. Len(pending') = Len(pending) - 1
      BY <2>3, Erased
    <3>2. UNCHANGED <<submitId, counts>> /\ withdrawn' = withdrawn + 1
      BY <2>1, <2>3
    <3>3. EveryIdIsAccountedFor'
      BY <3>1, <3>2, EntryMoves
    <3> QED
      BY <2>1, <3>3, SameCredit
  <2> QED
    BY <1>5, <2>2, <2>3 DEF SendThrows
<1>6. CASE CountSubmitted
  <2>1. /\ counts'["accepted"] = counts["accepted"]
        /\ counts'["rejected"] = counts["rejected"]
        /\ UNCHANGED <<submitId, pending, withdrawn, inbox, answers>>
    BY <1>1, <1>6 DEF CountSubmitted
  <2> QED
    BY <2>1, SameCredit DEF EveryIdIsAccountedFor
<1>7. CASE Dispatch
  BY <1>7, DispatchLedger
<1>8. CASE PoolAnswers
  <2>1. UNCHANGED <<submitId, pending, counts, withdrawn>>
    BY <1>8 DEF PoolAnswers
  <2>2. EveryIdIsAccountedFor'
    BY <2>1 DEF EveryIdIsAccountedFor
  <2>3. CreditInv'
    <3>1. counts' = counts
      BY <2>1
    <3> QED
      BY <1>8, <3>1, AnswerAccounts, CountTypes, AnswerTypes, SMTT(60) DEF CreditInv
  <2> QED
    BY <2>2, <2>3
<1>9. CASE ConnectionLost
  BY <1>9, SameCredit DEF ConnectionLost, EveryIdIsAccountedFor
<1>10. CASE Reconnect
  <2>1. UNCHANGED <<submitId, pending, counts, withdrawn, answers>> /\ inbox' = <<>>
    BY <1>10 DEF Reconnect
  <2>2. YesComing(inbox') = 0 /\ NoComing(inbox') = 0
    <3>1. \A set : Occurrences(inbox', set) = {}
      BY <2>1 DEF Occurrences
    <3> QED
      BY <3>1, FS_EmptySet DEF YesComing, NoComing
  <2>3. EveryIdIsAccountedFor'
    BY <2>1 DEF EveryIdIsAccountedFor
  <2>4. CreditInv'
    BY <2>1, <2>2, CountTypes, AnswerTypes DEF CreditInv
  <2> QED
    BY <2>3, <2>4
<1>11. CASE UNCHANGED vars
  BY <1>11, SameCredit DEF vars, EveryIdIsAccountedFor
<1> QED
  BY <1>2, <1>3, <1>4, <1>5, <1>6, <1>7, <1>8, <1>9, <1>10, <1>11
     DEF Next, Submit, Exhausted

LEMMA LedgerInvariance == Spec => []LedgerInv
  BY InitLedger, NextLedger, PTL DEF Spec

\* Every id handed out is pending, settled once, or taken back: the solver's
\* clean-up after a failed send and the reader's settling never take two entries
\* for one id, nor lose one, whatever ids an answer matches.
THEOREM IdsAreAccountedFor == Spec => []EveryIdIsAccountedFor
<1>1. LedgerInv => EveryIdIsAccountedFor
  BY DEF LedgerInv
<1> QED
  BY <1>1, LedgerInvariance, PTL

\* The counters never show more verdicts of a kind than the pools gave, over any
\* number of sessions.
THEOREM VerdictsAreNotInvented == Spec => []VerdictsAreThePools
<1>1. LedgerInv => VerdictsAreThePools
  <2> SUFFICES ASSUME LedgerInv PROVE VerdictsAreThePools
    OBVIOUS
  <2>1. /\ counts["accepted"] <= YesGiven(answers)
        /\ counts["rejected"] <= NoGiven(answers)
    BY CountTypes, AnswerTypes DEF LedgerInv, CreditInv
  <2> QED
    BY <2>1, Zenon DEF VerdictsAreThePools, YesGiven, NoGiven
<1> QED
  BY <1>1, LedgerInvariance, PTL

-----------------------------------------------------------------------------
(* While the ids are distinguishable, in the first session *)

LEMMA FewerIds ==
    ASSUME submitId \in Nat, submitId' \in Nat, submitId <= submitId',
           IdsAreDistinguishable'
    PROVE  IdsAreDistinguishable
<1>1. {AuthorizeId} \cup (FirstSubmitId .. submitId - 1)
          \subseteq {AuthorizeId} \cup (FirstSubmitId .. submitId' - 1)
  BY DEF FirstSubmitId
<1>2. \A i, j \in {AuthorizeId} \cup (FirstSubmitId .. submitId' - 1) :
          MatchesRpcId(i, j) => i = j
  BY DEF IdsAreDistinguishable, AuthorizeId, FirstSubmitId, MatchesRpcId
<1> QED
  BY <1>1, <1>2 DEF IdsAreDistinguishable

\* Every id in use is one of those that IdsAreDistinguishable is about.
LEMMA IdsInUse ==
    ASSUME TypeOK, IdsInv
    PROVE  /\ \A i \in DOMAIN pending : pending[i] \in FirstSubmitId .. submitId - 1
           /\ \A i \in DOMAIN inbox :
                 inbox[i].id \in {AuthorizeId} \cup (FirstSubmitId .. submitId - 1)
<1>1. /\ \A i \in DOMAIN pending : pending[i] \in Ids
      /\ \A i \in DOMAIN inbox : inbox[i] \in Answer
  BY DEF TypeOK
<1>2. \A i \in DOMAIN inbox : inbox[i].id \in Ids \cup {AuthorizeId}
  BY <1>1 DEF Answer
<1> QED
  BY <1>1, <1>2, IdsAreNaturals DEF IdsInv, Ids, FirstSubmitId

LEMMA MatchIsExact ==
    ASSUME TypeOK, IdsInv, IdsAreDistinguishable, NEW answer \in Answer, ReadAnswer(answer)
    PROVE  /\ \A i \in DOMAIN pending :
                 MatchesRpcId(answer.id, pending[i]) => answer.id = pending[i]
           /\ MatchesRpcId(answer.id, AuthorizeId) => answer.id = AuthorizeId
<1>1. answer.id \in {AuthorizeId} \cup (FirstSubmitId .. submitId - 1)
  BY ReadFacts, IdsInUse
<1> QED
  BY <1>1, IdsInUse DEF IdsAreDistinguishable

LEMMA DispatchTraceable ==
    ASSUME TypeOK, IdsInv, IdsAreDistinguishable, Traceable, AllCounted, Dispatch
    PROVE  Traceable' /\ AllCounted'
<1>1. PICK answer \in Answer :
        /\ ReadAnswer(answer)
        /\ \/ /\ MatchesRpcId(answer.id, AuthorizeId)
              /\ UNCHANGED <<pending, counts>>
           \/ /\ Matching(answer) = {}
              /\ UNCHANGED <<pending, counts>>
           \/ \E i \in DOMAIN pending :
                 /\ answer.id \in Ids
                 /\ MatchesRpcId(answer.id, pending[i])
                 /\ ErasePending(i)
                 /\ counts' = [counts EXCEPT ![Verdict(answer)] = @ + 1]
  BY SettleFacts DEF Dispatch, TakeForAuthorize, IgnoreAnswer
<1>2. /\ UNCHANGED <<submitId, pc, atPool, answers>>
      /\ CurrentId' = CurrentId
  BY <1>1 DEF ReadAnswer, history, CurrentId
<1>3. /\ 1 \in DOMAIN inbox /\ answer = inbox[1]
      /\ \A i \in DOMAIN inbox' :
            i + 1 \in DOMAIN inbox /\ i + 1 # 1 /\ inbox'[i] = inbox[i + 1]
  BY <1>1, ReadFacts
<1>4. DOMAIN inbox' \subseteq Int
  BY <1>1, ReadFacts
\* Erasing the answered id takes nothing away from what is still to come.
<1>5. ASSUME ToSet(pending) \ {answer.id} \subseteq ToSet(pending')
      PROVE  answer.id # AuthorizeId \/ pending' = pending => Traceable'
  <2> SUFFICES ASSUME answer.id # AuthorizeId \/ pending' = pending
               PROVE  Traceable'
    OBVIOUS
  <2>1. ASSUME NEW id \in ToSet(pending), id # answer.id \/ answer.id = AuthorizeId
        PROVE  id \in ToSet(pending')
    BY <1>5, <2>1
  <2>2. ASSUME NEW id \in atPool', id # AuthorizeId PROVE id \in ToSet(pending')
    BY <1>2, <1>3, <2>1, <2>2 DEF Traceable
  <2>3. ASSUME NEW i \in DOMAIN inbox', inbox'[i].id # AuthorizeId
        PROVE  /\ inbox'[i].id \in ToSet(pending')
               /\ inbox'[i].id \notin atPool'
               /\ \A j \in DOMAIN inbox' : inbox'[j].id = inbox'[i].id => i = j
    <3>1. /\ i + 1 \in DOMAIN inbox /\ i + 1 # 1 /\ inbox'[i].id = inbox[i + 1].id
          /\ i \in Int
      BY <1>3, <1>4
    <3>2. /\ inbox[i + 1].id \in ToSet(pending)
          /\ inbox[i + 1].id \notin atPool
          /\ \A j \in DOMAIN inbox : inbox[j].id = inbox[i + 1].id => i + 1 = j
      BY <2>3, <3>1 DEF Traceable
    <3>3. inbox'[i].id # answer.id
      BY <1>3, <3>1, <3>2
    <3>4. \A j \in DOMAIN inbox' : inbox'[j].id = inbox'[i].id => i = j
      <4>1. SUFFICES ASSUME NEW j \in DOMAIN inbox', inbox'[j].id = inbox'[i].id
                     PROVE  i = j
        OBVIOUS
      <4>2. j + 1 \in DOMAIN inbox /\ inbox[j + 1].id = inbox[i + 1].id /\ j \in Int
        BY <1>3, <1>4, <3>1, <4>1
      <4>3. i + 1 = j + 1
        BY <3>2, <4>2
      <4> QED
        BY <3>1, <4>2, <4>3
    <3> QED
      BY <1>2, <2>1, <3>1, <3>2, <3>3, <3>4
  <2>4. ASSUME pc' = "send"
        PROVE  /\ CurrentId' \in ToSet(pending')
               /\ CurrentId' \notin atPool'
               /\ \A i \in DOMAIN inbox' : inbox'[i].id # CurrentId'
    <3>1. /\ CurrentId \in ToSet(pending) /\ CurrentId \notin atPool
          /\ \A i \in DOMAIN inbox : inbox[i].id # CurrentId
      BY <1>2, <2>4 DEF Traceable
    <3>2. CurrentId # answer.id
      BY <1>3, <3>1
    <3> QED
      BY <1>2, <1>3, <2>1, <3>1, <3>2
  <2> QED
    BY <2>2, <2>3, <2>4 DEF Traceable
<1>6. CASE /\ answer.id = AuthorizeId /\ UNCHANGED <<pending, counts>>
  <2>1. Traceable'
    BY <1>5, <1>6
  <2>2. answer.id \notin Ids
    BY <1>6 DEF Ids, AuthorizeId, FirstSubmitId
  <2>3. ShareAnswers(inbox) = ShareAnswers(inbox')
    BY <1>1, <2>2, ReadAccounts
  <2> QED
    BY <1>2, <1>6, <2>1, <2>3 DEF AllCounted, YesGiven, NoGiven
<1>7. CASE \E i \in DOMAIN pending :
              /\ answer.id \in Ids
              /\ MatchesRpcId(answer.id, pending[i])
              /\ ErasePending(i)
              /\ counts' = [counts EXCEPT ![Verdict(answer)] = @ + 1]
  <2>1. PICK i \in DOMAIN pending :
          /\ answer.id \in Ids
          /\ MatchesRpcId(answer.id, pending[i])
          /\ ErasePending(i)
          /\ counts' = [counts EXCEPT ![Verdict(answer)] = @ + 1]
    BY <1>7
  <2>2. pending[i] = answer.id
    BY <1>1, <2>1, MatchIsExact
  <2>3. answer.id # AuthorizeId
    BY <2>1 DEF Ids, AuthorizeId, FirstSubmitId
  <2>4. Traceable'
    BY <1>5, <2>1, <2>2, <2>3, Erased
  <2>5. ShareAnswers(inbox) = ShareAnswers(inbox') + 1
        /\ ShareAnswers(inbox') \in Nat
    BY <1>1, <2>1, ReadAccounts
  <2>6. \/ /\ counts'["accepted"] = counts["accepted"] + 1
           /\ counts'["rejected"] = counts["rejected"]
        \/ /\ counts'["accepted"] = counts["accepted"]
           /\ counts'["rejected"] = counts["rejected"] + 1
    <3>1. counts \in [{"submitted", "accepted", "rejected"} -> Nat]
      BY DEF TypeOK
    <3> QED
      BY <2>1, <3>1 DEF Verdict
  <2>7. counts["accepted"] \in Nat /\ counts["rejected"] \in Nat
    BY CountTypes
  <2>8. counts'["accepted"] + counts'["rejected"] + ShareAnswers(inbox')
            = counts["accepted"] + counts["rejected"] + ShareAnswers(inbox)
    BY <2>5, <2>6, <2>7
  <2>9. YesGiven(answers') + NoGiven(answers') = YesGiven(answers) + NoGiven(answers)
    BY <1>2, Zenon DEF YesGiven, NoGiven
  <2> QED
    BY <2>4, <2>8, <2>9, Zenon DEF AllCounted
<1>8. CASE Matching(answer) = {} /\ UNCHANGED <<pending, counts>>
  <2>1. SUFFICES ASSUME answer.id # AuthorizeId PROVE FALSE
    BY <1>6, <1>8
  <2>2. answer.id \in ToSet(pending)
    BY <1>3, <2>1 DEF Traceable
  <2>3. PICK i \in DOMAIN pending : pending[i] = answer.id
    BY <2>2 DEF ToSet
  <2>4. MatchesRpcId(answer.id, pending[i])
    BY <2>3, IdsAreNaturals, IdMatchesItself
  <2> QED
    BY <1>8, <2>4 DEF Matching
<1> QED
  BY <1>1, <1>6, <1>7, <1>8, MatchIsExact

\* A step that leaves the answers and the verdicts alone leaves the sums alone.
LEMMA SameCounts ==
    ASSUME AllCounted, inbox' = inbox, answers' = answers,
           counts'["accepted"] = counts["accepted"],
           counts'["rejected"] = counts["rejected"]
    PROVE  AllCounted'
  BY DEF AllCounted, YesGiven, NoGiven

LEMMA SubmitTraceable ==
    ASSUME TypeOK, IdsInv, Traceable, AllCounted, Submit
    PROVE  Traceable' /\ AllCounted'
<1> USE DEF impl, net, history
<1>1. CASE AllocateId
  <2>1. /\ submitId' = submitId + 1 /\ CurrentId' = submitId /\ submitId \in Nat
        /\ UNCHANGED <<counts, inbox, atPool, answers>>
    BY <1>1, IdsAreNaturals DEF AllocateId, CurrentId
  <2>2. pending' = Append(pending, submitId) /\ pending \in Seq(Ids)
    BY <1>1 DEF AllocateId, TypeOK
  <2>3. ToSet(pending) \subseteq ToSet(pending') /\ submitId \in ToSet(pending')
    <3>1. /\ DOMAIN pending' = 1 .. Len(pending) + 1 /\ Len(pending) \in Nat
          /\ DOMAIN pending = 1 .. Len(pending)
          /\ \A k \in 1 .. Len(pending) : pending'[k] = pending[k]
          /\ pending'[Len(pending) + 1] = submitId
      BY <2>2
    <3> QED
      BY <3>1 DEF ToSet
  <2>4. submitId \notin atPool /\ \A i \in DOMAIN inbox : inbox[i].id # submitId
    BY <2>1 DEF IdsInv
  <2> QED
    BY <2>1, <2>3, <2>4, SameCounts DEF Traceable
<1>2. CASE SendShare
  <2>1. /\ pc = "send" /\ pc' = "count" /\ atPool' = atPool \cup {CurrentId}
        /\ UNCHANGED <<pending, counts, inbox, answers>>
    BY <1>2 DEF SendShare
  <2>2. /\ CurrentId \in ToSet(pending)
        /\ \A i \in DOMAIN inbox : inbox[i].id # CurrentId
    BY <2>1 DEF Traceable
  <2> QED
    BY <2>1, <2>2, SameCounts DEF Traceable
<1>3. CASE SendIsDropped
  BY <1>3, SameCounts DEF SendIsDropped, Traceable
<1>4. CASE SendThrows
  <2>1. /\ pc = "send" /\ pc' = "idle"
        /\ UNCHANGED <<counts, inbox, atPool, answers>>
    BY <1>4 DEF SendThrows
  <2>2. CASE UNCHANGED pending
    BY <2>1, <2>2, SameCounts DEF Traceable
  <2>3. CASE \E i \in DOMAIN pending : pending[i] = CurrentId /\ ErasePending(i)
    <3>1. ToSet(pending) \ {CurrentId} \subseteq ToSet(pending')
      BY <2>3, Erased
    <3>2. CurrentId \notin atPool /\ \A i \in DOMAIN inbox : inbox[i].id # CurrentId
      BY <2>1 DEF Traceable
    <3> QED
      BY <2>1, <3>1, <3>2, SameCounts DEF Traceable
  <2> QED
    BY <1>4, <2>2, <2>3 DEF SendThrows
<1>5. CASE CountSubmitted
  <2>1. /\ counts'["accepted"] = counts["accepted"]
        /\ counts'["rejected"] = counts["rejected"]
    BY <1>5 DEF CountSubmitted, TypeOK
  <2>2. pc' = "idle" /\ UNCHANGED <<pending, inbox, atPool, answers>>
    BY <1>5 DEF CountSubmitted
  <2> QED
    BY <2>1, <2>2, SameCounts DEF Traceable
<1> QED
  BY <1>1, <1>2, <1>3, <1>4, <1>5 DEF Submit

LEMMA PoolTraceable ==
    ASSUME TypeOK, IdsInv, Traceable, AllCounted, PoolAnswers
    PROVE  Traceable' /\ AllCounted'
<1>1. UNCHANGED <<submitId, pending, pc, counts>>
  BY DEF PoolAnswers, impl
<1>2. AllCounted'
  <2>1. /\ counts["accepted"] \in Nat /\ counts["rejected"] \in Nat
        /\ counts'["accepted"] = counts["accepted"]
        /\ counts'["rejected"] = counts["rejected"]
    BY <1>1, CountTypes
  <2> QED
    BY <2>1, AnswerAccounts, AnswerTypes DEF AllCounted
<1>3. Traceable'
  <2>1. PICK id \in atPool, ok \in BOOLEAN :
          /\ atPool' = atPool \ {id}
          /\ inbox' = Append(inbox, [id |-> id, ok |-> ok])
    BY DEF PoolAnswers
  <2>2. /\ DOMAIN inbox = 1 .. Len(inbox) /\ Len(inbox) \in Nat
        /\ DOMAIN inbox' = 1 .. Len(inbox) + 1
        /\ \A i \in DOMAIN inbox' :
              IF i \in DOMAIN inbox THEN inbox'[i].id = inbox[i].id
              ELSE i = Len(inbox) + 1 /\ inbox'[i].id = id
    BY <2>1 DEF TypeOK
  <2>3. id # AuthorizeId =>
            id \in ToSet(pending) /\ \A i \in DOMAIN inbox : inbox[i].id # id
    BY DEF Traceable
  <2>4. ASSUME NEW i \in DOMAIN inbox', inbox'[i].id # AuthorizeId
        PROVE  /\ inbox'[i].id \in ToSet(pending)
               /\ inbox'[i].id \notin atPool'
               /\ \A j \in DOMAIN inbox' : inbox'[j].id = inbox'[i].id => i = j
    <3>1. CASE i \in DOMAIN inbox
      BY <2>1, <2>2, <2>3, <2>4, <3>1 DEF Traceable
    <3>2. CASE i \notin DOMAIN inbox
      BY <2>1, <2>2, <2>3, <2>4, <3>2
    <3> QED
      BY <3>1, <3>2
  <2>5. ASSUME pc = "send"
        PROVE  /\ CurrentId \in ToSet(pending)
               /\ CurrentId \notin atPool'
               /\ \A i \in DOMAIN inbox' : inbox'[i].id # CurrentId
    BY <2>1, <2>2, <2>5 DEF Traceable
  <2>6. \A other \in atPool' : other # AuthorizeId => other \in ToSet(pending)
    BY <2>1 DEF Traceable
  <2> QED
    BY <1>1, <2>4, <2>5, <2>6 DEF Traceable, CurrentId
<1> QED
  BY <1>2, <1>3

LEMMA InitFirstSession == Init => FirstSessionInv
<1> SUFFICES ASSUME Init PROVE Traceable /\ AllCounted
  BY DEF FirstSessionInv
<1>1. Traceable
  BY DEF Init, Traceable
<1>2. ShareAnswers(inbox) = 0
  <2>1. \A set : Occurrences(inbox, set) = {}
    BY DEF Init, Occurrences
  <2> QED
    BY <2>1, FS_EmptySet DEF ShareAnswers
<1>3. YesGiven(answers) = 0 /\ NoGiven(answers) = 0
  BY Zenon DEF Init, YesGiven, NoGiven
<1> QED
  BY <1>1, <1>2, <1>3 DEF Init, AllCounted

LEMMA NextFirstSession ==
    TypeOK /\ IdsInv /\ FirstSessionInv /\ [Next]_vars => FirstSessionInv'
<1> SUFFICES ASSUME TypeOK, IdsInv, FirstSessionInv, [Next]_vars,
                    IdsAreDistinguishable', session' = 1
             PROVE  Traceable' /\ AllCounted'
  BY DEF FirstSessionInv
<1> USE DEF impl, net, history
<1>1. submitId \in Nat /\ submitId' \in Nat /\ session \in Nat \ {0}
  <2>1. TypeOK'
    BY NextTypes
  <2> QED
    BY <2>1, LedgerAssumption DEF TypeOK, FirstSubmitId
<1>2. submitId <= submitId' /\ (session' = session \/ session' = session + 1)
  BY <1>1 DEF Next, vars, Submit, Dispatch, AllocateId, SendShare, SendIsDropped,
     SendThrows, CountSubmitted, TakeForAuthorize, SettleShare, IgnoreAnswer,
     ReadAnswer, PoolAnswers, ConnectionLost, Reconnect, Exhausted
<1>3. IdsAreDistinguishable /\ Traceable /\ AllCounted
  BY <1>1, <1>2, FewerIds DEF FirstSessionInv
<1>4. CASE Submit
  BY <1>3, <1>4, SubmitTraceable
<1>5. CASE Dispatch
  BY <1>3, <1>5, DispatchTraceable
<1>6. CASE PoolAnswers
  BY <1>3, <1>6, PoolTraceable
<1>7. CASE ConnectionLost
  BY <1>3, <1>7, SameCounts DEF ConnectionLost, Traceable, CurrentId
<1>8. CASE Reconnect
  BY <1>1, <1>8 DEF Reconnect
<1>9. CASE UNCHANGED vars
  BY <1>3, <1>9, SameCounts DEF vars, Traceable, CurrentId
<1> QED
  BY <1>4, <1>5, <1>6, <1>7, <1>8, <1>9 DEF Next, Exhausted

LEMMA FirstSessionInvariance == Spec => []FirstSessionInv
  BY InitTypes, NextTypes, InitFirstSession, NextFirstSession, PTL DEF Spec

\* As long as no id begins with the digits of another one and the first connection
\* lasts, every verdict of the pool is counted, in whatever order the answers
\* come: an id is pending before the pool can know of it.
THEOREM VerdictsAreCounted == Spec => []EveryVerdictIsCounted
<1>1. FirstSessionInv => EveryVerdictIsCounted
  BY Zenon DEF FirstSessionInv, AllCounted, YesGiven, NoGiven, EveryVerdictIsCounted
<1> QED
  BY <1>1, FirstSessionInvariance, PTL

=============================================================================
