--------------------------- MODULE MCNonceCursor ---------------------------
(* NonceCursor for TLC: one winning nonce in each chunk of each job, so that *)
(* every chunk may hold a share and a false positive.  A job with a parent   *)
(* has any combination of clean_jobs and start, or cannot be converted; one  *)
(* without a parent starts away from 0.                                      *)
EXTENDS NonceCursor

MCWinners == {<<j, n>> \in (1 .. MaxJobs) \X (0 .. MaxNonce) : n % 2 = j % 2}
Offer(p, clean, start, complete) ==
    [parent |-> p, clean |-> clean, start |-> start, complete |-> complete]
MCOffers ==
    {Offer(1, clean, start, TRUE) : clean \in BOOLEAN, start \in {0, 2}}
    \cup {Offer(1, FALSE, 0, FALSE), Offer(NoParent, FALSE, 2, TRUE)}
=============================================================================
