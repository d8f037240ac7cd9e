---------------------------- MODULE MCShareLedger ---------------------------
(* ShareLedger for TLC.  In base 3 the ids 6 and 7 begin with the digit 2 of  *)
(* the authorize id and 9 with the digits of 3, while 3, 4 and 5 are           *)
(* distinguishable: a handful of shares meets what takes dozens in base 10.    *)
EXTENDS ShareLedger
=============================================================================
