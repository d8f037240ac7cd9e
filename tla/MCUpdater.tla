------------------------------ MODULE MCUpdater ------------------------------
(* Updater for TLC: miners that may change places. *)
EXTENDS Updater, TLC

Symmetric == Permutations(Miners)
=============================================================================
