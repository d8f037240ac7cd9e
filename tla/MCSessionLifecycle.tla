------------------------- MODULE MCSessionLifecycle -------------------------
(* SessionLifecycle and its refinement for TLC; the .cfg files choose the     *)
(* number of endpoints and whether updates are looked for.                    *)
EXTENDS SessionRefinement
=============================================================================
