--------------------------- MODULE MCRunRecovery ---------------------------
(* Two callers that recover to one run id, a fresh or a taken one. *)
EXTENDS RunRecovery, TLC

Symmetry == Permutations(Callers)
=============================================================================
