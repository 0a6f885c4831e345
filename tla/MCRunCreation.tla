---------------------------- MODULE MCRunCreation ----------------------------
(* Two callers, two keys, two requests. *)
EXTENDS RunCreation, TLC

Symmetry == Permutations(Callers) \cup Permutations(Keys) \cup Permutations(Requests)
            \cup Permutations(FreshRuns)
=============================================================================
