---------------------------- MODULE MCEventStore ----------------------------
(* Two processes on one run directory. *)
EXTENDS EventStore

ProcessSymmetry == Permutations(Processes)
=============================================================================
