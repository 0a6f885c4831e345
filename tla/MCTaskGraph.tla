----------------------------- MODULE MCTaskGraph -----------------------------
(* Every graph on four tasks whose weights tell all ways apart. *)
EXTENDS TaskGraphAlgorithms

MCTasks == 1..4
MCWeight == [t \in MCTasks |-> 2 ^ (t - 1)]
=============================================================================
