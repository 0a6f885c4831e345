---------------------------- MODULE MCRunReceipts ----------------------------
(* Two tasks, one of them with a retry. *)
EXTENDS RunReceipts, TLC

CONSTANTS t1, t2

OneRetry == (t1 :> 2) @@ (t2 :> 1)
NoRetry  == (t1 :> 1) @@ (t2 :> 1)
=============================================================================
