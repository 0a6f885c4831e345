--------------------------- MODULE MCRunController ---------------------------
(* Small plans for RunController. *)
EXTENDS RunController, TLC

CONSTANTS t1, t2, t3, t4, w1, w2

\* t1 and t3 have no dependency, t2 needs both (an AND join), t4 needs t2.
JoinDeps       == (t1 :> {}) @@ (t2 :> {t1, t3}) @@ (t3 :> {}) @@ (t4 :> {t2})
JoinConflicts  == {{t1, t4}}
JoinRetries    == (t1 :> 1) @@ (t2 :> 0) @@ (t3 :> 0) @@ (t4 :> 0)
JoinEstimates  == (t1 :> 1) @@ (t2 :> 2) @@ (t3 :> 1) @@ (t4 :> 1)

\* Three tasks side by side; t3 is optional and writes where t2 writes; t4
\* follows t1.
WideDeps       == (t1 :> {}) @@ (t2 :> {}) @@ (t3 :> {}) @@ (t4 :> {t1})
WideConflicts  == {{t2, t3}}
WideRetries    == (t1 :> 1) @@ (t2 :> 0) @@ (t3 :> 0) @@ (t4 :> 0)
WideEstimates  == (t1 :> 1) @@ (t2 :> 1) @@ (t3 :> 1) @@ (t4 :> 1)

WorkerSymmetry == Permutations(Owners)
=============================================================================
