--------------------------- MODULE MCSessionBridge ---------------------------
(* One session, two tool hooks, a tick of thirty seconds. *)
EXTENDS SessionBridge, TLC

CONSTANTS h1, h2

ASSUME SessionAssumption /\ EnoughBeats

NoDeps     == session :> {}
Retries    == session :> 2
WholeLimit == session :> 20

HookSymmetry == Permutations(Hooks)
=============================================================================
