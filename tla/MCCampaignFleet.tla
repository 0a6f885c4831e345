--------------------------- MODULE MCCampaignFleet ---------------------------
(* Two clients on one campaign. *)
EXTENDS CampaignFleet, TLC

Symmetry == Permutations(Clients) \cup Permutations(Children)
=============================================================================
