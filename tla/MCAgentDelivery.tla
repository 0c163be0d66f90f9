-------------------------- MODULE MCAgentDelivery --------------------------
(***************************************************************************)
(* One parent session and its background results: two for the run that     *)
(* passes, so that one can complete while the other's packet is delivered; *)
(* one for the runs that show a disagreement.                              *)
(***************************************************************************)
EXTENDS AgentDelivery
=============================================================================
