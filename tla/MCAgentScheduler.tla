-------------------------- MODULE MCAgentScheduler --------------------------
(***************************************************************************)
(* Three delegations of one parent session and two ordinary runs, for one  *)
(* slot: both queues reach length two, so order and splicing matter.       *)
(***************************************************************************)
EXTENDS AgentScheduler, TLC

CONSTANTS d1, d2, d3, r4, r5, p1

MCKeyOf == (d1 :> p1) @@ (d2 :> p1) @@ (d3 :> p1) @@ (r4 :> NoKey) @@ (r5 :> NoKey)
=============================================================================
