----------------------------- MODULE MCChildRun -----------------------------
(***************************************************************************)
(* Two children at the broker, in every order; the parent talks to one.    *)
(***************************************************************************)
EXTENDS ChildRun, TLC

CONSTANTS c1, c2

MCMaxMessages == (c1 :> 2) @@ (c2 :> 0)
=============================================================================
