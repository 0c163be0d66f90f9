--------------------------- MODULE MCAgentManager ---------------------------
(***************************************************************************)
(* Two delegated runs, one of them in the background, and an ordinary      *)
(* background run of the same parent session; a directory and a file in    *)
(* it as paths, or one file.                                               *)
(***************************************************************************)
EXTENDS AgentManager, TLC

CONSTANTS fg, bg, plain, p1, h1

MCParentOf == [r \in Run |-> p1]
MCKeyOf == [r \in Run |-> IF r \in Delegated THEN p1 ELSE NoKey]
MCOne == {<<"notes">>}
MCPath == {<<"notes">>, <<"notes", "a">>}
=============================================================================
