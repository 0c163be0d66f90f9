---------------------------- MODULE MCTurnLoop ----------------------------
(***************************************************************************)
(* TurnLoop with a free host call, a shell call and two Agent calls that   *)
(* are put to the user, a free Agent call, a gate and a question.  The     *)
(* responses mix free, asked and interactive calls, in the orders that     *)
(* planToolRound and the permission sequence tell apart.                   *)
(***************************************************************************)
EXTENDS TurnLoop

CONSTANTS read, shell, spawnA, spawnB, wait, gate, question

MCBatch == {<<read>>, <<shell>>, <<gate>>, <<question>>, <<wait, read>>,
            <<read, gate>>, <<gate, question>>, <<question, gate>>, <<shell, gate>>,
            <<wait, read, shell>>, <<shell, spawnA, spawnB>>, <<spawnA, shell, spawnB>>,
            <<question, spawnA, spawnB>>, <<read, question, gate>>}
=============================================================================
