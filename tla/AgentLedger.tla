---------------------------- MODULE AgentLedger ----------------------------
(***************************************************************************)
(* What a parent session is promised about the SubAgents it spawns         *)
(* (docs/dev/SUBAGENTS.md, Parent/Child Persistence): an accepted run is   *)
(* reported exactly once, by an inbox entry or by the result of its        *)
(* spawn_agent call, or it is a background run that was cancelled, about   *)
(* which nothing is said.  Reports and cancellations are final.            *)
(***************************************************************************)
CONSTANTS Run, Background

VARIABLE ledger   \* per run: absent, open, reported or cancelled

Init == ledger = [r \in Run |-> "absent"]

Accept(r) == ledger[r] = "absent" /\ ledger' = [ledger EXCEPT ![r] = "open"]

Report(r) == ledger[r] = "open" /\ ledger' = [ledger EXCEPT ![r] = "reported"]

Cancel(r) ==
  /\ ledger[r] = "open" /\ r \in Background
  /\ ledger' = [ledger EXCEPT ![r] = "cancelled"]

Next == \E r \in Run : Accept(r) \/ Report(r) \/ Cancel(r)

\* An open run is closed in the end, whatever happens to its host.
Spec == /\ Init /\ [][Next]_ledger
        /\ \A r \in Run : WF_ledger(Report(r) \/ Cancel(r))
=============================================================================
