----------------------------- MODULE SessionTree -----------------------------
(***************************************************************************)
(* The session file as core/session reads it: an append-only sequence of   *)
(* records, each naming its parent, in which a branch is the path from the *)
(* root to a head.  A record has at least the fields kind and parent.      *)
(***************************************************************************)
EXTENDS Integers, Sequences, SequencesExt, FiniteSetsExt

\* buildActiveSessionBranch: the records from the root to head, 0 the empty branch.
Branch(log, head) ==
  LET path[i \in 0..Len(log)] == IF i = 0 THEN <<>> ELSE Append(path[log[i].parent], i)
  IN  path[head]

\* The newest physical record is the default head.
ActiveBranch(log) == Branch(log, Len(log))

\* dropFailedTurnInput: keep up to the last message that is not the user's.
DropTrailing(log, messages, UserKinds) ==
  SubSeq(messages, 1,
         Max({0} \cup {n \in DOMAIN messages : log[messages[n]].kind \notin UserKinds}))

\* projectSessionHistory of the branch to head: HostKinds are invisible to the
\* provider, a failed-turn marker drops the input it follows, a checkpoint
\* replaces what precedes it.
Project(log, head, UserKinds, HostKinds) ==
  LET messages[i \in 0..Len(log)] ==
        IF i = 0 THEN <<>>
        ELSE LET before == messages[log[i].parent]
             IN  CASE log[i].kind \in HostKinds -> before
                   [] log[i].kind = "failed" -> DropTrailing(log, before, UserKinds)
                   [] log[i].kind = "checkpoint" -> <<i>>
                   [] OTHER -> Append(before, i)
  IN  messages[head]
=============================================================================
