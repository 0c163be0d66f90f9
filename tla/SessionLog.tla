------------------------------ MODULE SessionLog ------------------------------
(***************************************************************************)
(* The writers of one session file and the transactions between them       *)
(* (core/session/append-store.ts, title.ts, core/compact/service.ts,       *)
(* checkpoint-installer.ts): turns, rewinds, /compact, automatic           *)
(* compaction, summarize-from-here, title generation, and a second         *)
(* Vesicle process on the same session.                                    *)
(*                                                                         *)
(* An append, under the append chain and the lock file, is one step; what  *)
(* was read before it may be stale.  A lock file that a dead process left  *)
(* behind makes every later append fail.                                   *)
(***************************************************************************)
EXTENDS SessionTree

CONSTANTS
  Generator,        \* title generations, each scheduled by the end of a turn
  MaxRecords, MaxCompactions, MaxTitles,   \* bounds of the model;
  MaxOthers, MaxCrashes   \* MaxOthers: rewinds, /title commands, appends of another process

VARIABLES
  log,          \* the session file
  busy,         \* the operation that holds busy
  source,       \* the head its summary was made from, and what it covers
  rewindPoint,  \* nextSessionParent: {} or the record the next prompt forks from
  conversation, \* the messages in memory that the next request carries
  task,         \* where each title generation stands
  locked,       \* the lock file of a dead process exists
  foreign,      \* history: another process has appended messages
  used

vars == <<log, busy, source, rewindPoint, conversation, task, locked, foreign, used>>

NoSource == [head |-> 0, covers |-> {}]
IdleTask == [stage |-> "idle", head |-> 0, attempts |-> 0]
UserKinds == {"user", "summary"}
HostKinds == {"title", "titleState", "usage", "boundary", "lost"}
MessageKinds == {"user", "assistant", "summary"}

Init ==
  /\ log = <<>>
  /\ busy = "none" /\ source = NoSource
  /\ rewindPoint = {} /\ conversation = {}
  /\ task = [g \in Generator |-> IdleTask]
  /\ locked = FALSE /\ foreign = FALSE
  /\ used = [compactions |-> 0, titles |-> 0, others |-> 0, crashes |-> 0]

Spend(bound) == used' = [used EXCEPT ![bound] = @ + 1]
SpendOther == used.others < MaxOthers /\ Spend("others")

-----------------------------------------------------------------------------
\* Records.  covers: the messages a checkpoint or a summary stands for; by: who
\* gave a title, or whose claim a title state is; attempts: of a title state.

Record(kind, parent) ==
  [kind |-> kind, parent |-> parent, covers |-> {}, by |-> "none", attempts |-> 0]
Writable == ~locked /\ Len(log) < MaxRecords

\* append: below the explicit parent of a new store, or the newest record.
AppendBelow(record, parent) == Append(log, [record EXCEPT !.parent = parent])
AppendAtTail(record) == AppendBelow(record, Len(log))

\* appendIfHead
CanAppendIfHead(head) == Writable /\ head = Len(log)

\* The messages a request built from the branch to head stands for.
Shown(records, head) ==
  UNION {IF records[i].kind = "checkpoint" THEN records[i].covers ELSE {i} \cup records[i].covers
           : i \in Range(Project(records, head, UserKinds, HostKinds))}

-----------------------------------------------------------------------------
\* Turns and rewinds of this host, and what another process appends.

SubmitPrompt ==
  /\ busy = "none" /\ Writable
  /\ log' = AppendBelow(Record("user", 0), IF rewindPoint = {} THEN Len(log) ELSE Max(rewindPoint))
  /\ busy' = "turn" /\ rewindPoint' = {}
  /\ conversation' = conversation \cup {Len(log')}
  /\ UNCHANGED <<source, task, locked, foreign, used>>

\* A round that answers the prompt; the turn ends with it or goes on.
Answer ==
  /\ busy = "turn" /\ Writable
  /\ log' = AppendAtTail(Record("assistant", 0))
  /\ conversation' = conversation \cup {Len(log')}
  /\ busy' \in {"turn", "none"}
  /\ UNCHANGED <<source, rewindPoint, task, locked, foreign, used>>

\* /rewind to the state before a prompt of the branch.
Rewind ==
  /\ busy = "none" /\ SpendOther
  /\ \E i \in Range(ActiveBranch(log)) :
       /\ log[i].kind = "user"
       /\ rewindPoint' = {log[i].parent}
       /\ conversation' = Shown(log, log[i].parent)
  /\ UNCHANGED <<log, busy, source, task, locked, foreign>>

OtherProcess ==
  /\ Writable /\ SpendOther
  /\ \E kind \in {"user", "assistant"} : log' = AppendAtTail(Record(kind, 0))
  /\ foreign' = TRUE
  /\ UNCHANGED <<busy, source, rewindPoint, conversation, task, locked>>

-----------------------------------------------------------------------------
\* Compaction.

\* runPortableCompaction up to the provider's summary: /compact, or an automatic
\* compaction inside a turn, of the branch to the newest record.
StartCompaction ==
  /\ busy \in {"none", "turn"} /\ used.compactions < MaxCompactions
  /\ Cardinality(Shown(log, Len(log))) >= 2
  /\ Spend("compactions")
  /\ source' = [head |-> Len(log), covers |-> Shown(log, Len(log))]
  /\ busy' = IF busy = "turn" THEN "midTurn" ELSE "compacting"
  /\ UNCHANGED <<log, rewindPoint, conversation, task, locked, foreign>>

\* installCompactCheckpoint, the record about Skills whose context was lost, and
\* what becomes of the conversation.  Afterwards a manual compaction leaves its
\* checkpoint as the next prompt's parent; an automatic one reads the tail.
InstallUnchecked ==   \* mutant: append instead of appendIfHead
  /\ busy \in {"compacting", "midTurn"}
  /\ Writable
  /\ log' = AppendAtTail([Record("checkpoint", 0) EXCEPT !.covers = source.covers])
  /\ conversation' = Shown(log', Len(log'))
  /\ rewindPoint' = IF busy = "compacting" THEN {Len(log')} ELSE rewindPoint
  /\ busy' = IF busy = "midTurn" THEN "turn" ELSE "none"
  /\ source' = NoSource
  /\ UNCHANGED <<task, locked, foreign, used>>
Install ==
  /\ busy \in {"compacting", "midTurn"}
  /\ IF CanAppendIfHead(source.head)
     THEN \E skillsLost \in BOOLEAN :
            LET checkpoint == Len(log) + 1
                installed == AppendAtTail([Record("checkpoint", 0) EXCEPT !.covers = source.covers])
            IN  /\ log' = IF skillsLost THEN Append(installed, Record("lost", checkpoint)) ELSE installed
                /\ conversation' = Shown(installed, checkpoint)
                /\ rewindPoint' = IF busy = "compacting" THEN {checkpoint} ELSE rewindPoint
     ELSE UNCHANGED <<log, conversation, rewindPoint>>
  /\ busy' = IF busy = "midTurn" THEN "turn" ELSE "none"
  /\ source' = NoSource
  /\ UNCHANGED <<task, locked, foreign, used>>

\* compactConversationFromPoint: the summary of all that follows a prompt's
\* parent, then two appends, the first below that parent.
StartSummary ==
  /\ busy = "none" /\ used.compactions < MaxCompactions
  /\ Spend("compactions")
  /\ \E i \in Range(ActiveBranch(log)) :
       /\ log[i].kind = "user"
       /\ source' = [head |-> log[i].parent,
                     covers |-> Shown(log, Len(log)) \ Shown(log, log[i].parent)]
  /\ busy' = "summarizing"
  /\ UNCHANGED <<log, rewindPoint, conversation, task, locked, foreign>>

AppendBoundary ==
  /\ busy = "summarizing"
  /\ IF Writable THEN log' = AppendBelow(Record("boundary", 0), source.head) /\ busy' = "summary"
     ELSE busy' = "none" /\ UNCHANGED log
  /\ source' = IF busy' = "none" THEN NoSource ELSE source
  /\ UNCHANGED <<rewindPoint, conversation, task, locked, foreign, used>>

AppendSummary ==
  /\ busy = "summary"
  /\ IF Writable
     THEN /\ log' = AppendAtTail([Record("summary", 0) EXCEPT !.covers = source.covers])
          /\ conversation' = Shown(log', Len(log'))
          /\ rewindPoint' = {Len(log')}
     ELSE UNCHANGED <<log, conversation, rewindPoint>>
  /\ busy' = "none" /\ source' = NoSource
  /\ UNCHANGED <<task, locked, foreign, used>>

-----------------------------------------------------------------------------
\* Titles: projections of the whole file, whatever the branch.

TitleRecords == {i \in DOMAIN log : log[i].kind = "title"}
UserTitled == TitleRecords # {} /\ log[Max(TitleRecords)].by = "user"
StateRecords == {i \in DOMAIN log : log[i].kind = "titleState"}
TitleState == IF StateRecords = {} THEN Record("titleState", 0) ELSE log[Max(StateRecords)]

Move(g, stage) == task' = [task EXCEPT ![g].stage = stage]
Finish(g) == task' = [task EXCEPT ![g] = IdleTask]
titleFrame == <<busy, source, rewindPoint, conversation, locked, foreign>>

\* maybeGenerateSessionTitle's checks; a claim may have run out.
ConsiderTitle(g) ==
  /\ task[g].stage = "idle" /\ used.titles < MaxTitles
  /\ Spend("titles")
  /\ ~UserTitled /\ TitleState.by # "settled" /\ TitleState.attempts < 3
  /\ \E i \in DOMAIN log : log[i].kind = "assistant"
  /\ task' = [task EXCEPT ![g] = [stage |-> "claim", head |-> Len(log), attempts |-> TitleState.attempts]]
  /\ UNCHANGED <<log, titleFrame>>

Claim(g) ==
  /\ task[g].stage = "claim"
  /\ IF CanAppendIfHead(task[g].head)
     THEN /\ log' = AppendAtTail([Record("titleState", 0) EXCEPT !.by = g, !.attempts = task[g].attempts])
          /\ Move(g, "asking")
     ELSE Finish(g) /\ UNCHANGED log
  /\ UNCHANGED <<titleFrame, used>>

\* The answer; a reset, another claim or the user's title makes it void.
TitleAnswered(g) ==
  /\ task[g].stage = "asking"
  /\ IF UserTitled \/ TitleState.by # g \/ TitleState.attempts # task[g].attempts THEN Finish(g)
     ELSE \E stage \in {"publish", "settle"} :
            task' = [task EXCEPT ![g].stage = stage, ![g].head = Len(log)]
  /\ UNCHANGED <<log, titleFrame, used>>

\* The title, if nothing was appended since, and what it cost, if that is known.
Publish(g) ==
  /\ task[g].stage = "publish"
  /\ IF CanAppendIfHead(task[g].head)
     THEN /\ LET titled == AppendAtTail([Record("title", 0) EXCEPT !.by = "generated"])
             IN  log' \in {titled, Append(titled, Record("usage", Len(titled)))}
          /\ Move(g, "settle")
     ELSE Finish(g) /\ UNCHANGED log
  /\ UNCHANGED <<titleFrame, used>>

\* The attempt is recorded, whatever was recorded since the answer.
Settle(g) ==
  /\ task[g].stage = "settle"
  /\ log' \in IF Writable
              THEN {AppendAtTail([Record("titleState", 0) EXCEPT !.by = by, !.attempts = task[g].attempts + 1])
                      : by \in {"settled", "none"}}
              ELSE {log}
  /\ Finish(g)
  /\ UNCHANGED <<titleFrame, used>>

\* /title rename and /title regenerate, which aborts the request in flight.
RenameTitle ==
  /\ Writable /\ SpendOther
  /\ log' = AppendAtTail([Record("title", 0) EXCEPT !.by = "user"])
  /\ UNCHANGED <<titleFrame, task>>
RegenerateTitle ==
  /\ Writable /\ SpendOther
  /\ log' = AppendAtTail(Record("titleState", 0))
  /\ task' = [g \in Generator |-> IF task[g].stage = "asking" THEN IdleTask ELSE task[g]]
  /\ UNCHANGED titleFrame

-----------------------------------------------------------------------------
\* The process dies, perhaps inside an append; the session is resumed.
Restart ==
  /\ used.crashes < MaxCrashes
  /\ Spend("crashes")
  /\ locked' \in BOOLEAN
  /\ busy' = "none" /\ source' = NoSource
  /\ rewindPoint' = {} /\ conversation' = Shown(log, Len(log))
  /\ task' = [g \in Generator |-> IdleTask]
  /\ UNCHANGED <<log, foreign>>

Next ==
  \/ SubmitPrompt \/ Answer \/ Rewind \/ OtherProcess
  \/ StartCompaction \/ Install \/ StartSummary \/ AppendBoundary \/ AppendSummary
  \/ \E g \in Generator : ConsiderTitle(g) \/ Claim(g) \/ TitleAnswered(g) \/ Publish(g) \/ Settle(g)
  \/ RenameTitle \/ RegenerateTitle \/ Restart

Spec == Init /\ [][Next]_vars

-----------------------------------------------------------------------------
\* Types; every record has an earlier parent, and a summary in the making an
\* operation that makes it.
TypeOK ==
  /\ \A i \in DOMAIN log : log[i].parent < i /\ log[i].covers \subseteq 1..(i - 1)
  /\ busy \in {"none", "turn", "compacting", "midTurn", "summarizing", "summary"}
  /\ (source # NoSource) => busy \in {"compacting", "midTurn", "summarizing", "summary"}
  /\ rewindPoint \subseteq 0..Len(log) /\ conversation \subseteq DOMAIN log
  /\ \A g \in Generator : task[g].stage \in {"idle", "claim", "asking", "publish", "settle"}

\* Nothing that was said on a branch is missing from the history projected for
\* it: each message is there itself or in a summary that was made from it,
\* whatever was appended while the summary was generated.
NothingDropped ==
  \A head \in 0..Len(log) :
    {i \in Range(Branch(log, head)) : log[i].kind \in MessageKinds} \subseteq Shown(log, head)

\* Memory and disk agree: between turns the messages of the next request are what
\* a resume at the next record's parent would load.  Excepted: another process
\* wrote messages, or a boundary never got its summary.
DanglingBoundary == \E i \in DOMAIN log : /\ log[i].kind = "boundary"
                                         /\ \A j \in DOMAIN log : log[j].kind = "summary" => j < i
ConversationOnDisk ==
  busy = "none" /\ ~foreign /\ ~DanglingBoundary
    => conversation = Shown(log, IF rewindPoint = {} THEN Len(log) ELSE Max(rewindPoint))

\* A title the user gave is never replaced by a generated one.
UserTitleStands ==
  \A i, j \in TitleRecords : i < j /\ log[i].by = "user" => log[j].by = "user"
=============================================================================
