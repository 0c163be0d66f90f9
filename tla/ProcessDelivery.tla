--------------------------- MODULE ProcessDelivery ---------------------------
(***************************************************************************)
(* How a background shell task's completion reaches the model:             *)
(* ProcessManager (core/process/manager.ts), ProcessCompletionScheduler,   *)
(* the boundary before every provider request that puts owed completions   *)
(* into the request and the session log (core/agent-loop/provider-round.ts,*)
(* background-process.ts), and the turns of turn-controller.ts.            *)
(*                                                                         *)
(* One session.  On disk: a state file per task and the session log.  A    *)
(* request's messages matter only by how often they carry each task.       *)
(***************************************************************************)
EXTENDS SessionTree

CONSTANTS
  Task,              \* shell_exec calls with runInBackground
  Checkpointing,     \* VESICLE_DISABLE_FILE_CHECKPOINTING is not set
  MaxPrompts, MaxRounds,      \* bounds of the model: user prompts, tool rounds,
  MaxTroubles, MaxCrashes     \* failures or interruptions, crashes of the host

VARIABLES
  task, file,    \* each task's status and notified flag, in memory and on disk
  settling,      \* finished tasks whose finish() has not persisted and emitted
  tracked,       \* tasks whose "background-process-completed" record is owed
  drain, rerun, batch,   \* ProcessCompletionScheduler; rerunRequested
  paused,        \* pausedProcessDeliveries has the session
  turn,          \* the turn that holds busy
  rewindPoint,   \* nextSessionParent: {} or the record the next prompt forks from
  conversation,  \* session.conversation(): how often it carries each task
  log,           \* the session file
  answered,      \* history: tasks the model has been told of in an answered request
  orphaned,      \* history: tasks whose packet a failed, interrupted or killed turn took
                 \* along, or a prompt left behind that forks from before it
  used

taskVars == <<task, file, settling, tracked>>
drainVars == <<drain, rerun, batch>>
turnVars == <<turn, rewindPoint, conversation>>
historyVars == <<answered, orphaned>>
vars == <<taskVars, drainVars, paused, turnVars, log, historyVars, used>>

NoTurn == [kind |-> "none", stage |-> "none", parent |-> {}, input |-> 0, saw |-> FALSE,
           batch |-> {}, marks |-> {}, carries |-> [t \in Task |-> 0]]
Absent == [status |-> "absent", notified |-> FALSE]

-----------------------------------------------------------------------------
UserKinds == {"prompt", "packet"}
HostKinds == {"snapshot", "completed"}

Record(kind, ids, parent) == [kind |-> kind, ids |-> ids, parent |-> parent]
Appended(kind, ids) == Append(log, Record(kind, ids, Len(log)))

\* The packet records the provider sees on the branch to head.
VisiblePackets(records, head) ==
  {i \in Range(Project(records, head, UserKinds, HostKinds)) : records[i].kind = "packet"}
Carried(records, head) ==
  LET packets == VisiblePackets(records, head)
  IN  [t \in Task |-> Cardinality({i \in packets : t \in records[i].ids})]
Visible(records) == UNION {records[i].ids : i \in VisiblePackets(records, Len(records))}

\* findPersistedProcessResults, over the active branch.
ActivePackets == {i \in Range(ActiveBranch(log)) : log[i].kind = "packet"}
Covered == UNION {log[i].ids : i \in ActivePackets}
ExactPackets(ids) == {i \in ActivePackets : log[i].ids = ids}

Add(carries, ids) == [t \in Task |-> carries[t] + (IF t \in ids THEN 1 ELSE 0)]
CarriedBy(carries) == {t \in Task : carries[t] > 0}

-----------------------------------------------------------------------------
Init ==
  /\ task = [t \in Task |-> Absent] /\ file = task
  /\ settling = {} /\ tracked = {}
  /\ drain = "idle" /\ rerun = FALSE /\ batch = {}
  /\ paused = FALSE
  /\ turn = NoTurn /\ rewindPoint = {} /\ conversation = [t \in Task |-> 0]
  /\ log = <<>>
  /\ answered = {} /\ orphaned = {}
  /\ used = [prompts |-> 0, rounds |-> 0, troubles |-> 0, crashes |-> 0]

Spend(bound) == used' = [used EXCEPT ![bound] = @ + 1]
Busy == turn # NoTurn

\* collectNotifications
Owed == {t \in Task : task[t].status = "ended" /\ ~task[t].notified}

\* persist writes the state the task has when the write runs.
SetNotified(t, value) ==
  /\ task' = [task EXCEPT ![t].notified = value]
  /\ file' = [file EXCEPT ![t] = task'[t]]

\* notify, and the end of a drain: as in AgentContinuationScheduler.
NotifyAt(position) ==
  /\ drain' = IF position = "idle" THEN "sleeping" ELSE position
  /\ rerun' = (position # "idle")
  /\ UNCHANGED batch
EndDrain(again) ==
  /\ drain' = IF again THEN "sleeping" ELSE "idle"
  /\ rerun' = FALSE /\ batch' = {}

-----------------------------------------------------------------------------
\* ProcessManager.

\* finish or interrupt: terminal in memory first.
Finish(t) ==
  /\ task[t].status = "running"
  /\ task' = [task EXCEPT ![t].status = "ended"]
  /\ settling' = settling \cup {t}
  /\ UNCHANGED <<file, tracked, drainVars, paused, turnVars, log, historyVars, used>>

\* Persisted: wait() resolves, the event reaches the scheduler's subscriber.
Settle(t) ==
  /\ t \in settling
  /\ settling' = settling \ {t}
  /\ file' = [file EXCEPT ![t] = task[t]]
  /\ IF task[t].notified THEN UNCHANGED drainVars ELSE NotifyAt(drain)
  /\ UNCHANGED <<task, tracked, paused, turnVars, log, historyVars, used>>

\* trackBackgroundProcessCompletion: appended at the file's tail, whenever that is.
AppendCompleted(t) ==
  /\ t \in tracked /\ task[t].status = "ended" /\ t \notin settling
  /\ tracked' = tracked \ {t}
  /\ log' = Appended("completed", {t})
  /\ UNCHANGED <<task, file, settling, drainVars, paused, turnVars, historyVars, used>>

-----------------------------------------------------------------------------
\* The scheduler.

Wake ==
  /\ drain = "sleeping"
  /\ IF ~Busy /\ ~paused THEN drain' = "collecting" /\ UNCHANGED <<rerun, batch>>
     ELSE EndDrain(rerun)
  /\ UNCHANGED <<taskVars, paused, turnVars, log, historyVars, used>>

Collect ==
  /\ drain = "collecting"
  /\ IF Owed = {} THEN EndDrain(rerun)
     ELSE drain' = "delivering" /\ batch' = Owed /\ UNCHANGED rerun
  /\ UNCHANGED <<taskVars, paused, turnVars, log, historyVars, used>>

\* deliverBackgroundProcessResults takes busy, or throws ProcessDeliveryDeferred.
Deliver ==
  /\ drain = "delivering"
  /\ IF Busy THEN EndDrain(rerun) /\ UNCHANGED turn
     ELSE turn' = [NoTurn EXCEPT !.kind = "delivery", !.stage = "input", !.batch = batch,
                                 !.carries = Add(conversation, batch)]
          /\ drain' = "delivered" /\ UNCHANGED <<rerun, batch>>
  /\ UNCHANGED <<taskVars, paused, rewindPoint, conversation, log, historyVars, used>>

-----------------------------------------------------------------------------
\* The turns.

SubmitPrompt ==
  /\ ~Busy /\ used.prompts < MaxPrompts
  /\ Spend("prompts")
  /\ paused' = FALSE
  /\ turn' = [NoTurn EXCEPT !.kind = "prompt", !.stage = "input", !.parent = rewindPoint,
                            !.carries = conversation]
  /\ rewindPoint' = {}
  /\ UNCHANGED <<taskVars, drainVars, conversation, log, historyVars>>

\* bootstrapTurn: the input record, unless a record of exactly this batch is
\* on the active branch.
AppendInput ==
  /\ turn.stage = "input"
  /\ LET exact == IF turn.kind = "delivery" THEN ExactPackets(turn.batch) ELSE {}
         kind == IF turn.kind = "delivery" THEN "packet" ELSE "prompt"
         parent == IF turn.parent = {} THEN Len(log) ELSE Max(turn.parent)
     IN  /\ log' = IF exact = {} THEN Append(log, Record(kind, turn.batch, parent)) ELSE log
         /\ turn' = [turn EXCEPT !.stage = "snapshot", !.parent = {},
                                 !.input = IF exact = {} THEN Len(log) + 1 ELSE Max(exact)]
  /\ orphaned' = orphaned \cup ((Visible(log) \ answered) \ Visible(log'))
  /\ UNCHANGED <<taskVars, drainVars, paused, rewindPoint, conversation, answered, used>>

\* FileCheckpointManager.createSnapshot
Snapshot ==
  /\ turn.stage = "snapshot"
  /\ log' = IF Checkpointing THEN Appended("snapshot", {}) ELSE log
  /\ turn' = [turn EXCEPT !.stage = "boundary"]
  /\ UNCHANGED <<taskVars, drainVars, paused, rewindPoint, conversation, historyVars, used>>

\* materializeBackgroundProcessNotifications up to the record: owed completions
\* that no record covers are appended and sent, those whose records dropped out
\* of the projection are sent again.
Materialize ==
  /\ turn.stage = "boundary"
  /\ LET undelivered == Owed \ Covered
         needsWire == undelivered \cup (Owed \ Visible(log))
     IN  /\ log' = IF undelivered = {} THEN log ELSE Appended("packet", needsWire)
         /\ turn' = [turn EXCEPT !.stage = IF Owed = {} THEN "provider" ELSE "marking",
                                 !.marks = Owed, !.carries = Add(@, needsWire)]
  /\ UNCHANGED <<taskVars, drainVars, paused, rewindPoint, conversation, historyVars, used>>

\* markNotified, one awaited write per task; then the request goes out.
MarkNotified(t) ==
  /\ turn.stage = "marking" /\ t \in turn.marks
  /\ SetNotified(t, TRUE)
  /\ turn' = [turn EXCEPT !.stage = IF turn.marks = {t} THEN "provider" ELSE @,
                          !.marks = @ \ {t}]
  /\ UNCHANGED <<settling, tracked, drainVars, paused, rewindPoint, conversation, log, historyVars, used>>

\* A response with tool calls, some of which start tasks; its records; then the
\* next boundary.
ToolRound(started) ==
  /\ turn.stage = "provider" /\ used.rounds < MaxRounds
  /\ Spend("rounds")
  /\ task' = [t \in Task |-> IF t \in started THEN [Absent EXCEPT !.status = "running"] ELSE task[t]]
  /\ file' = [t \in Task |-> IF t \in started THEN task'[t] ELSE file[t]]
  /\ tracked' = tracked \cup started
  /\ log' = Appended("tool", {})
  /\ turn' = [turn EXCEPT !.stage = "boundary", !.saw = TRUE]
  /\ answered' = answered \cup CarriedBy(turn.carries)
  /\ UNCHANGED <<settling, drainVars, paused, rewindPoint, conversation, orphaned>>

\* The final reply.  A delivery marks its batch (again) before its drain ends.
ReplyQuietly ==   \* mutant: a prompt's idle edge is not reported
  /\ turn.stage = "provider"
  /\ log' = Appended("reply", {})
  /\ conversation' = turn.carries
  /\ answered' = answered \cup CarriedBy(turn.carries)
  /\ turn' = NoTurn
  /\ task' = [t \in Task |-> IF t \in turn.batch THEN [task[t] EXCEPT !.notified = TRUE] ELSE task[t]]
  /\ file' = [t \in Task |-> IF t \in turn.batch THEN task'[t] ELSE file[t]]
  /\ IF turn.kind = "delivery" THEN EndDrain(TRUE) ELSE UNCHANGED drainVars
  /\ UNCHANGED <<settling, tracked, paused, rewindPoint, orphaned, used>>
Reply ==
  /\ turn.stage = "provider"
  /\ log' = Appended("reply", {})
  /\ conversation' = turn.carries
  /\ answered' = answered \cup CarriedBy(turn.carries)
  /\ turn' = NoTurn
  /\ task' = [t \in Task |-> IF t \in turn.batch THEN [task[t] EXCEPT !.notified = TRUE] ELSE task[t]]
  /\ file' = [t \in Task |-> IF t \in turn.batch THEN task'[t] ELSE file[t]]
  /\ IF turn.kind = "delivery" THEN EndDrain(TRUE) ELSE NotifyAt(drain)
  /\ UNCHANGED <<settling, tracked, paused, rewindPoint, orphaned, used>>

\* markFailedUserTurn writes only behind a user or packet record at the tail.
MarkedFailed ==
  IF ActiveBranch(log) # <<>> /\ log[Len(log)].kind \in UserKinds
  THEN Appended("failed", {}) ELSE log

\* What a turn carried or the log showed, no request answered, and the log shows
\* no longer.
LostWith(records, head) ==
  ((CarriedBy(turn.carries) \cup Visible(log)) \ answered) \ CarriedBy(Carried(records, head))

\* runUserPrompt's catch: mark, then rebuild the conversation from the log.
FailPrompt ==
  /\ turn.stage = "provider" /\ turn.kind = "prompt" /\ used.troubles < MaxTroubles
  /\ Spend("troubles")
  /\ log' = MarkedFailed
  /\ conversation' = Carried(log', Len(log'))
  /\ orphaned' = orphaned \cup LostWith(log', Len(log'))
  /\ turn' = NoTurn
  /\ NotifyAt(drain)
  /\ UNCHANGED <<taskVars, paused, rewindPoint, answered>>

\* Escape: a prompt no response was seen for is rewound.
InterruptPrompt ==
  /\ turn.stage = "provider" /\ turn.kind = "prompt" /\ used.troubles < MaxTroubles
  /\ Spend("troubles")
  /\ LET head == IF turn.saw THEN Len(log) ELSE log[turn.input].parent
     IN  /\ rewindPoint' = IF turn.saw THEN rewindPoint ELSE {head}
         /\ conversation' = IF turn.saw THEN conversation ELSE Carried(log, head)
         /\ orphaned' = orphaned \cup LostWith(log, head)
  /\ turn' = NoTurn
  /\ NotifyAt(drain)
  /\ UNCHANGED <<taskVars, paused, log, answered>>

\* deliverBackgroundProcessResults' catch, which an interruption reaches too:
\* pause, mark, rebuild the conversation, then re-arm the batch.
FailDelivery ==
  /\ turn.stage = "provider" /\ turn.kind = "delivery" /\ used.troubles < MaxTroubles
  /\ Spend("troubles")
  /\ paused' = TRUE
  /\ log' = MarkedFailed
  /\ conversation' = Carried(log', Len(log'))
  /\ orphaned' = orphaned \cup (LostWith(log', Len(log')) \ turn.batch)
  /\ turn' = [turn EXCEPT !.stage = "rearming", !.marks = turn.batch]
  /\ UNCHANGED <<taskVars, drainVars, rewindPoint, answered>>

\* resetNotified
RearmNothing(t) ==   \* mutant
  /\ turn.stage = "rearming" /\ t \in turn.marks
  /\ turn' = [turn EXCEPT !.marks = @ \ {t}]
  /\ UNCHANGED <<taskVars, drainVars, paused, rewindPoint, conversation, log, historyVars, used>>
Rearm(t) ==
  /\ turn.stage = "rearming" /\ t \in turn.marks
  /\ SetNotified(t, FALSE)
  /\ turn' = [turn EXCEPT !.marks = @ \ {t}]
  /\ UNCHANGED <<settling, tracked, drainVars, paused, rewindPoint, conversation, log, historyVars, used>>

\* Busy falls before the drain learns of the error: a failure ends it, an
\* interruption (ProcessDeliveryDeferred) lets it see the idle edge.
Rearmed(interrupted) ==
  /\ turn.stage = "rearming" /\ turn.marks = {}
  /\ turn' = NoTurn
  /\ EndDrain(interrupted)
  /\ UNCHANGED <<taskVars, paused, rewindPoint, conversation, log, historyVars, used>>

\* The host dies; the next one loads the task files and resumes the session.
Restart ==
  /\ used.crashes < MaxCrashes
  /\ Spend("crashes")
  /\ task' = [t \in Task |-> IF file[t].status = "running"
                              THEN [status |-> "ended", notified |-> FALSE] ELSE file[t]]
  /\ file' = task'
  /\ settling' = {} /\ tracked' = {}
  /\ paused' = FALSE
  /\ EndDrain(TRUE)
  /\ turn' = NoTurn /\ rewindPoint' = {}
  /\ conversation' = Carried(log, Len(log))
  /\ orphaned' = orphaned \cup LostWith(log, Len(log))
  /\ UNCHANGED <<log, answered>>

TurnStep ==
  \/ AppendInput \/ Snapshot \/ Materialize \/ Reply
  \/ \E t \in Task : MarkNotified(t) \/ Rearm(t)
  \/ \E interrupted \in BOOLEAN : Rearmed(interrupted)

Next ==
  \/ \E t \in Task : Finish(t) \/ Settle(t) \/ AppendCompleted(t)
  \/ Wake \/ Collect \/ Deliver
  \/ SubmitPrompt \/ TurnStep
  \/ \E started \in SUBSET {t \in Task : task[t] = Absent} : ToolRound(started)
  \/ FailPrompt \/ InterruptPrompt \/ FailDelivery \/ Restart

\* Timers fire, file operations and providers answer; shell commands, users,
\* failures and crashes promise nothing.
Fairness ==
  /\ WF_vars(Wake \/ Collect \/ Deliver) /\ WF_vars(TurnStep)
  /\ \A t \in Task : WF_vars(Settle(t))

Spec == Init /\ [][Next]_vars /\ Fairness

-----------------------------------------------------------------------------
TaskState == [status : {"absent", "running", "ended"}, notified : BOOLEAN]

\* Types, and the ties between memory and disk: only an ended task is
\* notified, a file lags behind by its pending write alone, and a delivery turn
\* runs exactly while its drain awaits it.
TypeOK ==
  /\ task \in [Task -> TaskState] /\ file \in [Task -> TaskState]
  /\ settling \subseteq Task /\ tracked \subseteq Task
  /\ \A t \in Task : task[t].notified => task[t].status = "ended"
  /\ \A t \in Task \ settling : file[t] = task[t]
  /\ drain \in {"idle", "sleeping", "collecting", "delivering", "delivered"}
  /\ rerun \in BOOLEAN /\ batch \subseteq Task /\ paused \in BOOLEAN
  /\ (drain = "delivered") <=> (turn.kind = "delivery")
  /\ turn.stage \in {"none", "input", "snapshot", "boundary", "marking", "provider", "rearming"}
  /\ rewindPoint \subseteq 0..Len(log)
  /\ \A i \in DOMAIN log : log[i].parent < i

\* A completion the host regards as told is in the history the session shows or
\* in a request the model has answered, whatever crashes fall between the
\* record, the flags and the reply: "notified" is never ahead of the record.
\* Excepted are packets a failed, interrupted or killed turn took along, and those
\* left behind by a prompt that forks from before them.
NoCompletionLost ==
  turn = NoTurn =>
    {t \in Task : task[t].notified} \subseteq Visible(log) \cup answered \cup orphaned

\* No completion is stranded: an owed one is in the end put before the model,
\* unless the session's deliveries are paused, which the user's next prompt lifts.
EveryCompletionTold ==
  \A t \in Task : t \in Owed ~> t \notin Owed \/ paused
=============================================================================
