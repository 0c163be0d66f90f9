------------------------------ MODULE QueuedWork ------------------------------
(***************************************************************************)
(* The composer's input queue (tui/input-queue.ts,                         *)
(* queued-work-controller.ts, command-scheduler.ts): what the user enters  *)
(* while the host is busy, the tool boundary that takes commands and       *)
(* messages into a turn, the drain of the idle host, Escape with a queue,  *)
(* regenerated turns, and what failures and interruptions do to the        *)
(* entries and the draft.                                                  *)
(*                                                                         *)
(* An entry is one press of Enter; entering a recalled or restored draft   *)
(* again makes another.  The drain is an effect that runs as soon as its   *)
(* guards hold; an open picker keeps it, and the composer's keys, waiting. *)
(***************************************************************************)
EXTENDS Naturals, FiniteSets, SequencesExt, Selection

CONSTANTS MaxEntries, MaxCommands   \* bounds: presses of Enter, commands among them

VARIABLES
  entries,       \* history: what was entered, and whether it was queued
  draft,         \* what the composer holds
  items,         \* the queue
  ready,         \* "no", or what released the queue: a "turn" or a queued "command"
  captured,      \* takeover: the head at the last Escape, 0 for none
  turn,          \* the operation that holds busy
  decision,      \* a decision panel waits for the user
  executing,     \* commands started outside of a turn and not settled
  log,           \* what a projection of the session file holds: entries, 0 for
                 \* whatever a turn or a summary appended behind them
  conversation,  \* the entries the next request carries
  ran,           \* history: commands in the order they were started
  elsewhere,     \* history: entries of the prompt history or back in the composer,
                 \* and those refused or discarded with the queue
  interrupted,   \* history: "turn" or "regeneration" if it was the last to run and ended
                 \* with Escape, "no" otherwise
  asked          \* history: the head of the queue at that Escape

vars == <<entries, draft, items, ready, captured, turn, decision, executing, log,
  conversation, ran, elsewhere, interrupted, asked>>

\* Messages, and commands: of the tool-round boundary (/artifact), of the
\* agent-loop boundary (/model, /compact, /new), and /skill <name>, an agent-loop
\* command that submits a prompt.
Command == {"tool", "loop", "skill"}
Input == {"message"} \cup Command
Nothing == "nothing"
NoTurn == [kind |-> "none", stage |-> "none", prompt |-> 0, by |-> 0, aborted |-> FALSE,
  head |-> 0, todo |-> <<>>, seen |-> {}, old |-> <<>>]

Init ==
  /\ entries = <<>> /\ draft = Nothing
  /\ items = <<>> /\ ready = "no" /\ captured = 0
  /\ turn = NoTurn /\ decision = FALSE /\ executing = {}
  /\ log = <<>> /\ conversation = {}
  /\ ran = <<>> /\ elsewhere = {}
  /\ interrupted = "no" /\ asked = 0

Block == ready' = "no"
NotInterrupted == interrupted' = "no" /\ asked' = 0
Busy == turn.kind # "none"
At(stage) == turn.stage = stage
\* canDrain, of which the model has the busy flag and the panels.
DrainDue == ready # "no" /\ ~Busy /\ ~decision /\ items # <<>>

Commands == Cardinality({n \in DOMAIN entries : entries[n].input \in Command})
Is(kinds) == {n \in DOMAIN entries : entries[n].input \in kinds}
Of(kinds, queue) == Only(queue, Is(kinds))
Without(taken, queue) == Only(queue, Range(queue) \ Range(taken))

Users(records) == Range(records) \ {0}
Answered == IF log = <<>> \/ Last(log) = 0 THEN log ELSE Append(log, 0)
\* dropFailedTurnInput: the user records at the end of the projection.
Dropped ==
  LET answers == {i \in DOMAIN log : log[i] = 0}
  IN  SubSeq(log, 1, IF answers = {} THEN 0 ELSE Max(answers))

-----------------------------------------------------------------------------
\* The composer.

\* A picker would have the keys.
Type ==
  /\ draft = Nothing /\ ~DrainDue /\ Len(entries) < MaxEntries
  /\ draft' \in Input /\ (draft' \in Command => Commands < MaxCommands)
  /\ UNCHANGED <<entries, items, ready, captured, turn, decision, executing, log,
       conversation, ran, elsewhere, interrupted, asked>>

\* Enter: refused while a decision waits, otherwise the composer is cleared.
Enter(queued) ==
  /\ draft # Nothing /\ ~decision /\ Len(entries) < MaxEntries
  /\ entries' = Append(entries, [input |-> draft, queued |-> queued])
  /\ draft' = Nothing
Entered == Len(entries) + 1

EnqueueInput ==
  /\ Busy /\ Enter(TRUE)
  /\ items' = Append(items, Entered)
  /\ UNCHANGED <<ready, captured, turn, decision, executing, log, conversation, ran,
       elsewhere, interrupted, asked>>

\* Up with an empty composer and a busy host: takeLast.
Recall ==
  /\ Busy /\ draft = Nothing /\ items # <<>>
  /\ draft' = entries[Last(items)].input
  /\ items' = Front(items)
  /\ elsewhere' = elsewhere \cup {Last(items)}
  /\ UNCHANGED <<entries, ready, captured, turn, decision, executing, log, conversation,
       ran, interrupted, asked>>

\* Escape while busy: TurnCancellation.abort, which knows no request while a
\* conversation is read from the file, and markInterruptRequested.
Escape ==
  /\ Busy /\ turn.stage \notin {"fork", "rebuild", "reload"}
  /\ turn' = [turn EXCEPT !.aborted = TRUE]
  /\ captured' = IF items = <<>> THEN 0 ELSE Head(items)
  /\ asked' = captured'
  /\ UNCHANGED <<entries, draft, items, ready, decision, executing, log, conversation,
       ran, elsewhere, interrupted>>

-----------------------------------------------------------------------------
\* Prompts and commands of the idle host.

\* runUserPrompt up to the request; by: the command that awaits the turn.
Begin(n, by) ==
  /\ turn' = [NoTurn EXCEPT !.kind = "prompt", !.stage = "boot", !.prompt = n, !.by = by,
                            !.seen = conversation \cup {n}]
  /\ Block /\ captured' = 0
  /\ elsewhere' = elsewhere \cup {n}
\* submitPrompt returns, and nobody keeps what it was called with: provider
\* configuration or permission settings cannot be read.
Refuse(n) ==
  /\ elsewhere' = elsewhere \cup {n}
  /\ Block
  /\ UNCHANGED <<captured, turn>>

EnterPrompt ==
  /\ ~Busy /\ ~DrainDue /\ draft = "message"
  /\ Enter(FALSE)
  /\ \/ Begin(Entered, 0) /\ NotInterrupted
     \/ Refuse(Entered) /\ UNCHANGED <<interrupted, asked>>
  /\ UNCHANGED <<items, decision, executing, log, conversation, ran>>

\* The synchronous part of executeLocalCommand: it takes busy (/compact, /init),
\* switches to another session, which clears the queue, or awaits something.
Start(n, input, queue) ==
  /\ ran' = Append(ran, n)
  /\ \/ /\ executing' = executing \cup {n}
        /\ items' = queue
        /\ UNCHANGED <<turn, log, conversation, elsewhere>>
     \/ /\ input = "loop"
        /\ turn' = [NoTurn EXCEPT !.kind = "work", !.stage = "provider", !.by = n]
        /\ items' = queue
        /\ UNCHANGED <<executing, log, conversation, elsewhere>>
     \/ /\ input = "loop"
        /\ executing' = executing \cup {n}
        /\ items' = <<>> /\ elsewhere' = elsewhere \cup Range(queue)
        /\ log' = <<>> /\ conversation' = {}
        /\ UNCHANGED turn

EnterCommand ==
  /\ ~Busy /\ ~DrainDue /\ draft \in Command
  /\ Enter(FALSE)
  /\ Start(Entered, draft, items)
  /\ UNCHANGED <<ready, captured, decision, interrupted, asked>>

\* drainIfReady.
Drain ==
  /\ DrainDue
  /\ Block
  /\ LET next == Head(items)
     IN  \/ /\ next \in Is({"message"})
            /\ items' = Tail(items)
            /\ Begin(next, 0) \/ Refuse(next)
            /\ UNCHANGED <<executing, log, conversation, ran>>
         \/ /\ next \notin Is({"message"})
            /\ Start(next, entries[next].input, Tail(items))
            /\ UNCHANGED captured
  /\ NotInterrupted
  /\ UNCHANGED <<entries, draft, decision>>

\* /skill has activated its skill and submits its prompt, unless the host is busy.
SubmitSkillPrompt ==
  /\ ~Busy
  /\ \E n \in executing \cap Is({"skill"}) :
       /\ n \notin elsewhere
       /\ Begin(n, n)
       /\ executing' = executing \ {n}
  /\ NotInterrupted
  /\ UNCHANGED <<entries, draft, items, decision, log, conversation, ran>>

\* A command settles.  One that fails reports the error, which blocks the queue;
\* one that came from the queue releases it either way, whatever became of the
\* turn the command has awaited.
Settle ==
  /\ \E n \in executing, failed \in BOOLEAN :
       /\ executing' = executing \ {n}
       /\ ready' = CASE entries[n].queued -> "command" [] failed -> "no" [] OTHER -> ready
  /\ UNCHANGED <<entries, draft, items, captured, turn, decision, log, conversation,
       ran, elsewhere, interrupted, asked>>

\* An idle delivery of background results: prepareTurn.
Deliver ==
  /\ ~Busy /\ ~decision
  /\ Block /\ captured' = 0
  /\ turn' = [NoTurn EXCEPT !.kind = "delivery", !.stage = "provider", !.seen = conversation]
  /\ UNCHANGED <<entries, draft, items, decision, executing, log, conversation, ran,
       elsewhere, interrupted, asked>>

\* regenerateTurn forks at a prompt of the branch without prepareTurn: a queue that
\* was released stays released.  The picker it came from is closed first, so a drain
\* that is due goes before.  ensureRuntimeReady can fail.
Regenerate ==
  /\ ~Busy /\ ~decision /\ ~DrainDue
  /\ \E n \in Users(log) :
       \/ /\ turn' = [NoTurn EXCEPT !.kind = "regenerate", !.stage = "fork", !.prompt = n]
          /\ NotInterrupted /\ UNCHANGED ready
       \/ Block /\ UNCHANGED <<turn, interrupted, asked>>
  /\ UNCHANGED <<entries, draft, items, captured, decision, executing, log, conversation,
       ran, elsewhere>>

\* The user answers the panel: block without prepareTurn.
Decide ==
  /\ decision /\ ~Busy
  /\ decision' = FALSE /\ Block
  /\ turn' = [NoTurn EXCEPT !.kind = "resolution", !.stage = "boot", !.seen = conversation]
  /\ UNCHANGED <<entries, draft, items, captured, executing, log, conversation, ran,
       elsewhere, interrupted, asked>>

-----------------------------------------------------------------------------
\* The turn.

\* The busy flag falls; the command that awaited the turn goes on.
EndTurn ==
  /\ turn' = NoTurn
  /\ executing' = executing \cup ({turn.by} \ {0})

\* takeToolBoundaryCommands passes messages over and stops at a command of the
\* other boundary.
ToolBoundaryCommands ==
  LET commands == Of(Command, items)
      later == {i \in DOMAIN commands : commands[i] \notin Is({"tool"})}
  IN  SubSeq(commands, 1, IF later = {} THEN Len(commands) ELSE Min(later) - 1)
ReachBoundary ==
  /\ turn' = [turn EXCEPT !.stage = "commands", !.todo = ToolBoundaryCommands]
  /\ items' = Without(ToolBoundaryCommands, items)

\* A regeneration's prompt stands in the log with those before it.
UpTo(n) == SubSeq(log, 1, Max({i \in DOMAIN log : log[i] = n}))

\* regenerateTurn reads the conversation that ends with the prompt.
Fork ==
  /\ At("fork")
  /\ \/ /\ conversation' = Users(UpTo(turn.prompt))
        /\ turn' = [turn EXCEPT !.stage = "boot", !.seen = conversation']
        /\ UNCHANGED <<ready, executing>>
     \/ EndTurn /\ Block /\ UNCHANGED conversation
  /\ UNCHANGED <<entries, draft, items, captured, decision, log, ran, elsewhere,
       interrupted, asked>>

\* The bootstrap appends the prompt's record, the answer to the panel, or the record
\* that makes the fork the branch of the file.
Boot ==
  /\ At("boot")
  /\ CASE turn.kind = "prompt" ->
            /\ turn' = [turn EXCEPT !.stage = "provider"]
            /\ log' = Append(log, turn.prompt)
            /\ UNCHANGED items
       [] turn.kind = "regenerate" ->
            /\ turn' = [turn EXCEPT !.stage = "provider", !.old = log]
            /\ log' = UpTo(turn.prompt)
            /\ UNCHANGED items
       [] OTHER -> ReachBoundary /\ UNCHANGED log
  /\ UNCHANGED <<entries, draft, ready, captured, decision, executing, conversation,
       ran, elsewhere, interrupted, asked>>

\* A round with tool calls, up to the boundary behind it.
Round ==
  /\ At("provider") /\ turn.kind # "work"
  /\ ReachBoundary
  /\ log' = Answered
  /\ UNCHANGED <<entries, draft, ready, captured, decision, executing, conversation,
       ran, elsewhere, interrupted, asked>>

\* executeQueuedCommands, which no Escape stops.  After an error the commands
\* behind the failed one return to the head of the queue.
RunBoundaryCommandDrops ==   \* mutant: the commands behind a failed one are dropped
  /\ At("commands") /\ turn.todo # <<>>
  /\ ran' = Append(ran, Head(turn.todo))
  /\ \/ /\ turn' = [turn EXCEPT !.todo = Tail(@)]
        /\ UNCHANGED ready
     \/ /\ turn' = [turn EXCEPT !.todo = <<>>]
        /\ Block
  /\ UNCHANGED <<entries, draft, items, captured, decision, executing, log,
       conversation, elsewhere, interrupted, asked>>
RunBoundaryCommand ==
  /\ At("commands") /\ turn.todo # <<>>
  /\ ran' = Append(ran, Head(turn.todo))
  /\ \/ /\ turn' = [turn EXCEPT !.todo = Tail(@)]
        /\ UNCHANGED <<items, ready>>
     \/ /\ items' = Tail(turn.todo) \o items
        /\ turn' = [turn EXCEPT !.todo = <<>>]
        /\ Block
  /\ UNCHANGED <<entries, draft, captured, decision, executing, log, conversation,
       elsewhere, interrupted, asked>>

\* takePendingUserInputs: every message of the queue, wherever it stands.
TakeMessages ==
  /\ At("commands") /\ turn.todo = <<>>
  /\ LET taken == Of({"message"}, items)
     IN  /\ turn' = [turn EXCEPT !.stage = IF taken = <<>> THEN "provider" ELSE "inject",
                                 !.todo = taken]
         /\ items' = Without(taken, items)
         /\ elsewhere' = elsewhere \cup Range(taken)
  /\ UNCHANGED <<entries, draft, ready, captured, decision, executing, log,
       conversation, ran, interrupted, asked>>

\* injectPendingUserInputs, record by record.
Inject ==
  /\ At("inject")
  /\ log' = Append(log, Head(turn.todo))
  /\ turn' = [turn EXCEPT !.stage = IF Len(turn.todo) = 1 THEN "provider" ELSE "inject",
                          !.todo = Tail(@), !.seen = @ \cup {Head(turn.todo)}]
  /\ UNCHANGED <<entries, draft, items, ready, captured, decision, executing,
       conversation, ran, elsewhere, interrupted, asked>>

\* handleResult: a reply releases the queue, a panel blocks it.
Complete ==
  /\ At("provider") /\ turn.kind # "work"
  /\ EndTurn
  /\ log' = Answered /\ conversation' = turn.seen
  /\ \E asks \in BOOLEAN :
       /\ decision' = asks
       /\ ready' = IF asks THEN "no" ELSE "turn"
  /\ NotInterrupted
  /\ UNCHANGED <<entries, draft, items, captured, ran, elsewhere>>

\* /compact appends its summary, reads the conversation from the log and clears the
\* composer; /init, and either after an error or Escape, leave all three.
FinishWork ==
  /\ turn.kind = "work"
  /\ EndTurn
  /\ \/ UNCHANGED <<draft, log, conversation>>
     \/ draft' = Nothing /\ log' = Answered /\ conversation' = Users(log)
  /\ UNCHANGED <<entries, items, ready, captured, decision, ran, elsewhere, interrupted,
       asked>>

\* The resolution of a panel ends without a reply: the panel may come back.
PanelReturns(messages) ==
  /\ decision' \in BOOLEAN
  /\ conversation' = IF decision' THEN messages ELSE Users(log)

\* An error: runUserPrompt's catch, which restores the draft of a retryable
\* failure whatever the composer holds, and its counterparts.  The failed turn may
\* be marked or not, and the conversation read again or not.
Fail ==
  /\ At("boot") \/ At("provider") \/ At("inject")
  /\ turn.kind \notin {"work", "regenerate"} /\ ~turn.aborted
  /\ EndTurn
  /\ Block
  /\ IF turn.kind = "resolution"
     THEN PanelReturns(conversation) /\ UNCHANGED log
     ELSE /\ log' \in {log, Dropped}
          /\ conversation' \in {conversation, Users(log')}
          /\ UNCHANGED decision
  /\ \/ turn.kind = "prompt" /\ draft' = "message" /\ elsewhere' = elsewhere \cup {turn.prompt}
     \/ UNCHANGED <<draft, elsewhere>>
  /\ NotInterrupted
  /\ UNCHANGED <<entries, items, captured, ran>>

-----------------------------------------------------------------------------
\* Escape, and the end of a regeneration without a result.

\* No queued head takes over.  restoreInterruptedPrompt rewinds a prompt that no
\* response was seen for, takes it out of the prompt history and puts its text into
\* the composer, whatever that holds.
NoTakeover(messages) ==
  /\ EndTurn
  /\ interrupted' = "turn"
  /\ \/ /\ turn.kind = "prompt" /\ log # <<>> /\ Last(log) = turn.prompt
        /\ log' = Front(log) /\ conversation' = Users(log')
        /\ draft' = "message" /\ elsewhere' = elsewhere \cup {turn.prompt}
        /\ UNCHANGED decision
     \/ /\ IF turn.kind = "resolution" THEN PanelReturns(messages)
           ELSE conversation' = messages /\ UNCHANGED decision
        /\ UNCHANGED <<draft, log, elsewhere>>

\* The aborted operation rejects: handleInterruption consumes the captured head.
SessionUnknown == At("boot") /\ log = <<>>
Interrupt ==
  /\ turn.aborted /\ turn.kind \notin {"work", "regenerate"}
  /\ At("boot") \/ At("provider") \/ At("inject")
  /\ captured' = 0
  /\ \/ (captured = 0 \/ SessionUnknown) /\ NoTakeover(conversation)
     \/ /\ captured # 0
        /\ turn' = [turn EXCEPT !.stage = "rebuild", !.todo = <<>>, !.head = captured]
        /\ UNCHANGED <<draft, decision, executing, log, conversation, elsewhere,
             interrupted>>
  /\ UNCHANGED <<entries, items, ready, ran, asked>>

\* Mutant: whatever leads the queue by then is sent.
LeadsAnyHead == items # <<>>
StillLeads == items # <<>> /\ Head(items) = turn.head

\* handleInterruption after the snapshot is read, or could not be.
Rebuild ==
  /\ At("rebuild")
  /\ \/ /\ StillLeads
        /\ EndTurn
        /\ ready' = "turn"
        /\ conversation' = Users(log)
        /\ interrupted' = "turn"
        /\ UNCHANGED <<draft, decision, log, elsewhere>>
     \/ ~StillLeads /\ NoTakeover(Users(log)) /\ UNCHANGED ready
     \/ NoTakeover(conversation) /\ Block
  /\ UNCHANGED <<entries, items, captured, ran, asked>>

\* regenerateTurn of the core rejects.  Its marker makes the previous answer the
\* branch again, unless the marker fails or the reply was on file before the error.
EndRegeneration ==
  /\ turn.kind = "regenerate"
  /\ At("boot") \/ At("provider") \/ At("inject")
  /\ turn' = [turn EXCEPT !.stage = "reload", !.todo = <<>>, !.old = <<>>]
  /\ log' \in IF At("boot") THEN {log} ELSE {turn.old, log, Answered}
  /\ UNCHANGED <<entries, draft, items, ready, captured, decision, executing,
       conversation, ran, elsewhere, interrupted, asked>>

\* reloadActiveBranchDisplay, then the error or handleInterruptedTurn; the takeover is
\* not consumed, and after Escape the queue is neither blocked nor released.
Reload ==
  /\ At("reload")
  /\ EndTurn
  /\ conversation' \in {conversation, Users(log)}
  /\ IF turn.aborted THEN interrupted' = "regeneration" /\ UNCHANGED <<ready, asked>>
     ELSE Block /\ NotInterrupted
  /\ UNCHANGED <<entries, draft, items, captured, decision, log, ran, elsewhere>>

Next ==
  \/ Type \/ EnqueueInput \/ Recall \/ Escape
  \/ EnterPrompt \/ EnterCommand \/ Drain \/ SubmitSkillPrompt \/ Settle \/ Deliver \/ Decide
  \/ Regenerate \/ Fork \/ Boot \/ Round \/ RunBoundaryCommand \/ TakeMessages \/ Inject
  \/ Complete \/ FinishWork \/ Fail \/ Interrupt \/ Rebuild
  \/ EndRegeneration \/ Reload

Spec == Init /\ [][Next]_vars

-----------------------------------------------------------------------------
\* Types, and what excludes what: the queue and the hands of a turn share no
\* entry, a command that runs beside a turn holds none.
TypeOK ==
  /\ entries \in Seq([input : Input, queued : BOOLEAN]) /\ draft \in Input \cup {Nothing}
  /\ ready \in {"no", "turn", "command"} /\ decision \in BOOLEAN
  /\ turn.kind \in {"none", "prompt", "delivery", "resolution", "regenerate", "work"}
  /\ turn.stage \in
       {"none", "fork", "boot", "provider", "commands", "inject", "rebuild", "reload"}
  /\ turn.stage = "inject" => turn.todo # <<>>
  /\ Range(items) \cup Range(turn.todo) \cup executing \cup conversation
       \cup Users(log) \cup Users(turn.old) \subseteq DOMAIN entries
  /\ captured \in DOMAIN entries \cup {0}

\* Nothing the user has entered vanishes: an entry is queued, in the hands of a
\* turn or a command, recorded, started, back in the composer or in the prompt
\* history.  Excepted are those that were refused or discarded with the queue.
EntriesKept ==
  DOMAIN entries \subseteq
    UNION {Range(items), Range(turn.todo), {turn.prompt}, Range(log), Range(ran), elsewhere}

\* Whatever fails and is put back, an entry is never served twice: it waits in
\* one place, and what is recorded or started waits nowhere.
ServedOnce ==
  /\ IsInjective(items \o turn.todo \o Of({"message"}, log))
  /\ IsInjective(items \o turn.todo \o ran)
  /\ IsInjective(Of(Input, log))

\* Messages that were queued are recorded, and commands that were queued started,
\* in the order in which they were entered.
Queued(sequence) == Only(sequence, {n \in DOMAIN entries : entries[n].queued})
Ascends(sequence) == \A i, j \in DOMAIN sequence : i < j => sequence[i] < sequence[j]
QueueOrder == Ascends(Queued(Of({"message"}, log))) /\ Ascends(Queued(ran))

QueueServed == EntriesKept /\ ServedOnce /\ QueueOrder

\* After Escape the queue moves by itself only for the entry that led it when Escape
\* was pressed, and with the conversation of the log: nothing entered later,
\* restored or left behind it goes out in its place.
Sent(n) == turn'.prompt = n \/ turn'.by = n \/ n \in executing'
SendsHead ==
  items # <<>> /\ Sent(Head(items)) => Head(items) = asked /\ conversation = Users(log)

\* This holds of the turns that end in handleInterruption: prompts, deliveries and
\* the resolutions of panels.  Excepted is a queue that the end of a queued command
\* releases.  A regeneration does not end there: see EscapeSendsOnlyHead.
EscapeSendsHead == [][interrupted = "turn" /\ ready # "command" => SendsHead]_vars

\* The same of every turn that Escape ends, as COMMAND_QUEUE.md:64 has it.  The code
\* does not keep this: a regeneration leaves the queue released.
EscapeSendsOnlyHead == [][interrupted # "no" /\ ready # "command" => SendsHead]_vars
=============================================================================
