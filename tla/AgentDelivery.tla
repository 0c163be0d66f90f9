---------------------------- MODULE AgentDelivery ----------------------------
(***************************************************************************)
(* How a background SubAgent's result reaches its parent session:          *)
(* AgentContinuationScheduler (core/agents/scheduler.ts), the inbox events *)
(* of AgentStore, wait_agent, and the turns of turn-controller.ts that     *)
(* carry the packet to the provider and record it in the session log.      *)
(*                                                                         *)
(* One parent session.  On disk: the inbox fold and the session log, an    *)
(* append-only tree of records.  In memory: the scheduler's drain, the     *)
(* running turn, the conversation the next request starts from.            *)
(***************************************************************************)
EXTENDS SessionTree

CONSTANTS
  Entry,             \* inbox entries: one per background run of the session
  NoEntry,
  Checkpointing,     \* VESICLE_DISABLE_FILE_CHECKPOINTING is not set
  MaxPrompts, MaxWaits,   \* bounds of the model: user prompts, wait_agent calls,
  MaxTroubles,            \* provider failures and interruptions,
  MaxCrashes              \* and crashes of the host

ASSUME EntryAssumption == NoEntry \notin Entry /\ Checkpointing \in BOOLEAN

VARIABLES
  inbox,         \* listInbox: the state each entry's last event gives it
  unannounced,   \* enqueued, agent_completed not yet handled
  drain, rerun, pendingIds, batch,   \* drainAfterDelay; rerunRequested
  paused,        \* pausedAgentDeliveries has the session
  turn,          \* the turn that holds busy
  rewindPoint,   \* nextSessionParent: {} or the record the next prompt forks from
  conversation,  \* session.conversation(), as the log records of its messages
  log,           \* the session file
  used           \* prompts, waits, troubles and crashes so far

inboxVars == <<inbox, unannounced>>
drainVars == <<drain, rerun, pendingIds, batch>>
turnVars == <<turn, rewindPoint, conversation>>
vars == <<inboxVars, drainVars, paused, turnVars, log, used>>

NoTurn == [kind |-> "none", stage |-> "none", parent |-> {}, input |-> 0,
           wait |-> NoEntry, messages |-> <<>>]

-----------------------------------------------------------------------------
\* The session log.

UserKinds == {"prompt", "packet"}
HostKinds == {"snapshot"}
IsUser(i) == log[i].kind \in UserKinds

\* loadSessionSnapshot: the conversation that ends at a record.
Shown(records, head) == Project(records, head, UserKinds, HostKinds)

Record(kind, ids, parent) == [kind |-> kind, ids |-> ids, parent |-> parent]
AppendRecord(kind, ids) == log' = Append(log, Record(kind, ids, Len(log)))

\* findPersistedAgentDelivery: the packet record of exactly these entries.
PersistedDeliveryUnsearched(ids) == {}   \* mutant
PersistedDelivery(ids) ==
  {i \in Range(ActiveBranch(log)) : log[i].kind = "packet" /\ log[i].ids = ids}

-----------------------------------------------------------------------------
Init ==
  /\ inbox = [e \in Entry |-> "absent"] /\ unannounced = {}
  /\ drain = "idle" /\ rerun = FALSE /\ pendingIds = {} /\ batch = {}
  /\ paused = FALSE
  /\ turn = NoTurn /\ rewindPoint = {} /\ conversation = <<>>
  /\ log = <<>>
  /\ used = [prompts |-> 0, waits |-> 0, troubles |-> 0, crashes |-> 0]

Spend(bound) == used' = [used EXCEPT ![bound] = @ + 1]
Busy == turn # NoTurn

\* isParentIdle, for the session on screen.
ParentIdle == ~Busy /\ ~paused

\* notify: start a drain, or remember the edge for the one in flight.
\* NotifyAt(p): the same while the drain moves to position p.
NotifyAtDropsEdge(position) ==   \* mutant
  /\ drain' = IF position = "idle" THEN "sleeping" ELSE position
  /\ rerun' = FALSE
  /\ UNCHANGED <<pendingIds, batch>>
NotifyAt(position) ==
  /\ drain' = IF position = "idle" THEN "sleeping" ELSE position
  /\ rerun' = (position # "idle")
  /\ UNCHANGED <<pendingIds, batch>>

\* drainAfterDelay returned: drainUntilQuiet goes round again or settles.
EndDrain(again) ==
  /\ drain' = IF again THEN "sleeping" ELSE "idle"
  /\ rerun' = FALSE /\ pendingIds' = {} /\ batch' = {}

-----------------------------------------------------------------------------
\* The inbox side.

Enqueue(e) ==
  /\ inbox[e] = "absent"
  /\ inbox' = [inbox EXCEPT ![e] = "pending"]
  /\ unannounced' = unannounced \cup {e}
  /\ UNCHANGED <<drainVars, paused, turnVars, log, used>>

\* The manager's agent_completed event, emitted after the enqueue.
Announce(e) ==
  /\ e \in unannounced
  /\ unannounced' = unannounced \ {e}
  /\ NotifyAt(drain)
  /\ UNCHANGED <<inbox, paused, turnVars, log, used>>

\* The debounce timer fires.
Wake ==
  /\ drain = "sleeping"
  /\ IF ParentIdle THEN drain' = "listing" /\ UNCHANGED <<rerun, pendingIds, batch>>
     ELSE EndDrain(rerun)
  /\ UNCHANGED <<inboxVars, paused, turnVars, log, used>>

\* The two listInbox reads.  Nothing but this drain marks an entry delivered,
\* so what happens between them cannot be told from what happens after both.
ListInbox ==
  /\ drain = "listing"
  /\ LET pending == {e \in Entry : inbox[e] = "pending"}
         ids == pending \cup {e \in Entry : inbox[e] = "delivered"}
     IN  IF ids = {} THEN EndDrain(rerun)
         ELSE /\ pendingIds' = pending /\ batch' = ids
              /\ drain' = "marking" /\ UNCHANGED rerun
  /\ UNCHANGED <<inboxVars, paused, turnVars, log, used>>

\* The event is appended whatever the entry's state has become since the read.
MarkDelivered ==
  /\ drain = "marking"
  /\ inbox' = [e \in Entry |-> IF e \in pendingIds THEN "delivered" ELSE inbox[e]]
  /\ drain' = "delivering" /\ pendingIds' = {}
  /\ UNCHANGED <<unannounced, rerun, batch, paused, turnVars, log, used>>

\* deliverAgentResults takes busy, or throws AgentDeliveryDeferred.
Deliver ==
  /\ drain = "delivering"
  /\ IF Busy THEN EndDrain(rerun) /\ UNCHANGED turn
     ELSE turn' = [NoTurn EXCEPT !.kind = "delivery", !.stage = "input",
                                      !.messages = conversation]
          /\ drain' = "delivered" /\ UNCHANGED <<rerun, pendingIds, batch>>
  /\ UNCHANGED <<inboxVars, paused, rewindPoint, conversation, log, used>>

\* One "acknowledged" event at a time; the drain returns after the last.
AckDelivered(e) ==
  /\ drain = "acking" /\ e \in batch
  /\ inbox' = [inbox EXCEPT ![e] = "acknowledged"]
  /\ IF batch = {e} THEN EndDrain(rerun)
     ELSE batch' = batch \ {e} /\ UNCHANGED <<drain, rerun, pendingIds>>
  /\ UNCHANGED <<unannounced, paused, turnVars, log, used>>

\* /agents retry
RetryDelivery ==
  /\ paused
  /\ paused' = FALSE
  /\ NotifyAt(drain)
  /\ UNCHANGED <<inboxVars, turnVars, log, used>>
-----------------------------------------------------------------------------
\* The turns.

\* runUserPrompt: unpauses, takes the rewind point.
SubmitPromptUnguarded ==   \* mutant
  /\ used.prompts < MaxPrompts
  /\ Spend("prompts")
  /\ paused' = FALSE
  /\ turn' = [NoTurn EXCEPT !.kind = "prompt", !.stage = "input",
                            !.parent = rewindPoint, !.messages = conversation]
  /\ rewindPoint' = {}
  /\ UNCHANGED <<inboxVars, drainVars, conversation, log>>
SubmitPrompt ==
  /\ ~Busy /\ used.prompts < MaxPrompts
  /\ Spend("prompts")
  /\ paused' = FALSE
  /\ turn' = [NoTurn EXCEPT !.kind = "prompt", !.stage = "input",
                            !.parent = rewindPoint, !.messages = conversation]
  /\ rewindPoint' = {}
  /\ UNCHANGED <<inboxVars, drainVars, conversation, log>>

\* runPrompt's bootstrap: the input record, unless this delivery's is in the
\* log already.  The explicit parent serves the first append only.
AppendInput ==
  /\ turn.stage = "input"
  /\ LET persisted == IF turn.kind = "delivery" THEN PersistedDelivery(batch) ELSE {}
         parent == IF turn.parent = {} THEN Len(log) ELSE Max(turn.parent)
         ids == IF turn.kind = "delivery" THEN batch ELSE {}
         kind == IF turn.kind = "delivery" THEN "packet" ELSE "prompt"
         input == IF persisted = {} THEN Len(log) + 1 ELSE Min(persisted)
     IN  /\ log' = IF persisted = {} THEN Append(log, Record(kind, ids, parent)) ELSE log
         /\ turn' = [turn EXCEPT !.stage = "snapshot", !.parent = {}, !.input = input,
                                 !.messages = Append(@, input)]
  /\ UNCHANGED <<inboxVars, drainVars, paused, rewindPoint, conversation, used>>

\* FileCheckpointManager.createSnapshot
Snapshot ==
  /\ turn.stage = "snapshot"
  /\ IF Checkpointing THEN AppendRecord("snapshot", {}) ELSE UNCHANGED log
  /\ turn' = [turn EXCEPT !.stage = "provider"]
  /\ UNCHANGED <<inboxVars, drainVars, paused, rewindPoint, conversation, used>>

\* The final reply, recorded, becomes part of the conversation; busy falls.
\* A delivery goes on to acknowledge its batch.  The idle effect notifies.
Reply ==
  /\ turn.stage = "provider"
  /\ AppendRecord("reply", {})
  /\ conversation' = Append(turn.messages, Len(log) + 1)
  /\ turn' = NoTurn
  /\ NotifyAt(IF turn.kind = "delivery" THEN "acking" ELSE drain)
  /\ UNCHANGED <<inboxVars, paused, rewindPoint, used>>

\* The response calls wait_agent: the assistant record is appended first.
CallWaitAgent(e) ==
  /\ turn.stage = "provider" /\ used.waits < MaxWaits
  /\ Spend("waits")
  /\ AppendRecord("call", {})
  /\ turn' = [turn EXCEPT !.stage = "waiting", !.wait = e,
                          !.messages = Append(@, Len(log) + 1)]
  /\ UNCHANGED <<inboxVars, drainVars, paused, rewindPoint, conversation>>

\* manager.wait returned the terminal result: acknowledgeAgentResult.
WaitConsumes ==
  /\ turn.stage = "waiting" /\ inbox[turn.wait] # "absent"
  /\ inbox' = [inbox EXCEPT ![turn.wait] = "acknowledged"]
  /\ turn' = [turn EXCEPT !.stage = "recording"]
  /\ UNCHANGED <<unannounced, drainVars, paused, rewindPoint, conversation, log, used>>

\* The tool round records the result after the call returned.
RecordToolResult ==
  /\ turn.stage = "recording"
  /\ AppendRecord("tool", {turn.wait})
  /\ turn' = [turn EXCEPT !.stage = "provider", !.wait = NoEntry,
                          !.messages = Append(@, Len(log) + 1)]
  /\ UNCHANGED <<inboxVars, drainVars, paused, rewindPoint, conversation, used>>

\* markFailedUserTurn writes only behind a user record at the branch's tail.
Markable == log # <<>> /\ IsUser(Len(log))

\* runUserPrompt's catch: mark, then rebuild the conversation from the log.
FailPrompt ==
  /\ turn.stage = "provider" /\ turn.kind = "prompt" /\ used.troubles < MaxTroubles
  /\ Spend("troubles")
  /\ IF Markable THEN AppendRecord("failed", {}) ELSE UNCHANGED log
  /\ conversation' = Shown(log', Len(log'))
  /\ turn' = NoTurn
  /\ NotifyAt(drain)
  /\ UNCHANGED <<inboxVars, paused, rewindPoint>>

\* deliverAgentResults' catch pauses the session and rethrows: the drain ends,
\* and with it the edge the idle effect has just left.
FailDelivery ==
  /\ turn.stage = "provider" /\ turn.kind = "delivery" /\ used.troubles < MaxTroubles
  /\ Spend("troubles")
  /\ paused' = TRUE
  /\ turn' = NoTurn
  /\ EndDrain(FALSE)
  /\ UNCHANGED <<inboxVars, rewindPoint, conversation, log>>

\* Escape.  A prompt no response was seen for is rewound: its draft returns to
\* the composer and the next prompt forks from its parent.
InterruptPrompt(sawResponse) ==
  /\ turn.stage = "provider" /\ turn.kind = "prompt" /\ used.troubles < MaxTroubles
  /\ sawResponse \/ log[Len(log)].kind # "tool"
  /\ Spend("troubles")
  /\ IF sawResponse THEN UNCHANGED <<rewindPoint, conversation>>
     ELSE /\ rewindPoint' = {log[turn.input].parent}
          /\ conversation' = Shown(log, log[turn.input].parent)
  /\ turn' = NoTurn
  /\ NotifyAt(drain)
  /\ UNCHANGED <<inboxVars, paused, log>>

\* AgentDeliveryDeferred out of the catch: paused, and the drain returns.
InterruptDeliverySwallowed ==   \* mutant
  /\ turn.stage = "provider" /\ turn.kind = "delivery" /\ used.troubles < MaxTroubles
  /\ Spend("troubles")
  /\ paused' = TRUE
  /\ turn' = NoTurn
  /\ NotifyAt("acking")
  /\ UNCHANGED <<inboxVars, rewindPoint, conversation, log>>
InterruptDelivery ==
  /\ turn.stage = "provider" /\ turn.kind = "delivery" /\ used.troubles < MaxTroubles
  /\ Spend("troubles")
  /\ paused' = TRUE
  /\ turn' = NoTurn
  /\ EndDrain(TRUE)
  /\ UNCHANGED <<inboxVars, rewindPoint, conversation, log>>

\* The host dies; the next one resumes the session, whose effect notifies.
Restart ==
  /\ used.crashes < MaxCrashes
  /\ Spend("crashes")
  /\ unannounced' = {} /\ paused' = FALSE
  /\ EndDrain(TRUE)
  /\ turn' = NoTurn /\ rewindPoint' = {} /\ conversation' = Shown(log, Len(log))
  /\ UNCHANGED <<inbox, log>>

DrainStep ==
  \/ Wake \/ ListInbox \/ MarkDelivered \/ Deliver
  \/ \E e \in Entry : AckDelivered(e)

TurnStep ==
  AppendInput \/ Snapshot \/ Reply \/ WaitConsumes \/ RecordToolResult

Next ==
  \/ \E e \in Entry : Enqueue(e) \/ Announce(e) \/ CallWaitAgent(e)
  \/ DrainStep \/ TurnStep
  \/ SubmitPrompt \/ RetryDelivery
  \/ FailPrompt \/ FailDelivery
  \/ \E saw \in BOOLEAN : InterruptPrompt(saw)
  \/ InterruptDelivery \/ Restart

\* Host work never stalls: timers fire, file operations and providers answer,
\* and every child run reaches its terminal result (AgentManager).  Users,
\* failures and crashes promise nothing.
Fairness ==
  /\ WF_vars(DrainStep) /\ WF_vars(TurnStep)
  /\ \A e \in Entry : WF_vars(Enqueue(e)) /\ WF_vars(Announce(e))

Spec == Init /\ [][Next]_vars /\ Fairness

-----------------------------------------------------------------------------
InboxState == {"absent", "pending", "delivered", "acknowledged"}
DrainState == {"idle", "sleeping", "listing", "marking", "delivering",
               "delivered", "acking"}
Records == [kind : {"prompt", "packet", "snapshot", "failed", "reply", "call", "tool"},
            ids : SUBSET Entry, parent : Nat]

\* Types, and the ties of the in-memory positions: a delivery turn runs exactly
\* while its drain awaits it, a batch is held exactly between listing and
\* acknowledgement, every record's parent precedes it in the file.
TypeOK ==
  /\ inbox \in [Entry -> InboxState] /\ unannounced \subseteq Entry
  /\ drain \in DrainState /\ rerun \in BOOLEAN
  /\ pendingIds \subseteq Entry /\ batch \subseteq Entry
  /\ (batch # {}) <=> drain \in {"marking", "delivering", "delivered", "acking"}
  /\ (drain = "delivered") <=> (turn.kind = "delivery")
  /\ paused \in BOOLEAN
  /\ turn.kind \in {"none", "prompt", "delivery"}
  /\ turn.stage \in {"none", "input", "snapshot", "provider", "waiting", "recording"}
  /\ turn.wait \in Entry \cup {NoEntry}
  /\ turn.input \in 0..Len(log) /\ Range(turn.messages) \subseteq 1..Len(log)
  /\ Range(conversation) \subseteq 1..Len(log) /\ rewindPoint \subseteq 0..Len(log)
  /\ log \in Seq(Records) /\ \A i \in DOMAIN log : log[i].parent < i

\* A reply the model gave with entry e's packet on its branch.
Answered(e) ==
  \E i \in DOMAIN log :
    /\ log[i].kind = "reply"
    /\ \E j \in Range(Branch(log, i)) : log[j].kind = "packet" /\ e \in log[j].ids

\* An entry becomes acknowledged only by a drain whose packet the model has
\* answered, durably, or by the wait_agent call that holds the result; a busy
\* parent, a failed or interrupted delivery acknowledges nothing.
AcknowledgedOnlyWhenConsumed ==
  [][\A e \in Entry :
       inbox'[e] = "acknowledged" /\ inbox[e] # "acknowledged"
         => Answered(e) \/ turn.wait = e]_vars

\* However often a delivery fails, is interrupted, crashes and is retried, no
\* branch of the session carries two packets for one batch.
OnePacketPerBatch ==
  \A head \in DOMAIN log : \A i, j \in Range(Branch(log, head)) :
    log[i].kind = "packet" /\ log[j].kind = "packet" /\ log[i].ids = log[j].ids => i = j

\* A delivery that failed is not repeated by itself: none starts while the
\* session is paused, whatever completes or falls idle meanwhile.
PausedUntilUserActs == [][turn.kind # "delivery" /\ turn'.kind = "delivery" => ~paused]_vars

\* No completion is stranded: an undelivered result is in the end acknowledged,
\* unless the session is paused, which the user is told of and can lift.
EveryResultDelivered ==
  \A e \in Entry : inbox[e] \in {"pending", "delivered"} ~> inbox[e] = "acknowledged" \/ paused

\* Deliveries go on by themselves exactly until one has failed: none is stranded,
\* none is repeated unasked.
DeliversUntilPaused == PausedUntilUserActs /\ EveryResultDelivered

-----------------------------------------------------------------------------
\* What docs and comments claim and the code does not keep.

\* A provider request never carries two consecutive user messages: a failed
\* turn's marker keeps its dangling input out of the next request.
RequestsAlternate ==
  turn.stage = "provider" =>
    \A n \in 1..(Len(turn.messages) - 1) :
      ~(IsUser(turn.messages[n]) /\ IsUser(turn.messages[n + 1]))

\* An acknowledged result is in the history a resume of the session projects.
AcknowledgedStaysInHistory ==
  \A e \in Entry : inbox[e] = "acknowledged" /\ turn = NoTurn
    => \E i \in Range(Shown(log, Len(log))) : e \in log[i].ids

=============================================================================
