------------------------------ MODULE TurnLoop ------------------------------
(***************************************************************************)
(* A turn of the main Agent Loop (core/agent-loop): provider rounds, the   *)
(* round of tool calls each response asks for, the panels on which the     *)
(* user allows a call, decides a gate or answers a question, and how the   *)
(* pending interaction and the conversation are rebuilt from the session   *)
(* log after a failure, an interruption or a restart (core/session, tui).  *)
(*                                                                         *)
(* One session.  The log is its active branch, reduced to the records that *)
(* say something about tool calls; user records and the dropping of failed *)
(* inputs are AgentDelivery's.  A conversation is a sequence of the same   *)
(* records, plus "synthetic" results that stand for lost ones.             *)
(***************************************************************************)
EXTENDS Integers, Sequences, SequencesExt, FiniteSetsExt, Selection

CONSTANTS
  Call,         \* tool call ids: each is issued by one response
  Asked,        \* calls the permission policy puts to the user
  Agent,        \* calls of the agent tools
  Process,      \* shell_exec and run_skill_script calls
  Gate,         \* request_confirmation calls
  Question,     \* ask_user_question calls
  Batch,        \* the sequences of calls a response may ask for
  MaxRounds, MaxPrompts, MaxTroubles, MaxCrashes   \* bounds of the model

Interactive == Gate \cup Question

ASSUME CallAssumption ==
  /\ Asked \cup Agent \cup Process \cup Interactive \subseteq Call
  /\ Gate \cap Question = {} /\ Agent \cap Process = {}
  /\ Interactive \cap (Asked \cup Agent \cup Process) = {}
  /\ Batch \subseteq Seq(Call) \ {<<>>} /\ \A calls \in Batch : IsInjective(calls)

ASSUME BoundAssumption ==
  MaxRounds \in Nat /\ MaxPrompts \in Nat /\ MaxTroubles \in Nat /\ MaxCrashes \in Nat

VARIABLES
  log,            \* the active branch of the session file
  conversation,   \* session.conversation(): what the next prompt starts from
  panel,          \* the pending interaction on screen
  turn,           \* the turn that holds busy
  executed,       \* history: how often each call was carried out
  calledOff,      \* history: calls a request reported as interrupted
  stale,          \* history: permission requests a takeover left open
  used            \* rounds, prompts, troubles and crashes so far

history == <<executed, calledOff, stale>>
vars == <<log, conversation, panel, turn, history, used>>

Record(kind, calls) == [kind |-> kind, calls |-> calls]
Has(records, kind, c) == \E i \in DOMAIN records : records[i] = Record(kind, <<c>>)
Resolved(c) == Has(log, "allow", c) \/ Has(log, "reject", c)

Answers(records, c) ==
  {i \in DOMAIN records : records[i] \in {Record("tool", <<c>>), Record("synthetic", <<c>>)}}
Declarations(records, c) ==
  {i \in DOMAIN records : records[i].kind = "assistant" /\ c \in Range(records[i].calls)}

\* calls[1] is before the user, the others wait behind it; deferred Agent
\* calls are decided and run together with the last of them.
NoPanel == [kind |-> "none", calls |-> <<>>, deferred |-> <<>>, messages |-> <<>>]

NoTurn == [kind |-> "none", stage |-> "none", hosts |-> <<>>, running |-> <<>>,
           redirects |-> <<>>, ask |-> <<>>, deferred |-> <<>>, thrown |-> FALSE,
           panel |-> NoPanel, messages |-> <<>>, answered |-> FALSE]

Init ==
  /\ log = <<>> /\ conversation = <<>> /\ panel = NoPanel /\ turn = NoTurn
  /\ executed = [c \in Call |-> 0] /\ calledOff = {} /\ stale = {}
  /\ used = [rounds |-> 0, prompts |-> 0, troubles |-> 0, crashes |-> 0]

Spend(bound) == used' = [used EXCEPT ![bound] = @ + 1]
Busy == turn # NoTurn

-----------------------------------------------------------------------------
\* What a session file says about pending interactions, and its repair.

Firsts(calls, wanted) ==
  IF Only(calls, wanted) = <<>> THEN {} ELSE {Head(Only(calls, wanted))}

\* Mutant: answered calls count as pending.
PendingCallAnswered(kind) ==
  LET at == {i \in DOMAIN log : log[i].kind = "assistant"}
  IN  IF at = {} THEN {} ELSE Firsts(log[Max(at)].calls, kind)

\* recoverPendingToolCalls: of the last assistant record only.
PendingCall(kind) ==
  LET at == {i \in DOMAIN log : log[i].kind = "assistant"}
  IN  IF at = {} THEN {}
      ELSE Firsts(log[Max(at)].calls, {c \in kind : ~Has(log, "tool", c)})

\* recoverPendingPermission: the latest request without a resolution.
PendingPermission ==
  LET open == {i \in DOMAIN log : log[i].kind = "request" /\ ~Resolved(log[i].calls[1])}
  IN  IF open = {} THEN {} ELSE {log[Max(open)].calls[1]}

\* preservedPendingCallIds
Preserved == PendingPermission \cup PendingCall(Gate) \cup PendingCall(Question)

\* projectSessionHistory and repairProviderHistory: every call that has no
\* durable result and is not preserved gets a synthetic one after its issuer.
Repaired(record, preserved) ==
  LET lost == Only(record.calls, {c \in Call : ~Has(log, "tool", c)} \ preserved)
  IN  CASE record.kind = "assistant" ->
             <<record>> \o [i \in DOMAIN lost |-> Record("synthetic", <<lost[i]>>)]
        [] record.kind = "tool" -> <<record>>
        [] OTHER -> <<>>
Repair(preserved) ==
  LET repaired[n \in 0..Len(log)] ==
        IF n = 0 THEN <<>> ELSE repaired[n - 1] \o Repaired(log[n], preserved)
  IN  repaired[Len(log)]

\* unresolvedToolCalls: what waits behind a restored permission request.
Unresolved(messages, c) ==
  LET issuers == Declarations(messages, c)
  IN  IF issuers = {} THEN <<>>
      ELSE Only(messages[Max(issuers)].calls, {d \in Call \ {c} : Answers(messages, d) = {}})

\* restorePendingInteraction: one panel, in this order of precedence.
RestoredPanel ==
  LET messages == Repair(Preserved)
      Shown(kind, calls) == [NoPanel EXCEPT !.kind = kind, !.calls = calls, !.messages = messages]
      The(set) == CHOOSE c \in set : TRUE
  IN  CASE PendingPermission # {} ->
             LET c == The(PendingPermission)
             IN  Shown("permission", <<c>> \o Unresolved(messages, c))
        [] PendingPermission = {} /\ PendingCall(Gate) # {} ->
             Shown("gate", <<The(PendingCall(Gate))>>)
        [] PendingPermission = {} /\ PendingCall(Gate) = {} /\ PendingCall(Question) # {} ->
             Shown("question", <<The(PendingCall(Question))>>)
        [] OTHER -> NoPanel

-----------------------------------------------------------------------------
\* A turn goes on with the first thing it still has to do.
GoOn(t) ==
  [t EXCEPT !.stage =
     CASE t.hosts # <<>> -> "host"
       [] t.hosts = <<>> /\ t.running # <<>> -> "record"
       [] t.hosts = <<>> /\ t.running = <<>> /\ t.thrown -> "thrown"
       [] t.hosts = <<>> /\ t.running = <<>> /\ ~t.thrown /\ t.redirects # <<>> -> "redirect"
       [] t.hosts = <<>> /\ t.running = <<>> /\ ~t.thrown /\ t.redirects = <<>> /\ t.ask # <<>> -> "ask"
       [] OTHER -> "provider"]

At(stage) == turn.stage = stage
Becomes(t) == turn' = t /\ UNCHANGED <<conversation, panel>>

\* recordToolResult: to the turn's messages and to the log.
Answer(c) ==
  /\ log' = Append(log, Record("tool", <<c>>))
  /\ UNCHANGED <<conversation, panel, history, used>>
WithAnswer(t, c) == [t EXCEPT !.messages = Append(@, Record("tool", <<c>>))]

SubmitPrompt ==
  /\ ~Busy /\ panel = NoPanel /\ used.prompts < MaxPrompts
  /\ Spend("prompts")
  /\ Becomes([NoTurn EXCEPT !.kind = "prompt", !.stage = "provider", !.messages = conversation])
  /\ UNCHANGED <<log, history>>

ReportedInterrupted == {c \in Call : Has(turn.messages, "synthetic", c)}

\* The response has no tool calls: finalizeTurn, and the turn is complete.
Reply ==
  /\ At("provider")
  /\ log' = Append(log, Record("assistant", <<>>))
  /\ conversation' = Append(turn.messages, Record("assistant", <<>>))
  /\ turn' = NoTurn
  /\ calledOff' = calledOff \cup ReportedInterrupted
  /\ UNCHANGED <<panel, executed, stale, used>>

\* The loop stops after a tool round: too many rounds, too many failed rounds
\* in a row or a compaction that is blocked.  The turn is complete as well.
GiveUp ==
  /\ At("provider") /\ turn.answered
  /\ conversation' = turn.messages
  /\ turn' = NoTurn
  /\ UNCHANGED <<log, panel, history, used>>

\* Mutant: the extra interactive calls of a response are left open.
PlanWithoutExtras(calls) ==
  LET asked == Only(calls, Asked)
      interactive == Only(calls, Interactive)
  IN  [redirects |-> IF asked # <<>> THEN interactive ELSE <<>>,
       ask |-> IF asked # <<>> THEN asked
               ELSE IF interactive = <<>> THEN <<>> ELSE <<Head(interactive)>>]

\* Mutant: interactive calls wait in line behind the permissions.
PlanQueued(calls) ==
  [redirects |-> <<>>, ask |-> Only(calls, Asked)
                                 \o Only(calls, Interactive)]

\* planToolRound and resolveInteractionPause: permissions go before
\* interactive calls, and only the first interactive call is opened.
PlanPause(calls) ==
  LET asked == Only(calls, Asked)
      interactive == Only(calls, Interactive)
  IN  CASE asked # <<>> -> [redirects |-> interactive, ask |-> asked]
        [] asked = <<>> /\ interactive # <<>> ->
             [redirects |-> Tail(interactive), ask |-> <<Head(interactive)>>]
        [] OTHER -> [redirects |-> <<>>, ask |-> <<>>]

\* The response asks for calls: recordAssistantToolCalls, then the plan.
Respond(calls) ==
  /\ At("provider")
  /\ \A i \in DOMAIN calls : Declarations(log, calls[i]) = {}
  /\ used.rounds < MaxRounds /\ Spend("rounds")
  /\ log' = Append(log, Record("assistant", calls))
  /\ Becomes([turn EXCEPT !.stage = "start", !.answered = TRUE,
       !.messages = Append(@, Record("assistant", calls)),
       !.hosts = Only(calls, Call \ (Asked \cup Interactive \cup Agent)),
       !.running = Only(calls, Agent \ Asked),
       !.redirects = PlanPause(calls).redirects, !.ask = PlanPause(calls).ask])
  /\ calledOff' = calledOff \cup ReportedInterrupted
  /\ UNCHANGED <<executed, stale>>

Execute(calls) == executed' = [c \in Call |-> executed[c] + IF c \in calls THEN 1 ELSE 0]
StartRecords(calls) ==
  LET processes == Only(calls, Process)
  IN  [i \in DOMAIN processes |-> Record("started", <<processes[i]>>)]

\* executeToolRound starts every Agent call of the round at once.
StartAgents ==
  /\ At("start")
  /\ Execute(Range(turn.running))
  /\ Becomes(GoOn(turn))
  /\ UNCHANGED <<log, calledOff, stale, used>>

\* executeNonAgentCalls: one call after the other; a host process leaves its
\* start record first.
RunHost ==
  /\ At("host")
  /\ log' = log \o StartRecords(<<Head(turn.hosts)>>)
  /\ Execute({Head(turn.hosts)})
  /\ Becomes([turn EXCEPT !.stage = "hostRuns"])
  /\ UNCHANGED <<calledOff, stale, used>>

HostReturns ==
  /\ At("hostRuns")
  /\ Answer(Head(turn.hosts))
  /\ turn' = GoOn([WithAnswer(turn, Head(turn.hosts)) EXCEPT !.hosts = Tail(@)])

\* A call that throws ends the host calls; the Agent calls are still awaited
\* and recorded before the error goes on.
HostThrows ==
  /\ At("hostRuns") /\ used.troubles < MaxTroubles
  /\ Becomes(GoOn([turn EXCEPT !.hosts = <<>>, !.thrown = TRUE]))
  /\ UNCHANGED <<log, history, used>>

\* recordAgentCalls, executeAndRecordEntries
RecordResult ==
  /\ At("record")
  /\ Answer(Head(turn.running))
  /\ turn' = GoOn([WithAnswer(turn, Head(turn.running)) EXCEPT !.running = Tail(@)])

\* recordRedirects
Redirect ==
  /\ At("redirect")
  /\ Answer(Head(turn.redirects))
  /\ turn' = GoOn([WithAnswer(turn, Head(turn.redirects)) EXCEPT !.redirects = Tail(@)])

\* pauseForGate refuses a gate that the engine profile does not declare.
RefuseGate ==
  /\ At("ask") /\ Head(turn.ask) \in Gate
  /\ Answer(Head(turn.ask))
  /\ turn' = GoOn([WithAnswer(turn, Head(turn.ask)) EXCEPT !.ask = <<>>])

\* pauseForPermission, createPermissionPause, pauseForGate, pauseForUserQuestion:
\* the turn ends with the panel it has opened.
OpenPanel ==
  /\ At("ask")
  /\ LET c == Head(turn.ask)
         kind == CASE c \in Asked -> "permission" [] c \in Gate -> "gate" [] OTHER -> "question"
     IN  /\ log' = IF c \in Asked THEN Append(log, Record("request", <<c>>)) ELSE log
         /\ panel' = [kind |-> kind, calls |-> turn.ask, deferred |-> turn.deferred,
                      messages |-> turn.messages]
  /\ conversation' = turn.messages
  /\ turn' = NoTurn
  /\ UNCHANGED <<history, used>>

-----------------------------------------------------------------------------
\* The user decides.

\* submitPermissionResolution, submitGateResolution, submitUserQuestionAnswer
Decide ==
  /\ ~Busy /\ panel # NoPanel
  /\ turn' = [NoTurn EXCEPT !.kind = panel.kind, !.stage = "resolve", !.panel = panel,
                            !.messages = panel.messages]
  /\ panel' = NoPanel
  /\ UNCHANGED <<log, conversation, history, used>>

\* resolveGate, resolveUserQuestion: the durable answer, then the next round.
AnswerInteraction ==
  /\ At("resolve") /\ turn.kind \in {"gate", "question"}
  /\ Answer(turn.panel.calls[1])
  /\ turn' = GoOn(WithAnswer(turn, turn.panel.calls[1]))

\* validateDurablePermissionRequest
Valid(p) ==
  LET c == p.calls[1]
      Open(d) == Declarations(p.messages, d) # {} /\ Answers(p.messages, d) = {}
  IN  /\ Has(log, "request", c) /\ ~Resolved(c) /\ Open(c)
      /\ \A d \in Range(p.deferred) :
           d # c /\ Has(log, "request", d) /\ Resolved(d) /\ ~Has(log, "tool", d) /\ Open(d)

\* The next Agent call is asked before the other remaining calls.
AgentFirst(calls) ==
  LET agents == Only(calls, Agent)
  IN  IF agents = <<>> THEN calls ELSE <<Head(agents)>> \o Only(calls, Call \ {Head(agents)})

\* preparePermissionResolution and collectPermissionBatch: the decision is
\* durable first.  Agent calls wait until all of them are decided.
ResolvePermission(decision) ==
  /\ At("resolve") /\ turn.kind = "permission" /\ Valid(turn.panel)
  /\ LET c == turn.panel.calls[1]
         rest == Tail(turn.panel.calls)
         batch == IF c \in Agent THEN Append(turn.panel.deferred, c) ELSE <<c>>
         more == c \in Agent /\ Range(rest) \cap Agent # {}
     IN  /\ log' = Append(log, Record(decision, <<c>>))
         /\ Becomes(IF more THEN [turn EXCEPT !.stage = "ask", !.ask = AgentFirst(rest),
                                               !.deferred = batch]
                     ELSE [turn EXCEPT !.stage = "entries", !.running = batch, !.ask = rest])
  /\ UNCHANGED <<history, used>>

\* Mutant: rejected calls of a batch run as well.
AllowedAll(calls) == calls

Allowed(calls) == Only(calls, {c \in Call : Has(log, "allow", c)})

\* executeApprovedEntry, for all entries at once.  A call whose tool has left
\* the effective surface is answered like a rejected one.
RunEntries ==
  /\ At("entries")
  /\ log' = log \o StartRecords(Allowed(turn.running))
  /\ Execute(Range(Allowed(turn.running)))
  /\ Becomes([turn EXCEPT !.stage = "entriesRun"])
  /\ UNCHANGED <<calledOff, stale, used>>

\* Mutant: the batch waits for an execution even if all were rejected.
EntriesReturnAllowed ==
  /\ At("entriesRun") /\ Allowed(turn.running) # <<>>
  /\ Becomes(GoOn(turn))
  /\ UNCHANGED <<log, history, used>>

\* All of them have returned; one that throws ends the turn unrecorded instead.
EntriesReturn ==
  /\ At("entriesRun")
  /\ Becomes(GoOn(turn))
  /\ UNCHANGED <<log, history, used>>

-----------------------------------------------------------------------------
\* Failures, Escape and restarts.

\* Mutant: the permission panel comes back as the gate panel does.
ReopenedUnchecked == turn.panel

\* reconcilePermissionAfterContinuationFailure and its question counterpart
\* look into the log; the gate panel simply comes back.
Reopened ==
  LET pending == CASE turn.kind = "permission" -> PendingPermission
                   [] turn.kind = "question" -> PendingCall(Question)
                   [] OTHER -> {turn.panel.calls[1]}
  IN  IF turn.panel.calls[1] \in pending THEN turn.panel ELSE NoPanel

Continuation == turn.kind \in {"permission", "gate", "question"}
\* Where the signal is looked at, or the awaited operation may fail.
Interruptible ==
  \/ turn.stage \in {"provider", "resolve", "entries", "entriesRun", "thrown"}
  \/ At("ask") /\ turn.deferred # <<>>
Stops ==
  /\ Interruptible /\ used.troubles < MaxTroubles
  /\ Spend("troubles")
  /\ turn' = NoTurn
  /\ calledOff' = IF At("provider") THEN calledOff \cup ReportedInterrupted ELSE calledOff
  /\ UNCHANGED <<log, executed>>

\* Mutant: a failed resolution drops the interaction it was about.
StopContinuationDrops ==
  /\ Continuation /\ Stops
  /\ conversation' = Repair({})
  /\ UNCHANGED <<panel, stale>>

\* A rejected request or an error, or Escape with nothing queued, while an
\* interaction is resolved: the panel may come back.
StopContinuation ==
  /\ Continuation /\ Stops
  /\ panel' = Reopened
  /\ UNCHANGED stale
  /\ conversation' = IF Reopened = NoPanel THEN Repair(Preserved) ELSE conversation

\* runUserPrompt's catch rebuilds the conversation from the log, and so does a
\* prompt's interruption with a queued message.
FailPrompt ==
  /\ turn.kind = "prompt" /\ Stops
  /\ conversation' = Repair({})
  /\ UNCHANGED <<panel, stale>>

\* Escape in a prompt's turn.  Before any response the prompt is rewound,
\* afterwards the conversation stays what it was before the turn.
InterruptPrompt ==
  /\ turn.kind = "prompt" /\ Stops
  /\ conversation' \in {conversation} \cup (IF turn.answered THEN {} ELSE {Repair(Preserved)})
  /\ UNCHANGED <<panel, stale>>

\* Escape with a queued message: handleInterruption rebuilds the conversation
\* and lets the message go; no panel comes back.
TakeOver ==
  /\ Continuation /\ Stops
  /\ conversation' = Repair({})
  /\ stale' = stale \cup PendingPermission
  /\ UNCHANGED panel

\* The host stops, at any point, and resumes the session.
Restart ==
  /\ used.crashes < MaxCrashes
  /\ Spend("crashes")
  /\ turn' = NoTurn
  /\ panel' = RestoredPanel
  /\ conversation' = Repair(Preserved)
  /\ UNCHANGED <<log, history>>

TurnStep ==
  \/ Reply \/ GiveUp \/ \E calls \in Batch : Respond(calls)
  \/ StartAgents \/ RunHost \/ HostReturns \/ HostThrows \/ RecordResult \/ Redirect
  \/ RefuseGate \/ OpenPanel
  \/ AnswerInteraction \/ \E decision \in {"allow", "reject"} : ResolvePermission(decision)
  \/ RunEntries \/ EntriesReturn \/ StopContinuation \/ FailPrompt \/ InterruptPrompt \/ TakeOver

Next == SubmitPrompt \/ Decide \/ TurnStep \/ Restart

\* Providers, tools and file operations answer or fail; users, failures and
\* restarts promise nothing.
Spec == Init /\ [][Next]_vars /\ WF_vars(TurnStep)

-----------------------------------------------------------------------------
Stage == {"none", "provider", "start", "host", "hostRuns", "record", "redirect", "ask",
          "resolve", "entries", "entriesRun", "thrown"}
Results(c) == {i \in DOMAIN log : log[i] = Record("tool", <<c>>)}

\* Types, and the ties between the parts: a turn and a panel exclude each
\* other, each stage has what it works on, a panel has a call before the user.
TypeOK ==
  /\ \A i \in DOMAIN log :
       /\ log[i].kind \in {"assistant", "request", "allow", "reject", "started", "tool"}
       /\ log[i].calls \in Seq(Call) /\ (log[i].kind # "assistant" => Len(log[i].calls) = 1)
  /\ panel.kind \in {"none", "permission", "gate", "question"}
  /\ panel.calls \in Seq(Call) /\ Range(panel.deferred) \subseteq Agent \cap Asked
  /\ panel = NoPanel <=> panel.calls = <<>>
  /\ panel.kind = "permission" => Range(panel.calls) \subseteq Asked
  /\ turn.stage \in Stage /\ (Busy => panel = NoPanel)
  /\ turn.hosts \in Seq(Call \ (Asked \cup Agent \cup Interactive))
  /\ Range(turn.running) \subseteq Call \ Interactive
  /\ turn.stage \in {"host", "hostRuns"} => turn.hosts # <<>>
  /\ turn.stage \in {"record", "entries"} => turn.running # <<>>
  /\ executed \in [Call -> Nat] /\ calledOff \subseteq Call
  /\ used \in [rounds : 0..MaxRounds, prompts : 0..MaxPrompts, troubles : 0..MaxTroubles, crashes : 0..MaxCrashes]

\* Every call a request declares has exactly one result, which follows its
\* issuer before the next assistant message (providers' invariants.ts).
PairedIn(messages, calls) ==
  \A c \in calls : Declarations(messages, c) \cup Answers(messages, c) # {} =>
    \E i \in Declarations(messages, c), j \in Answers(messages, c) :
      /\ Answers(messages, c) = {j} /\ i < j
      /\ \A k \in (i + 1)..j : messages[k].kind # "assistant"

\* RequestsPaired fails for the calls of the three cases below.
RequestsPaired == At("provider") => PairedIn(turn.messages, Call)

\* A gate decided again; an interactive call that a rebuilt conversation
\* preserves although no panel, or the panel of another call, is shown; and a
\* permission request that a takeover left open behind a later round.
Redecided == {c \in Gate : Cardinality(Results(c)) > 1}
Unshown == {c \in Interactive : Results(c) = {}}

Excused == IF used.troubles + used.crashes = 0 THEN {} ELSE Redecided \cup Unshown \cup stale

\* In every other case, whatever fails, is interrupted or restarted between
\* any two appends, the provider gets a history it accepts.
OtherRequestsPaired == At("provider") => PairedIn(turn.messages, Call \ Excused)

\* A call is carried out at most once and answered at most once; one the user
\* is asked about only behind a durable "allow", a host process only behind a
\* start record, so that no recovery takes it for one that never ran.
CallsRunOnce ==
  \A c \in Call :
    /\ executed[c] <= 1
    /\ c \notin Gate => Cardinality(Results(c)) <= 1
    /\ executed[c] = 1 /\ c \in Asked => Has(log, "allow", c) /\ ~Has(log, "reject", c)
    /\ executed[c] = 1 /\ c \in Process => Has(log, "started", c)

\* A gate, too, is answered once (docs/dev/SESSIONS.md, Failed Turns And
\* Continuations: nothing may replay a gate).
GateAnsweredOnce == \A c \in Gate : Cardinality(Results(c)) <= 1

\* Whatever brought the permission panel up, a decision on it is accepted: its
\* request is open in the log and its call open in the panel's conversation.
DecisionApplies == panel.kind = "permission" => Valid(panel)

\* What the model was told was interrupted is not carried out afterwards,
\* stale requests apart.
CalledOffStaysOff ==
  [][\A c \in Call \ stale : executed'[c] > executed[c] => c \notin calledOff]_vars

\* A restart shows the interaction that was on screen, unless it was a gate
\* decided before or a stale request takes its place.
PanelSurvivesRestart ==
  [][used'.crashes > used.crashes /\ panel # NoPanel /\ stale = {}
       => \/ panel'.kind = panel.kind /\ panel'.calls[1] = panel.calls[1]
          \/ Results(panel.calls[1]) # {}]_vars

\* A turn comes to an end: a final reply, a panel, or a failure.
TurnSettles == Busy ~> ~Busy
=============================================================================
