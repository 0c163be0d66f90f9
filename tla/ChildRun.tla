------------------------------ MODULE ChildRun ------------------------------
(***************************************************************************)
(* The loop of a running SubAgent (core/agents/child-runner.ts,            *)
(* child-tool-executor.ts, child-run-durability.ts), its mailbox           *)
(* (AgentManager.sendMessage) and the permission broker all children share *)
(* with the one decision panel of the TUI (core/permissions/broker.ts).    *)
(*                                                                         *)
(* A run starts with its child session bootstrapped and ends when finish() *)
(* has saved its terminal metadata: until then the manager's entry is      *)
(* controllable, so messages and interrupts are accepted.                  *)
(***************************************************************************)
EXTENDS Integers, Sequences, WaitQueue

CONSTANTS
  Child, NoChild,
  MaxTurns,          \* profile.maxTurns
  RetryLimit,        \* delegation.retryLimit, 0 for an undelegated run
  MaxCalls,          \* tool calls in one response   (bounds of the model)
  MaxMessages        \* messages each child is sent at most

ASSUME ChildAssumption ==
  /\ NoChild \notin Child
  /\ MaxTurns \in Nat \ {0} /\ RetryLimit \in Nat /\ MaxCalls \in Nat
  /\ MaxMessages \in [Child -> Nat]

VARIABLES
  pc,          \* where runChildAgent stands
  outcome,     \* how the run ended
  iteration, retries,
  calls,       \* tool calls of the last response not yet finished
  aborted,     \* controller.signal.aborted
  accepted,    \* messages send_message has reported as queued, numbered 1, 2, ...
  mailbox,     \* active.messages
  transcript,  \* the child session of this attempt: messages by number, Response
  queue,       \* ToolPermissionBroker.queue
  shown        \* pendingChildPermission: the request on the panel

loopVars == <<pc, outcome, iteration, retries, calls>>
mailVars == <<accepted, mailbox, transcript>>
brokerVars == <<queue, shown>>
vars == <<loopVars, aborted, mailVars, brokerVars>>

Response == 0
Settled(c) == pc[c] = "done"
At(c, place) == pc' = [pc EXCEPT ![c] = place]

Init ==
  /\ pc = [c \in Child |-> "head"] /\ outcome = [c \in Child |-> "none"]
  /\ iteration = [c \in Child |-> 0] /\ retries = [c \in Child |-> 0]
  /\ calls = [c \in Child |-> 0] /\ aborted = [c \in Child |-> FALSE]
  /\ accepted = [c \in Child |-> 0] /\ mailbox = [c \in Child |-> <<>>]
  /\ transcript = [c \in Child |-> <<>>]
  /\ queue = <<>> /\ shown = NoChild

\* The runner throws or returns; execute() goes on to finish().
End(c, how) ==
  /\ At(c, "finishing")
  /\ outcome' = [outcome EXCEPT ![c] = how]
  /\ UNCHANGED <<iteration, retries>>

-----------------------------------------------------------------------------
\* The mailbox.

\* The tool answers "Message queued".
SendMessage(c) ==
  /\ ~Settled(c) /\ accepted[c] < MaxMessages[c]
  /\ accepted' = [accepted EXCEPT ![c] = @ + 1]
  /\ mailbox' = [mailbox EXCEPT ![c] = Append(@, accepted[c] + 1)]
  /\ UNCHANGED <<loopVars, aborted, transcript, brokerVars>>

\* appendChildParentMessages(takeMessages())
TakeMessagesCopied(c) ==   \* mutant
  /\ transcript' = [transcript EXCEPT ![c] = @ \o mailbox[c]]
  /\ UNCHANGED <<mailbox, accepted>>
TakeMessages(c) ==
  /\ transcript' = [transcript EXCEPT ![c] = @ \o mailbox[c]]
  /\ mailbox' = [mailbox EXCEPT ![c] = <<>>]
  /\ UNCHANGED accepted

-----------------------------------------------------------------------------
\* The broker.

HeadOf(q) == IF q = <<>> THEN NoChild ELSE Head(q)

\* request(): a signal already aborted is rejected at once, never queued.
RequestPermissionUnchecked(c) ==   \* mutant
  /\ At(c, "asking")
  /\ queue' = Append(queue, c)
  /\ shown' = IF queue = <<>> THEN c ELSE shown
RequestPermission(c) ==
  IF aborted[c] THEN At(c, "rejected") /\ UNCHANGED brokerVars
  ELSE /\ At(c, "asking")
       /\ queue' = Append(queue, c)
       /\ shown' = IF queue = <<>> THEN c ELSE shown

\* resolve(): the user decides on the request the panel shows.
Decide(allow) ==
  /\ shown # NoChild /\ queue # <<>> /\ Head(queue) = shown
  /\ At(shown, IF allow THEN "executing" ELSE "rejected")
  /\ queue' = Tail(queue) /\ shown' = HeadOf(Tail(queue))
  /\ UNCHANGED <<outcome, iteration, retries, calls, aborted, mailVars>>

\* The abort listener of a queued request.
WithdrawUnnoticed(c) ==   \* mutant
  /\ queue' = Without(queue, c)
  /\ UNCHANGED shown
  /\ At(c, "rejected")
Withdraw(c) ==
  /\ queue' = Without(queue, c)
  /\ shown' = IF Head(queue) = c THEN HeadOf(Tail(queue)) ELSE shown
  /\ At(c, "rejected")

-----------------------------------------------------------------------------
\* interrupt_agent, or the parent turn's signal for a foreground run.
Interrupt(c) ==
  /\ ~Settled(c) /\ ~aborted[c]
  /\ aborted' = [aborted EXCEPT ![c] = TRUE]
  /\ IF pc[c] = "asking" THEN Withdraw(c) ELSE UNCHANGED <<pc, brokerVars>>
  /\ UNCHANGED <<outcome, iteration, retries, calls, mailVars>>

\* The head of the loop: stop, give up at maxTurns, or send the next request.
LeaveLoop(c) ==
  /\ pc[c] = "head"
  /\ \/ iteration[c] < MaxTurns /\ aborted[c] /\ End(c, "cancelled")
     \/ iteration[c] = MaxTurns /\ End(c, IF aborted[c] THEN "cancelled" ELSE "failed")
  /\ UNCHANGED <<calls, aborted, mailVars, brokerVars>>

BeginRound(c) ==
  /\ pc[c] = "head" /\ iteration[c] < MaxTurns /\ ~aborted[c]
  /\ TakeMessages(c)
  /\ At(c, "provider")
  /\ UNCHANGED <<outcome, iteration, retries, calls, aborted, brokerVars>>

\* recordChildResponse
Respond(c, n) ==
  /\ pc[c] = "provider"
  /\ transcript' = [transcript EXCEPT ![c] = Append(@, Response)]
  /\ calls' = [calls EXCEPT ![c] = n]
  /\ At(c, IF n = 0 THEN "responded" ELSE "calls")
  /\ UNCHANGED <<outcome, iteration, retries, aborted, accepted, mailbox, brokerVars>>

\* The round throws: cancelled; or a transient failure that execute() answers
\* with a fresh child session; or failed.
ProviderFails(c, transient) ==
  /\ pc[c] = "provider"
  /\ IF aborted[c] \/ ~transient \/ retries[c] = RetryLimit
     THEN /\ End(c, IF aborted[c] THEN "cancelled" ELSE "failed")
          /\ UNCHANGED transcript
     ELSE /\ At(c, "head")
          /\ retries' = [retries EXCEPT ![c] = @ + 1]
          /\ iteration' = [iteration EXCEPT ![c] = 0]
          /\ transcript' = [transcript EXCEPT ![c] = <<>>]
          /\ UNCHANGED outcome
  /\ UNCHANGED <<calls, aborted, accepted, mailbox, brokerVars>>

\* A reply without calls ends the run, unless messages came while it streamed.
FinishWithMessages(c) ==   \* mutant
  /\ pc[c] = "responded"
  /\ IF mailbox[c] # <<>>
     THEN TakeMessages(c) /\ End(c, "completed")
     ELSE End(c, "completed") /\ UNCHANGED mailVars
  /\ UNCHANGED <<calls, aborted, brokerVars>>
FinishOrContinue(c) ==
  /\ pc[c] = "responded"
  /\ IF mailbox[c] # <<>>
     THEN /\ TakeMessages(c)
          /\ At(c, "head")
          /\ iteration' = [iteration EXCEPT ![c] = @ + 1]
          /\ UNCHANGED <<outcome, retries>>
     ELSE End(c, "completed") /\ UNCHANGED mailVars
  /\ UNCHANGED <<calls, aborted, brokerVars>>

\* executeChildTool: policy allows the call, or the broker is asked.
BeginCall(c, ask) ==
  /\ pc[c] = "calls"
  /\ IF ask THEN RequestPermission(c) ELSE At(c, "executing") /\ UNCHANGED brokerVars
  /\ UNCHANGED <<outcome, iteration, retries, calls, aborted, mailVars>>

\* The call ran, or was denied; recordChildToolResult; the batch goes on.
FinishCallEarly(c) ==   \* mutant
  /\ pc[c] \in {"executing", "rejected"}
  /\ calls' = [calls EXCEPT ![c] = @ - 1]
  /\ IF calls[c] > 2 THEN At(c, "calls") /\ UNCHANGED iteration
     ELSE At(c, "head") /\ iteration' = [iteration EXCEPT ![c] = @ + 1]
  /\ UNCHANGED <<outcome, retries, aborted, mailVars, brokerVars>>
FinishCall(c) ==
  /\ pc[c] \in {"executing", "rejected"}
  /\ calls' = [calls EXCEPT ![c] = @ - 1]
  /\ IF calls[c] > 1 THEN At(c, "calls") /\ UNCHANGED iteration
     ELSE At(c, "head") /\ iteration' = [iteration EXCEPT ![c] = @ + 1]
  /\ UNCHANGED <<outcome, retries, aborted, mailVars, brokerVars>>

\* finish(): the terminal metadata is saved, the entry no longer controllable.
Finish(c) ==
  /\ pc[c] = "finishing"
  /\ At(c, "done")
  /\ UNCHANGED <<outcome, iteration, retries, calls, aborted, mailVars, brokerVars>>

Step(c) ==
  \/ LeaveLoop(c) \/ BeginRound(c)
  \/ \E n \in 0..MaxCalls : Respond(c, n)
  \/ \E transient \in BOOLEAN : ProviderFails(c, transient)
  \/ FinishOrContinue(c)
  \/ \E ask \in BOOLEAN : BeginCall(c, ask)
  \/ FinishCall(c) \/ Finish(c)

Next ==
  \/ \E c \in Child : Step(c) \/ SendMessage(c) \/ Interrupt(c)
  \/ \E allow \in BOOLEAN : Decide(allow)

\* A run's own steps go on: providers and tools answer or time out.  Nothing
\* makes the user answer the panel.
Spec == Init /\ [][Next]_vars /\ \A c \in Child : WF_vars(Step(c))

-----------------------------------------------------------------------------
Place == {"head", "provider", "responded", "calls", "asking", "rejected", "executing",
          "finishing", "done"}

\* Types; an outcome exactly from the end of the loop on; calls left exactly
\* while the batch runs.
TypeOK ==
  /\ pc \in [Child -> Place]
  /\ outcome \in [Child -> {"none", "completed", "failed", "cancelled"}]
  /\ iteration \in [Child -> 0..MaxTurns] /\ retries \in [Child -> 0..RetryLimit]
  /\ calls \in [Child -> 0..MaxCalls]
  /\ aborted \in [Child -> BOOLEAN] /\ accepted \in [Child -> Nat]
  /\ mailbox \in [Child -> Seq(Nat)] /\ transcript \in [Child -> Seq(Nat)]
  /\ queue \in Seq(Child) /\ shown \in Child \cup {NoChild}
  /\ \A c \in Child :
       /\ (outcome[c] # "none") <=> pc[c] \in {"finishing", "done"}
       /\ (calls[c] > 0) <=> pc[c] \in {"calls", "asking", "rejected", "executing"}

\* The panel shows the oldest open request, and the broker's queue holds each
\* asking child exactly once: an interrupt of the head brings the next request
\* up, an interrupt further back leaves the panel alone, and no resolved or
\* withdrawn request stays behind to swallow a decision.
PanelServesQueue ==
  /\ shown = HeadOf(queue)
  /\ Distinct(queue)
  /\ \A c \in Child : Occurs(c, queue) <=> pc[c] = "asking"

\* What a run reads of its parent, in order: its session, then the mailbox.
Stream(c) == transcript[c] \o mailbox[c]

\* The messages among the records of a stream count up to last without a gap.
CountsUpTo(stream, last) ==
  \A i \in DOMAIN stream : stream[i] # Response =>
    \/ stream[i] = last /\ \A k \in (i + 1)..Len(stream) : stream[k] = Response
    \/ \E j \in (i + 1)..Len(stream) :
         stream[j] = stream[i] + 1 /\ \A k \in (i + 1)..(j - 1) : stream[k] = Response

\* Messages reach the child in the order send_message accepted them, none twice
\* and none skipped: those in the attempt's session followed by those in the
\* mailbox are the latest ones accepted.
MessagesKeepOrder == \A c \in Child : CountsUpTo(Stream(c), accepted[c])

EndsWithResponse(records) == records # <<>> /\ records[Len(records)] = Response

\* A completed run never reports a result that leaves a message of its session
\* unanswered: its last record is the model's reply.
CompletedRunAnswers ==
  \A c \in Child : outcome[c] = "completed" => EndsWithResponse(transcript[c])

\* An interrupted run ends, whether or not the user ever answers a permission
\* request: its own, or one of another child that is ahead in the queue.
InterruptedRunEnds == \A c \in Child : aborted[c] ~> Settled(c)

\* The inductive invariant: a run that is about to complete has its reply last,
\* and a round is only in flight while the turn budget lasts.
RepliesLast == \A c \in Child : pc[c] = "responded" => EndsWithResponse(transcript[c])
RoundsInBudget ==
  \A c \in Child : pc[c] \notin {"head", "finishing", "done"} => iteration[c] < MaxTurns
IInv == TypeOK /\ PanelServesQueue /\ CompletedRunAnswers /\ RepliesLast /\ RoundsInBudget

-----------------------------------------------------------------------------
\* The comment in child-runner.ts: an acknowledged send_message call is not
\* silently dropped, the message gets a real next turn before the run completes.
AcceptedMessagesAnswered ==
  \A c \in Child : Settled(c) /\ outcome[c] = "completed" =>
    \A m \in 1..accepted[c] : \E i, j \in DOMAIN transcript[c] :
      i < j /\ transcript[c][i] = m /\ transcript[c][j] = Response
=============================================================================
