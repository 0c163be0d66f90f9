--------------------------- MODULE ChildRun_proof ---------------------------
(***************************************************************************)
(* Safety of the child loop and its permission broker, for every set of    *)
(* children and every limit on turns, retries, calls and messages.         *)
(***************************************************************************)
EXTENDS ChildRun, DataLemmas

\* The part of IInv about the loop of each run.
Answers == CompletedRunAnswers /\ RepliesLast /\ RoundsInBudget

\* A step that leaves the broker alone and moves no child in or out of
\* "asking" keeps the panel's invariant.
LEMMA PanelFrame ==
  ASSUME PanelServesQueue, UNCHANGED brokerVars,
         \A c \in Child : pc'[c] = "asking" <=> pc[c] = "asking"
  PROVE  PanelServesQueue'
BY DEF PanelServesQueue, brokerVars, HeadOf

\* Before any run starts the invariant holds.
LEMMA InitIInv == Init => IInv
<1>. SUFFICES ASSUME Init PROVE IInv
  OBVIOUS
<1>. USE ChildAssumption DEF Init
<1>1. TypeOK
  BY DEF TypeOK, Place
<1>2. PanelServesQueue
  BY DEF PanelServesQueue, Distinct, Occurs, HeadOf
<1>3. Answers
  BY DEF Answers, CompletedRunAnswers, RepliesLast, RoundsInBudget
<1>4. QED
  BY <1>1, <1>2, <1>3 DEF IInv, Answers

\* A message from the parent only touches the mailbox.
LEMMA SendMessageIInv ==
  ASSUME IInv, NEW c \in Child, SendMessage(c) PROVE IInv'
<1>. USE ChildAssumption DEF SendMessage, IInv, loopVars, brokerVars
<1>1. TypeOK'
  <2>1. /\ accepted[c] \in Nat /\ mailbox[c] \in Seq(Nat)
        /\ accepted \in [Child -> Nat] /\ mailbox \in [Child -> Seq(Nat)]
    BY DEF TypeOK
  <2>2. Append(mailbox[c], accepted[c] + 1) \in Seq(Nat)
    BY <2>1
  <2>3. accepted' \in [Child -> Nat] /\ mailbox' \in [Child -> Seq(Nat)]
    BY <2>1, <2>2
  <2>4. QED
    BY <2>3 DEF TypeOK
<1>2. PanelServesQueue'
  BY PanelFrame
<1>3. Answers'
  BY DEF Answers, CompletedRunAnswers, RepliesLast, RoundsInBudget, EndsWithResponse
<1>4. QED
  BY <1>1, <1>2, <1>3 DEF Answers

\* The user answers the request at the head and the panel moves to the next.
LEMMA DecideIInv ==
  ASSUME IInv, NEW allow \in BOOLEAN, Decide(allow) PROVE IInv'
<1>. USE ChildAssumption DEF Decide, At, mailVars
<1>1. /\ TypeOK /\ PanelServesQueue /\ Answers
      /\ queue \in Seq(Child) /\ queue # <<>> /\ Head(queue) = shown /\ Distinct(queue)
  BY DEF IInv, Answers, TypeOK, PanelServesQueue
<1>2. /\ shown \in Child /\ pc[shown] = "asking"
      /\ Tail(queue) \in Seq(Child) /\ Distinct(Tail(queue))
      /\ \A x : Occurs(x, Tail(queue)) <=> Occurs(x, queue) /\ x # shown
  BY <1>1, TailQueue DEF PanelServesQueue
<1>3. \A c \in Child : pc'[c] = IF c = shown THEN (IF allow THEN "executing" ELSE "rejected")
                                ELSE pc[c]
  BY <1>1, <1>2 DEF TypeOK
<1>4. HeadOf(Tail(queue)) \in Child \cup {NoChild}
  <2>1. Tail(queue) # <<>> => Head(Tail(queue)) \in Child
    BY <1>2
  <2>2. QED
    BY <2>1 DEF HeadOf
<1>5. TypeOK'
  BY <1>1, <1>2, <1>3, <1>4 DEF TypeOK, Place
<1>6. PanelServesQueue'
  BY <1>1, <1>2, <1>3 DEF PanelServesQueue, HeadOf
<1>7. Answers'
  BY <1>1, <1>2, <1>3 DEF Answers, CompletedRunAnswers, RepliesLast, RoundsInBudget
<1>8. QED
  BY <1>5, <1>6, <1>7 DEF IInv, Answers

\* An abort withdraws the open request of its run, wherever it stands in the
\* queue.
LEMMA InterruptIInv ==
  ASSUME IInv, NEW c \in Child, Interrupt(c) PROVE IInv'
<1>. USE ChildAssumption DEF Interrupt, At, mailVars
<1>1. TypeOK /\ PanelServesQueue /\ Answers
  BY DEF IInv, Answers
<1>2. CASE pc[c] # "asking"
  <2>1. TypeOK'
    BY <1>1, <1>2 DEF TypeOK, Place, brokerVars
  <2>2. PanelServesQueue'
    BY <1>1, <1>2, PanelFrame DEF brokerVars
  <2>3. Answers'
    BY <1>1, <1>2 DEF Answers, CompletedRunAnswers, RepliesLast, RoundsInBudget
  <2>4. QED
    BY <2>1, <2>2, <2>3 DEF IInv, Answers
<1>3. CASE pc[c] = "asking"
  <2>. USE DEF Withdraw
  <2>1. queue \in Seq(Child) /\ Distinct(queue) /\ Occurs(c, queue)
    BY <1>1, <1>3 DEF TypeOK, PanelServesQueue
  <2>2. /\ Without(queue, c) \in Seq(Child) /\ Distinct(Without(queue, c))
        /\ \A x : Occurs(x, Without(queue, c)) <=> Occurs(x, queue) /\ x # c
    BY <2>1, SpliceQueue
  <2>3. \A d \in Child : pc'[d] = IF d = c THEN "rejected" ELSE pc[d]
    BY <1>1, <1>3 DEF TypeOK
  <2>4. queue # <<>> /\ queue' = Without(queue, c)
    BY <1>3, <2>1 DEF Occurs
  <2>5. shown' = HeadOf(queue')
    <3>1. CASE Head(queue) = c
      <4>1. Without(queue, c) = Tail(queue)
        BY <2>1, <2>4, <3>1, SpliceHead
      <4>2. QED
        BY <1>3, <2>4, <3>1, <4>1
    <3>2. CASE Head(queue) # c
      <4>1. Without(queue, c) # <<>> /\ Head(Without(queue, c)) = Head(queue)
        BY <2>1, <2>4, <3>2, SpliceBehindHead
      <4>2. QED
        BY <1>1, <1>3, <2>4, <3>2, <4>1 DEF HeadOf, PanelServesQueue
    <3>3. QED
      BY <3>1, <3>2
  <2>6. PanelServesQueue'
    BY <1>1, <2>2, <2>3, <2>4, <2>5 DEF PanelServesQueue, HeadOf
  <2>7. TypeOK'
    <3>1. HeadOf(queue') \in Child \cup {NoChild}
      BY <2>2, <2>4 DEF HeadOf
    <3>2. QED
      BY <1>1, <1>3, <2>2, <2>3, <2>4, <2>5, <3>1 DEF TypeOK, Place
  <2>8. Answers'
    BY <1>1, <1>3, <2>3 DEF Answers, CompletedRunAnswers, RepliesLast, RoundsInBudget
  <2>9. QED
    BY <2>6, <2>7, <2>8 DEF IInv, Answers
<1>4. QED
  BY <1>2, <1>3

\* What the loop's own steps share: one run moves, and IInv's parts are looked
\* at for that run alone.
LEMMA Facts ==
  ASSUME IInv, NEW c \in Child
  PROVE  /\ TypeOK /\ PanelServesQueue /\ Answers
         /\ pc[c] \in Place /\ iteration[c] \in 0..MaxTurns /\ retries[c] \in 0..RetryLimit
         /\ calls[c] \in 0..MaxCalls
         /\ mailbox[c] \in Seq(Nat) /\ transcript[c] \in Seq(Nat)
         /\ (calls[c] > 0) <=> pc[c] \in {"calls", "asking", "rejected", "executing"}
         /\ (outcome[c] # "none") <=> pc[c] \in {"finishing", "done"}
BY DEF IInv, Answers, TypeOK

\* Leaving the loop fixes the outcome and drops the rest of the batch.
LEMMA LeaveLoopIInv ==
  ASSUME IInv, NEW c \in Child, LeaveLoop(c) PROVE IInv'
<1>. USE ChildAssumption, Facts DEF LeaveLoop, At, End, mailVars
<1>1. TypeOK'
  BY DEF TypeOK, Place, brokerVars
<1>2. PanelServesQueue'
  BY PanelFrame DEF TypeOK, brokerVars
<1>3. Answers'
  BY DEF Answers, CompletedRunAnswers, RepliesLast, RoundsInBudget, TypeOK
<1>4. QED
  BY <1>1, <1>2, <1>3 DEF IInv, Answers

\* A new round reads the mailbox into the session and calls the provider.
LEMMA BeginRoundIInv ==
  ASSUME IInv, NEW c \in Child, BeginRound(c) PROVE IInv'
<1>. USE ChildAssumption, Facts DEF BeginRound, TakeMessages, At
<1>1. TypeOK'
  <2>1. transcript[c] \o mailbox[c] \in Seq(Nat) /\ <<>> \in Seq(Nat)
    OBVIOUS
  <2>2. transcript' \in [Child -> Seq(Nat)] /\ mailbox' \in [Child -> Seq(Nat)]
    BY <2>1 DEF TypeOK
  <2>3. QED
    BY <2>2 DEF TypeOK, Place, brokerVars
<1>2. PanelServesQueue'
  BY PanelFrame DEF TypeOK
<1>3. Answers'
  BY DEF Answers, CompletedRunAnswers, RepliesLast, RoundsInBudget, TypeOK
<1>4. QED
  BY <1>1, <1>2, <1>3 DEF IInv, Answers

\* The reply is the last record of the session it is appended to.
LEMMA ReplyLast ==
  ASSUME NEW records \in Seq(Nat)
  PROVE  Append(records, Response) \in Seq(Nat) /\ EndsWithResponse(Append(records, Response))
BY DEF EndsWithResponse, Response

\* A reply is recorded and its calls, if any, become the batch.
LEMMA RespondIInv ==
  ASSUME IInv, NEW c \in Child, NEW n \in 0..MaxCalls, Respond(c, n) PROVE IInv'
<1>. USE ChildAssumption, Facts, ReplyLast DEF Respond, At
<1>1. transcript' \in [Child -> Seq(Nat)]
  BY DEF TypeOK
<1>2. \A d \in Child : pc'[d] = IF d = c THEN (IF n = 0 THEN "responded" ELSE "calls") ELSE pc[d]
  BY DEF TypeOK
<1>3. TypeOK'
  <2>1. TypeOK /\ pc[c] = "provider" /\ outcome[c] = "none"
    OBVIOUS
  <2>2. /\ pc' \in [Child -> Place] /\ calls' \in [Child -> 0..MaxCalls]
        /\ \A d \in Child : calls'[d] = IF d = c THEN n ELSE calls[d]
    BY <2>1 DEF TypeOK, Place
  <2>3. \A d \in Child : /\ (outcome[d] # "none") <=> pc'[d] \in {"finishing", "done"}
                         /\ (calls'[d] > 0) <=> pc'[d] \in {"calls", "asking", "rejected", "executing"}
    BY <1>2, <2>1, <2>2 DEF TypeOK
  <2>. HIDE Facts DEF Response
  <2>4. QED
    BY <1>1, <2>1, <2>2, <2>3 DEF TypeOK, brokerVars
<1>4. PanelServesQueue'
  BY <1>2, PanelFrame
<1>5. transcript'[c] = Append(transcript[c], Response)
      /\ \A d \in Child : d # c => transcript'[d] = transcript[d]
  BY DEF TypeOK
<1>6. Answers'
  <2>1. CompletedRunAnswers'
    BY <1>5 DEF Answers, CompletedRunAnswers
  <2>2. RepliesLast'
    BY <1>2, <1>5 DEF Answers, RepliesLast
  <2>3. RoundsInBudget'
    BY <1>2 DEF Answers, RoundsInBudget
  <2>4. QED
    BY <2>1, <2>2, <2>3 DEF Answers
<1>7. QED
  BY <1>3, <1>4, <1>6 DEF IInv, Answers

\* A provider failure ends the loop, and only a retryable one starts another
\* attempt.
LEMMA ProviderFailsIInv ==
  ASSUME IInv, NEW c \in Child, NEW transient \in BOOLEAN, ProviderFails(c, transient)
  PROVE  IInv'
<1>. USE ChildAssumption, Facts DEF ProviderFails, At, End
<1>1. TypeOK'
  <2>1. TypeOK /\ pc[c] = "provider" /\ outcome[c] = "none" /\ calls[c] = 0
    <3>1. pc[c] = "provider"
      OBVIOUS
    <3>2. TypeOK /\ calls[c] \in 0..MaxCalls /\ ~(calls[c] > 0) /\ outcome[c] = "none"
      BY <3>1, Zenon
    <3>. HIDE Facts DEF ProviderFails
    <3>3. QED
      BY <3>1, <3>2
  <2>2. CASE aborted[c] \/ ~transient \/ retries[c] = RetryLimit
    BY ZenonT(30), <2>1, <2>2 DEF TypeOK, Place, brokerVars
  <2>3. CASE ~(aborted[c] \/ ~transient \/ retries[c] = RetryLimit)
    <3>1. retries[c] + 1 \in 0..RetryLimit /\ 0 \in 0..MaxTurns /\ <<>> \in Seq(Nat)
      BY <2>1, <2>3
    <3>2. /\ pc' = [pc EXCEPT ![c] = "head"] /\ retries' = [retries EXCEPT ![c] = retries[c] + 1]
          /\ iteration' = [iteration EXCEPT ![c] = 0]
          /\ transcript' = [transcript EXCEPT ![c] = <<>>]
          /\ UNCHANGED <<outcome, calls, aborted, accepted, mailbox, queue, shown>>
      BY <2>3 DEF brokerVars
    <3>. HIDE Facts DEF ProviderFails
    <3>3. QED
      BY <2>1, <3>1, <3>2 DEF TypeOK, Place
  <2>4. QED
    BY <2>2, <2>3
<1>2. PanelServesQueue'
  BY PanelFrame DEF TypeOK
<1>3. Answers'
  <2>1. CompletedRunAnswers'
    BY DEF Answers, CompletedRunAnswers, TypeOK
  <2>2. RepliesLast' /\ RoundsInBudget'
    BY ZenonT(30) DEF Answers, RepliesLast, RoundsInBudget, TypeOK
  <2>3. QED
    BY <2>1, <2>2 DEF Answers
<1>4. QED
  BY <1>1, <1>2, <1>3 DEF IInv, Answers

\* A reply without calls ends the run unless a message has come meanwhile.
LEMMA FinishOrContinueIInv ==
  ASSUME IInv, NEW c \in Child, FinishOrContinue(c) PROVE IInv'
<1>. USE ChildAssumption, Facts DEF FinishOrContinue, At, End
<1>1. CASE mailbox[c] # <<>>
  <2>. USE DEF TakeMessages
  <2>1. transcript[c] \o mailbox[c] \in Seq(Nat) /\ <<>> \in Seq(Nat)
    OBVIOUS
  <2>2. transcript' \in [Child -> Seq(Nat)] /\ mailbox' \in [Child -> Seq(Nat)]
    BY ZenonT(30), <1>1, <2>1 DEF TypeOK
  <2>3. iteration[c] + 1 \in 0..MaxTurns
    BY DEF Answers, RoundsInBudget
  <2>4. TypeOK'
    <3>1. TypeOK /\ pc[c] = "responded" /\ outcome[c] = "none" /\ calls[c] = 0
      OBVIOUS
    <3>2. /\ pc' = [pc EXCEPT ![c] = "head"] /\ iteration' = [iteration EXCEPT ![c] = iteration[c] + 1]
          /\ UNCHANGED <<outcome, retries, calls, aborted, accepted, queue, shown>>
      BY <1>1 DEF brokerVars
    <3>. HIDE Facts DEF FinishOrContinue, TakeMessages
    <3>3. QED
      BY <2>2, <2>3, <3>1, <3>2 DEF TypeOK, Place
  <2>5. PanelServesQueue'
    BY <1>1, PanelFrame DEF TypeOK
  <2>6. Answers'
    BY ZenonT(30), <1>1 DEF Answers, CompletedRunAnswers, RepliesLast, RoundsInBudget, TypeOK
  <2>7. QED
    BY <2>4, <2>5, <2>6 DEF IInv, Answers
<1>2. CASE mailbox[c] = <<>>
  <2>. USE DEF mailVars
  <2>1. TypeOK'
    <3>1. TypeOK /\ pc[c] = "responded"
      OBVIOUS
    <3>2. /\ pc' = [pc EXCEPT ![c] = "finishing"] /\ outcome' = [outcome EXCEPT ![c] = "completed"]
          /\ UNCHANGED <<iteration, retries, calls, aborted, accepted, mailbox, transcript, queue, shown>>
      BY <1>2 DEF brokerVars
    <3>. HIDE Facts DEF FinishOrContinue, mailVars
    <3>3. QED
      BY <3>1, <3>2 DEF TypeOK, Place
  <2>2. PanelServesQueue'
    BY <1>2, PanelFrame DEF TypeOK
  <2>3. Answers'
    BY <1>2 DEF Answers, CompletedRunAnswers, RepliesLast, RoundsInBudget, TypeOK
  <2>4. QED
    BY <2>1, <2>2, <2>3 DEF IInv, Answers
<1>3. QED
  BY <1>1, <1>2

\* A call that needs permission joins the queue, any other runs at once.
LEMMA BeginCallIInv ==
  ASSUME IInv, NEW c \in Child, NEW ask \in BOOLEAN, BeginCall(c, ask) PROVE IInv'
<1>1. /\ TypeOK /\ PanelServesQueue /\ Answers /\ pc[c] = "calls"
      /\ UNCHANGED <<outcome, iteration, retries, calls, aborted, accepted, mailbox, transcript>>
  BY Facts DEF BeginCall, mailVars
<1>2. PICK place \in {"rejected", "executing", "asking"} : pc' = [pc EXCEPT ![c] = place]
  BY DEF BeginCall, RequestPermission, At
<1>3. \A d \in Child : pc'[d] = IF d = c THEN place ELSE pc[d]
  BY <1>1, <1>2 DEF TypeOK
<1>4. Answers'
  BY <1>1, <1>3 DEF Answers, CompletedRunAnswers, RepliesLast, RoundsInBudget
<1>5. pc' \in [Child -> Place]
  BY <1>1, <1>2 DEF TypeOK, Place
<1>6. CASE ~ask \/ aborted[c]
  <2>1. place # "asking" /\ UNCHANGED brokerVars
    BY <1>1, <1>2, <1>6 DEF BeginCall, RequestPermission, At, TypeOK
  <2>2. PanelServesQueue'
    BY <1>1, <1>3, <2>1, PanelFrame
  <2>3. TypeOK'
    BY <1>1, <1>3, <1>5, <2>1 DEF TypeOK, brokerVars
  <2>4. QED
    BY <1>4, <2>2, <2>3 DEF IInv, Answers
<1>7. CASE ask /\ ~aborted[c]
  <2>1. /\ pc' = [pc EXCEPT ![c] = "asking"] /\ queue' = Append(queue, c)
        /\ shown' = IF queue = <<>> THEN c ELSE shown
    BY <1>7 DEF BeginCall, RequestPermission, At
  <2>2. \A d \in Child : pc'[d] = IF d = c THEN "asking" ELSE pc[d]
    BY <1>1, <2>1 DEF TypeOK
  <2>3. queue \in Seq(Child) /\ Distinct(queue) /\ ~Occurs(c, queue)
    BY <1>1 DEF TypeOK, PanelServesQueue
  <2>4. /\ queue' \in Seq(Child) /\ queue' # <<>> /\ Distinct(queue')
        /\ \A x : Occurs(x, queue') <=> Occurs(x, queue) \/ x = c
    BY <2>1, <2>3, AppendQueue
  <2>5. shown' = HeadOf(queue')
    BY <1>1, <2>1, <2>3, <2>4 DEF PanelServesQueue, HeadOf
  <2>6. PanelServesQueue'
    BY <1>1, <2>2, <2>4, <2>5 DEF PanelServesQueue, HeadOf
  <2>7. shown' \in Child \cup {NoChild}
    BY <1>1, <2>1 DEF TypeOK
  <2>8. TypeOK'
    BY <1>1, <1>5, <2>2, <2>4, <2>7 DEF TypeOK
  <2>9. QED
    BY <1>4, <2>6, <2>8 DEF IInv, Answers
<1>8. QED
  BY <1>6, <1>7

\* A finished call is recorded, and the last one of a batch leads to a new
\* round.
LEMMA FinishCallIInv ==
  ASSUME IInv, NEW c \in Child, FinishCall(c) PROVE IInv'
<1>1. /\ TypeOK /\ PanelServesQueue /\ Answers /\ pc[c] \in {"executing", "rejected"}
      /\ UNCHANGED <<outcome, retries, aborted, accepted, mailbox, transcript, queue, shown>>
      /\ calls' = [calls EXCEPT ![c] = calls[c] - 1]
  BY Facts DEF FinishCall, mailVars, brokerVars
<1>2. /\ outcome[c] = "none" /\ calls[c] \in 1..MaxCalls /\ iteration[c] \in 0..MaxTurns
      /\ iteration[c] < MaxTurns
  <2>1. /\ outcome[c] = "none" /\ calls[c] \in 0..MaxCalls /\ calls[c] > 0 /\ iteration[c] \in 0..MaxTurns
    BY <1>1, Facts
  <2>2. iteration[c] < MaxTurns
    BY <1>1 DEF Answers, RoundsInBudget
  <2>3. QED
    BY <2>1, <2>2, ChildAssumption
<1>3. CASE calls[c] > 1
  <2>1. pc' = [pc EXCEPT ![c] = "calls"] /\ iteration' = iteration
    BY <1>3 DEF FinishCall, At
  <2>2. TypeOK'
    <3>1. calls[c] - 1 \in 0..MaxCalls /\ calls[c] - 1 > 0
      BY <1>2, <1>3, ChildAssumption
    <3>2. calls' \in [Child -> 0..MaxCalls] /\ pc' \in [Child -> Place]
      BY <1>1, <2>1, <3>1 DEF TypeOK, Place
    <3>3. \A d \in Child : /\ calls'[d] = IF d = c THEN calls[c] - 1 ELSE calls[d]
                           /\ pc'[d] = IF d = c THEN "calls" ELSE pc[d]
      BY <1>1, <2>1 DEF TypeOK
    <3>4. QED
      BY <1>1, <1>2, <2>1, <3>1, <3>2, <3>3 DEF TypeOK
  <2>3. PanelServesQueue'
    BY <1>1, <2>1, PanelFrame DEF TypeOK, brokerVars
  <2>4. Answers'
    BY <1>1, <1>2, <2>1 DEF Answers, CompletedRunAnswers, RepliesLast, RoundsInBudget, TypeOK
  <2>5. QED
    BY <2>2, <2>3, <2>4 DEF IInv, Answers
<1>4. CASE ~(calls[c] > 1)
  <2>1. pc' = [pc EXCEPT ![c] = "head"] /\ iteration' = [iteration EXCEPT ![c] = iteration[c] + 1]
    BY <1>4 DEF FinishCall, At
  <2>2. calls[c] - 1 = 0 /\ iteration[c] + 1 \in 0..MaxTurns /\ 0 \in 0..MaxCalls
    BY <1>2, <1>4, ChildAssumption
  <2>3. TypeOK'
    BY <1>1, <1>2, <2>1, <2>2 DEF TypeOK, Place
  <2>4. PanelServesQueue'
    BY <1>1, <2>1, PanelFrame DEF TypeOK, brokerVars
  <2>5. Answers'
    BY <1>1, <1>2, <2>1 DEF Answers, CompletedRunAnswers, RepliesLast, RoundsInBudget, TypeOK
  <2>6. QED
    BY <2>3, <2>4, <2>5 DEF IInv, Answers
<1>5. QED
  BY <1>3, <1>4

\* The terminal save closes the run with the outcome its loop had.
LEMMA FinishIInv ==
  ASSUME IInv, NEW c \in Child, Finish(c) PROVE IInv'
<1>. USE Facts DEF Finish, At, mailVars
<1>1. TypeOK'
  BY DEF TypeOK, Place, brokerVars
<1>2. PanelServesQueue'
  BY PanelFrame DEF TypeOK
<1>3. Answers'
  BY DEF Answers, CompletedRunAnswers, RepliesLast, RoundsInBudget, TypeOK
<1>4. QED
  BY <1>1, <1>2, <1>3 DEF IInv, Answers

\* A step that changes nothing preserves the invariant.
LEMMA StutterIInv == IInv /\ UNCHANGED vars => IInv'
BY DEF IInv, TypeOK, PanelServesQueue, CompletedRunAnswers, RepliesLast, RoundsInBudget,
       HeadOf, vars, loopVars, mailVars, brokerVars

\* Every step, stuttering included, preserves the invariant.
LEMMA NextIInv == IInv /\ [Next]_vars => IInv'
<1>. SUFFICES ASSUME IInv, [Next]_vars PROVE IInv'
  OBVIOUS
<1>1. ASSUME NEW c \in Child, Step(c) PROVE IInv'
  <2>1. CASE LeaveLoop(c)                                   BY <2>1, LeaveLoopIInv
  <2>2. CASE BeginRound(c)                                  BY <2>2, BeginRoundIInv
  <2>3. CASE \E n \in 0..MaxCalls : Respond(c, n)           BY <2>3, RespondIInv
  <2>4. CASE \E transient \in BOOLEAN : ProviderFails(c, transient)
    BY <2>4, ProviderFailsIInv
  <2>5. CASE FinishOrContinue(c)                            BY <2>5, FinishOrContinueIInv
  <2>6. CASE \E ask \in BOOLEAN : BeginCall(c, ask)         BY <2>6, BeginCallIInv
  <2>7. CASE FinishCall(c)                                  BY <2>7, FinishCallIInv
  <2>8. CASE Finish(c)                                      BY <2>8, FinishIInv
  <2>9. QED
    BY <1>1, <2>1, <2>2, <2>3, <2>4, <2>5, <2>6, <2>7, <2>8 DEF Step
<1>2. ASSUME NEW c \in Child, SendMessage(c) PROVE IInv'
  BY <1>2, SendMessageIInv
<1>3. ASSUME NEW c \in Child, Interrupt(c) PROVE IInv'
  BY <1>3, InterruptIInv
<1>4. ASSUME NEW allow \in BOOLEAN, Decide(allow) PROVE IInv'
  BY <1>4, DecideIInv
<1>5. CASE UNCHANGED vars
  BY <1>5, StutterIInv
<1>6. QED
  BY <1>1, <1>2, <1>3, <1>4, <1>5 DEF Next

\* The invariant of the child loop and the broker holds in every reachable state.
THEOREM ChildInvariant == Spec => []IInv
<1>1. Init => IInv
  BY InitIInv
<1>2. IInv /\ [Next]_vars => IInv'
  BY NextIInv
<1>3. QED
  BY <1>1, <1>2, PTL DEF Spec

\* Every variable keeps its type: an outcome is set exactly from the end of the
\* loop on, calls are counted exactly while the batch runs, and the turn and
\* retry counters stay within maxTurns and retryLimit.
THEOREM ChildTypes == Spec => []TypeOK
<1>1. IInv => TypeOK
  BY DEF IInv
<1>2. QED
  BY <1>1, ChildInvariant, PTL

\* The panel shows the oldest open permission request, and the broker's queue
\* holds exactly the children that wait, through every decision and interrupt.
THEOREM PanelSafety == Spec => []PanelServesQueue
<1>1. IInv => PanelServesQueue
  BY DEF IInv
<1>2. QED
  BY <1>1, ChildInvariant, PTL

\* A run that completes ends with the model's reply: no message that entered
\* its session is left unanswered.
THEOREM CompletionSafety == Spec => []CompletedRunAnswers
<1>1. IInv => CompletedRunAnswers
  BY DEF IInv
<1>2. QED
  BY <1>1, ChildInvariant, PTL

-----------------------------------------------------------------------------
(* The order of the messages.                                                *)

\* A message accepted next continues the count.
LEMMA CountGoesOn ==
  ASSUME NEW s \in Seq(Nat), NEW n \in Nat, CountsUpTo(s, n)
  PROVE  CountsUpTo(Append(s, n + 1), n + 1)
<1>. DEFINE t == Append(s, n + 1)
<1>1. /\ Len(t) = Len(s) + 1 /\ t[Len(t)] = n + 1 /\ DOMAIN t = 1..Len(t)
      /\ \A i \in 1..Len(s) : t[i] = s[i]
      /\ DOMAIN s = 1..Len(s) /\ Len(s) \in Nat
  OBVIOUS
<1>. HIDE DEF t
<1>. SUFFICES ASSUME NEW i \in 1..Len(t), t[i] # Response
     PROVE  \/ t[i] = n + 1 /\ \A k \in (i + 1)..Len(t) : t[k] = Response
            \/ \E j \in (i + 1)..Len(t) : t[j] = t[i] + 1 /\ \A k \in (i + 1)..(j - 1) : t[k] = Response
  BY <1>1 DEF CountsUpTo, t
<1>2. CASE i = Len(t)
  BY <1>1, <1>2
<1>3. CASE i # Len(t)
  <2>1. i \in 1..Len(s) /\ t[i] = s[i] /\ s[i] # Response
    BY <1>1, <1>3
  <2>2. CASE s[i] = n /\ \A k \in (i + 1)..Len(s) : s[k] = Response
    <3>1. /\ Len(t) \in (i + 1)..Len(t) /\ t[Len(t)] = t[i] + 1
          /\ \A k \in (i + 1)..(Len(t) - 1) : t[k] = Response
      BY <1>1, <2>1, <2>2
    <3>2. QED
      BY <3>1
  <2>3. CASE \E j \in (i + 1)..Len(s) : s[j] = s[i] + 1 /\ \A k \in (i + 1)..(j - 1) : s[k] = Response
    <3>1. PICK j \in (i + 1)..Len(s) : s[j] = s[i] + 1 /\ \A k \in (i + 1)..(j - 1) : s[k] = Response
      BY <2>3
    <3>2. j \in (i + 1)..Len(t) /\ t[j] = t[i] + 1
      BY <1>1, <2>1, <3>1
    <3>3. ASSUME NEW k \in (i + 1)..(j - 1) PROVE t[k] = Response
      <4>1. k \in 1..Len(s) /\ s[k] = Response
        BY <1>1, <2>1, <3>1
      <4>2. QED
        BY <1>1, <4>1
    <3>4. QED
      BY <3>2, <3>3
  <2>4. QED
    BY <1>1, <2>1, <2>2, <2>3 DEF CountsUpTo
<1>4. QED
  BY <1>2, <1>3

\* A reply between the session and the mailbox does not disturb the count.
LEMMA CountSkipsReply ==
  ASSUME NEW s \in Seq(Nat), NEW m \in Seq(Nat), NEW n \in Nat, CountsUpTo(s \o m, n)
  PROVE  CountsUpTo(Append(s, Response) \o m, n)
<1>. DEFINE a == s \o m
            b == Append(s, Response) \o m
            at(i) == IF i <= Len(s) THEN i ELSE i + 1
<1>1. /\ Len(b) = Len(a) + 1 /\ DOMAIN a = 1..Len(a) /\ DOMAIN b = 1..Len(b)
      /\ Len(a) \in Nat /\ Len(s) \in 0..Len(a) /\ b[Len(s) + 1] = Response
      /\ \A i \in 1..Len(a) : b[at(i)] = a[i]
  BY DEF Response
<1>. HIDE DEF a, b
<1>. SUFFICES ASSUME NEW i \in 1..Len(b), b[i] # Response
     PROVE  \/ b[i] = n /\ \A k \in (i + 1)..Len(b) : b[k] = Response
            \/ \E j \in (i + 1)..Len(b) : b[j] = b[i] + 1 /\ \A k \in (i + 1)..(j - 1) : b[k] = Response
  BY <1>1 DEF CountsUpTo, b
<1>2. \A k \in 1..Len(b) : k = Len(s) + 1 \/ \E h \in 1..Len(a) : k = at(h)
  <2>1. ASSUME NEW k \in 1..Len(b), k # Len(s) + 1 PROVE \E h \in 1..Len(a) : k = at(h)
    <3>1. CASE k <= Len(s)
      BY <1>1, <3>1
    <3>2. CASE k > Len(s) + 1
      <4>1. k - 1 \in 1..Len(a) /\ at(k - 1) = k
        BY <1>1, <3>2
      <4>2. QED
        BY <4>1
    <3>3. QED
      BY <1>1, <2>1, <3>1, <3>2
  <2>2. QED
    BY <2>1
<1>3. PICK h \in 1..Len(a) : i = at(h)
  BY <1>1, <1>2
<1>4. a[h] # Response /\ b[i] = a[h]
  BY <1>1, <1>3
<1>5. CASE a[h] = n /\ \A k \in (h + 1)..Len(a) : a[k] = Response
  <2>1. ASSUME NEW k \in (i + 1)..Len(b) PROVE b[k] = Response
    <3>1. k = Len(s) + 1 \/ \E g \in 1..Len(a) : k = at(g)
      BY <1>1, <1>2, <1>3
    <3>2. ASSUME NEW g \in 1..Len(a), k = at(g) PROVE g \in (h + 1)..Len(a)
      BY <1>1, <1>3, <3>2
    <3>3. QED
      BY <1>1, <1>5, <3>1, <3>2
  <2>2. QED
    BY <1>4, <1>5, <2>1
<1>6. CASE \E j \in (h + 1)..Len(a) : a[j] = a[h] + 1 /\ \A k \in (h + 1)..(j - 1) : a[k] = Response
  <2>1. PICK j \in (h + 1)..Len(a) : a[j] = a[h] + 1 /\ \A k \in (h + 1)..(j - 1) : a[k] = Response
    BY <1>6
  <2>2. at(j) \in (i + 1)..Len(b) /\ b[at(j)] = b[i] + 1
    BY <1>1, <1>3, <1>4, <2>1
  <2>3. ASSUME NEW k \in (i + 1)..(at(j) - 1) PROVE b[k] = Response
    <3>0. k \in 1..Len(b)
      BY <1>1, <1>3, <2>1
    <3>1. k = Len(s) + 1 \/ \E g \in 1..Len(a) : k = at(g)
      BY <1>2, <3>0
    <3>2. ASSUME NEW g \in 1..Len(a), k = at(g) PROVE g \in (h + 1)..(j - 1)
      BY <1>1, <1>3, <2>1, <3>2
    <3>3. QED
      BY <1>1, <2>1, <3>1, <3>2
  <2>4. QED
    BY <2>2, <2>3
<1>7. QED
  BY <1>1, <1>4, <1>5, <1>6 DEF CountsUpTo, a

\* Nor does a fresh session, which loses what the failed attempt had read.
LEMMA CountOfMailbox ==
  ASSUME NEW s \in Seq(Nat), NEW m \in Seq(Nat), NEW n \in Nat, CountsUpTo(s \o m, n)
  PROVE  CountsUpTo(<<>> \o m, n)
<1>. DEFINE a == s \o m
            z == Len(s)
<1>1. /\ Len(a) = z + Len(m) /\ DOMAIN a = 1..Len(a) /\ DOMAIN m = 1..Len(m) /\ z \in Nat
      /\ Len(m) \in Nat /\ \A i \in 1..Len(m) : a[z + i] = m[i]
      /\ <<>> \o m = m
  OBVIOUS
<1>. HIDE DEF a, z
<1>. SUFFICES ASSUME NEW i \in 1..Len(m), m[i] # Response
     PROVE  \/ m[i] = n /\ \A k \in (i + 1)..Len(m) : m[k] = Response
            \/ \E j \in (i + 1)..Len(m) : m[j] = m[i] + 1 /\ \A k \in (i + 1)..(j - 1) : m[k] = Response
  BY <1>1 DEF CountsUpTo
<1>2. z + i \in DOMAIN a /\ a[z + i] = m[i]
  BY <1>1
<1>3. CASE a[z + i] = n /\ \A k \in (z + i + 1)..Len(a) : a[k] = Response
  <2>1. ASSUME NEW k \in (i + 1)..Len(m) PROVE m[k] = Response
    <3>1. z + k \in (z + i + 1)..Len(a) /\ k \in 1..Len(m)
      BY <1>1
    <3>2. QED
      BY <1>1, <1>3, <3>1
  <2>2. QED
    BY <1>2, <1>3, <2>1
<1>4. CASE \E j \in (z + i + 1)..Len(a) :
             a[j] = a[z + i] + 1 /\ \A k \in (z + i + 1)..(j - 1) : a[k] = Response
  <2>1. PICK j \in (z + i + 1)..Len(a) :
               a[j] = a[z + i] + 1 /\ \A k \in (z + i + 1)..(j - 1) : a[k] = Response
    BY <1>4
  <2>2. /\ j - z \in (i + 1)..Len(m) /\ z + (j - z) = j
        /\ \A k \in (i + 1)..(j - z - 1) : z + k \in (z + i + 1)..(j - 1) /\ k \in 1..Len(m)
    BY <1>1, <2>1
  <2>3. m[j - z] = m[i] + 1 /\ \A k \in (i + 1)..(j - z - 1) : m[k] = Response
    BY SMTT(30), <1>1, <1>2, <2>1, <2>2
  <2>4. QED
    BY <2>2, <2>3
<1>5. QED
  BY <1>1, <1>2, <1>3, <1>4 DEF CountsUpTo, a

\* All that a step does to the stream of a run: nothing, a new message at its
\* end, a reply behind the session, or a fresh session.
LEMMA StreamStep ==
  ASSUME IInv, [Next]_vars, NEW c \in Child
  PROVE  \/ accepted'[c] = accepted[c] /\ Stream(c)' = Stream(c)
         \/ /\ accepted'[c] = accepted[c] + 1
            /\ Stream(c)' = Append(Stream(c), accepted[c] + 1)
         \/ /\ accepted'[c] = accepted[c]
            /\ Stream(c)' = Append(transcript[c], Response) \o mailbox[c]
         \/ accepted'[c] = accepted[c] /\ Stream(c)' = <<>> \o mailbox[c]
<1>1. /\ transcript \in [Child -> Seq(Nat)] /\ mailbox \in [Child -> Seq(Nat)]
      /\ accepted \in [Child -> Nat] /\ transcript[c] \in Seq(Nat) /\ mailbox[c] \in Seq(Nat)
  BY DEF IInv, TypeOK
<1>2. ASSUME NEW d \in Child, TakeMessages(d) PROVE accepted'[c] = accepted[c] /\ Stream(c)' = Stream(c)
  <2>1. CASE d = c
    <3>1. transcript'[c] = transcript[c] \o mailbox[c] /\ mailbox'[c] = <<>>
      BY <1>1, <1>2, <2>1 DEF TakeMessages
    <3>2. (transcript[c] \o mailbox[c]) \o <<>> = transcript[c] \o mailbox[c]
      BY <1>1
    <3>3. QED
      BY <1>2, <3>1, <3>2 DEF Stream, TakeMessages
  <2>2. CASE d # c
    BY <1>1, <1>2, <2>2 DEF Stream, TakeMessages
  <2>3. QED
    BY <2>1, <2>2
<1>3. ASSUME UNCHANGED mailVars PROVE accepted'[c] = accepted[c] /\ Stream(c)' = Stream(c)
  BY <1>3 DEF mailVars, Stream
<1>4. ASSUME NEW d \in Child, SendMessage(d)
      PROVE  \/ accepted'[c] = accepted[c] /\ Stream(c)' = Stream(c)
             \/ /\ accepted'[c] = accepted[c] + 1
                /\ Stream(c)' = Append(Stream(c), accepted[c] + 1)
  <2>1. transcript[c] \o Append(mailbox[c], accepted[c] + 1)
          = Append(transcript[c] \o mailbox[c], accepted[c] + 1)
    BY <1>1
  <2>2. QED
    BY <1>1, <1>4, <2>1 DEF SendMessage, Stream
<1>5. ASSUME NEW d \in Child, NEW n \in 0..MaxCalls, Respond(d, n)
      PROVE  \/ accepted'[c] = accepted[c] /\ Stream(c)' = Stream(c)
             \/ /\ accepted'[c] = accepted[c]
                /\ Stream(c)' = Append(transcript[c], Response) \o mailbox[c]
  BY <1>1, <1>5 DEF Respond, Stream
<1>6. ASSUME NEW d \in Child, NEW transient \in BOOLEAN, ProviderFails(d, transient)
      PROVE  \/ accepted'[c] = accepted[c] /\ Stream(c)' = Stream(c)
             \/ accepted'[c] = accepted[c] /\ Stream(c)' = <<>> \o mailbox[c]
  BY <1>1, <1>6 DEF ProviderFails, Stream
<1>7. ASSUME NEW d \in Child, LeaveLoop(d) \/ FinishCall(d) \/ Finish(d) \/ Interrupt(d)
      PROVE  UNCHANGED mailVars
  BY <1>7 DEF LeaveLoop, FinishCall, Finish, Interrupt
<1>8. ASSUME NEW d \in Child, NEW ask \in BOOLEAN, BeginCall(d, ask) PROVE UNCHANGED mailVars
  BY <1>8 DEF BeginCall
<1>9. ASSUME NEW allow \in BOOLEAN, Decide(allow) PROVE UNCHANGED mailVars
  BY <1>9 DEF Decide
<1>10. ASSUME NEW d \in Child, BeginRound(d) \/ FinishOrContinue(d)
       PROVE  TakeMessages(d) \/ UNCHANGED mailVars
  BY <1>10 DEF BeginRound, FinishOrContinue
<1>11. ASSUME UNCHANGED vars PROVE UNCHANGED mailVars
  BY <1>11 DEF vars
<1>12. QED
  BY <1>2, <1>3, <1>4, <1>5, <1>6, <1>7, <1>8, <1>9, <1>10, <1>11 DEF Next, Step

\* Whatever retries, interrupts and messages while a reply streams do, a run
\* reads its messages in the order they were accepted, without a gap.
THEOREM MessageOrder == Spec => []MessagesKeepOrder
<1>1. Init => MessagesKeepOrder
  <2>1. \A n : CountsUpTo(<<>> \o <<>>, n)
    BY DEF CountsUpTo
  <2>2. QED
    BY <2>1 DEF Init, MessagesKeepOrder, Stream
<1>2. IInv /\ MessagesKeepOrder /\ [Next]_vars => MessagesKeepOrder'
  <2>. SUFFICES ASSUME IInv, MessagesKeepOrder, [Next]_vars, NEW c \in Child
                PROVE  CountsUpTo(Stream(c)', accepted'[c])
    BY DEF MessagesKeepOrder, CountsUpTo, Response
  <2>1. /\ transcript[c] \in Seq(Nat) /\ mailbox[c] \in Seq(Nat) /\ accepted[c] \in Nat
        /\ Stream(c) \in Seq(Nat) /\ Stream(c) = transcript[c] \o mailbox[c]
        /\ CountsUpTo(Stream(c), accepted[c])
    BY DEF IInv, TypeOK, MessagesKeepOrder, Stream
  <2>2. CountsUpTo(Append(Stream(c), accepted[c] + 1), accepted[c] + 1)
    BY <2>1, CountGoesOn
  <2>3. /\ CountsUpTo(Append(transcript[c], Response) \o mailbox[c], accepted[c])
        /\ CountsUpTo(<<>> \o mailbox[c], accepted[c])
    BY <2>1, CountSkipsReply, CountOfMailbox
  <2>4. QED
    BY <2>1, <2>2, <2>3, StreamStep
<1>3. QED
  BY <1>1, <1>2, ChildInvariant, PTL DEF Spec
=============================================================================
