----------------------------- MODULE QualityGuard -----------------------------
(***************************************************************************)
(* The Output Quality Guard in rewrite mode: what it keeps of its work in  *)
(* the session file (core/agent-loop/quality-*.ts), how a later host reads *)
(* it (core/session/quality-recovery.ts) and what the user is asked        *)
(* (tui/quality-decision-continuation.ts).                                 *)
(*                                                                         *)
(* A text is "clean", has blocking findings (Blocked), or cannot be read.  *)
(* The Guard judges files the turn wrote, or, without any, the reply; a    *)
(* reply's target is named by its text.  The semantic judge is off, the    *)
(* Harness identity does not change, and one host appends.                 *)
(***************************************************************************)
EXTENDS Naturals, FiniteSets, SequencesExt, FiniteSetsExt, TLC

CONSTANTS
  Artifact, Blocked,
  MaxTurns, MaxReplies, MaxDecisions, MaxBreaks, MaxForeign   \* bounds of the model

VARIABLES
  disk,      \* the text of each artifact
  log,       \* the records of the active branch that concern the Guard
  q,         \* QualityRoundState
  turn,      \* the turn or decision under way
  todo,      \* its appends to come, each one or more records at once
  panel,     \* the pending quality decision on screen
  theirs,    \* history: artifacts last written by somebody else
  excused,   \* history: artifacts whose check one of the findings dropped
  forgotten, \* history: a permission request dropped a warning id, or a retry gave up
  used

vars == <<disk, log, q, turn, todo, panel, theirs, excused, forgotten, used>>
history == <<theirs, excused, forgotten>>

MaxRewrites == 2
Text == Blocked \cup {"clean"}
Content == Text \cup {"unreadable"}

NoState == [attempts |-> 0, rejected |-> {}, hashes |-> <<>>, warning |-> 0]
Targets(state) == DOMAIN state.hashes
Open(state) == state.attempts > 0 \/ Targets(state) # {}
Upsert(state, ts) == [state EXCEPT !.hashes = @ @@ [t \in ts |-> {}]]
Keep(f, ts) == [t \in DOMAIN f \cap ts |-> f[t]]

NoPanel == [kind |-> "none", id |-> 0]
Idle == [stage |-> "idle", origin |-> "prompt", writes |-> <<>>, landed |-> {}, ask |-> FALSE,
         flawed |-> FALSE, next |-> "none", how |-> "none"]

Init ==
  /\ disk = [a \in Artifact |-> "clean"] /\ log = <<>>
  /\ q = NoState /\ turn = Idle /\ todo = <<>> /\ panel = NoPanel
  /\ theirs = {} /\ excused = {} /\ forgotten = FALSE
  /\ used = [prompts |-> 0, rounds |-> 0, decisions |-> 0, troubles |-> 0, edits |-> 0]

Spend(bound) == used' = [used EXCEPT ![bound] = @ + 1]
At(stages) == turn.stage \in stages

-----------------------------------------------------------------------------
\* Records: of a warning its id, targets and, when it asks the user, the state to
\* go on with; of a resolution whose warning it is about.

Rec(kind) == [kind |-> kind, id |-> 0, targets |-> <<>>, state |-> NoState, how |-> "none"]
Pending(state) == [Rec("pending") EXCEPT !.state = state]
Feedback(how, state) == [Rec("feedback") EXCEPT !.state = state, !.how = how]
Warning(id, how, targets, state) ==
  [Rec("warning") EXCEPT !.id = id, !.how = how, !.targets = targets, !.state = state]
Resolution(id, how, targets) == [Rec("resolution") EXCEPT !.id = id, !.how = how, !.targets = targets]
Cleared(id) == [Rec("cleared") EXCEPT !.id = id]

Ids(records) == {records[i].id : i \in {j \in DOMAIN records : records[j].kind = "warning"}}
FreshId(records) == Cardinality(Ids(records)) + 1
Indices(records, kind, id) == {i \in DOMAIN records : records[i].kind = kind /\ records[i].id = id}
ResolvedBy(records, id, how, after) ==
  UNION {DOMAIN records[i].targets :
          i \in {j \in Indices(records, "resolution", id) : j > after /\ records[j].how = how}}

\* findPendingQualityRewrite: {} or the state of the rewrite or check that is open.
ScanRewrite(pending, r) ==
  CASE r.kind = "written" -> {Upsert(s, DOMAIN r.targets) : s \in pending}
    [] r.kind = "failed" -> {s \in pending : Open(s)}
    [] r.kind \in {"pending", "feedback"} -> {r.state}
    [] r.kind \in {"cleared", "warning"} \/ (r.kind = "event" /\ r.how = "pass") -> {}
    [] OTHER -> pending
PendingRewrite(records) == {s \in FoldLeft(ScanRewrite, {}, records) : Open(s)}

\* findQualityWarnings: the targets a warning still stands for, each with its text.
Standing(records, id) ==
  LET last == Max(Indices(records, "warning", id))
      replaced == UNION {DOMAIN records[i].targets :
                    i \in {j \in (last + 1)..Len(records) : records[j].kind = "warning"}}
  IN  Keep(records[last].targets,
           DOMAIN records[last].targets \ (replaced \cup ResolvedBy(records, id, "clean", last)))

\* findPendingQualityDecision: the newest warning that asks and has no answer.
\* Clearings and resolutions count wherever they stand.
Points(records, id) == {i \in Indices(records, "warning", id) : records[i].how = "decide"}
Point(records, id) == records[Max(Points(records, id))]
Unanswered(records, id) ==
  /\ Points(records, id) # {} /\ Indices(records, "cleared", id) = {}
  /\ ~\E i \in Indices(records, "resolution", id) : records[i].how = "user"
  /\ ~(DOMAIN Point(records, id).targets \subseteq ResolvedBy(records, id, "clean", 0))
PendingDecision(records) == Max({0} \cup {id \in Ids(records) : Unanswered(records, id)})

\* restorePendingInteraction, the part of the Guard.
Restored(records) ==
  IF PendingDecision(records) # 0 THEN [kind |-> "decision", id |-> PendingDecision(records)]
  ELSE IF PendingRewrite(records) # {} THEN [kind |-> "interrupted", id |-> 0]
  ELSE NoPanel

-----------------------------------------------------------------------------
\* Judging texts, a function of targets to texts.

Bad(texts) == {t \in DOMAIN texts : texts[t] \in Blocked}
Unread(texts) == {t \in DOMAIN texts : texts[t] = "unreadable"}
Clean(texts) == {t \in DOMAIN texts : texts[t] = "clean"}
Seen(state, texts, t) == texts[t] \in (IF t \in Targets(state) THEN state.hashes[t] ELSE state.rejected)

\* qualityDecision and qualityTargetDecision
Decision(state, texts) ==
  IF Bad(texts) = {} THEN "pass"
  ELSE IF state.attempts >= MaxRewrites \/ \E t \in Bad(texts) : Seen(state, texts, t) THEN "exhausted"
  ELSE "rewrite"

\* The state after it, with retainBlockingArtifactTargets.
Judged(state, texts) ==
  LET rewrite == Decision(state, texts) = "rewrite"
      kept == IF Targets(state) = {} THEN {} ELSE Bad(texts) \cup Unread(texts)
  IN  [state EXCEPT
        !.attempts = IF rewrite THEN @ + 1 ELSE @,
        !.rejected = IF rewrite THEN @ \cup {texts[t] : t \in Bad(texts) \ Artifact} ELSE @,
        !.hashes = [t \in kept |-> @[t] \cup (IF rewrite /\ t \in Bad(texts) THEN {texts[t]} ELSE {})]]

Event(decision, texts) ==
  [Rec("event") EXCEPT !.how = decision, !.targets = Keep(texts, Bad(texts) \cup Unread(texts))]

\* Targets another warning already calls unreadable.
Known(records, id) ==
  UNION {DOMAIN Standing(records, w) :
          w \in {v \in Ids(records) \ {id} : records[Max(Indices(records, "warning", v))].how = "inform"}}

\* recordInconclusiveWarnings
Inconclusive(records, state, texts) ==
  LET unknown == Unread(texts) \ Known(records, state.warning)
      id == state.warning
      freed == Keep(Standing(records, id), DOMAIN Standing(records, id) \ Unread(texts))
  IN  CASE unknown # {} /\ id = 0 ->
             <<<<Warning(FreshId(records), "inform", Keep(texts, unknown), NoState)>>>>
        [] unknown # {} /\ id # 0 ->
             <<<<Warning(id, "inform", Keep(texts, unknown), NoState)>>, <<Cleared(id)>>>>
        [] unknown = {} /\ id # 0 ->
             <<(IF freed = <<>> THEN <<>> ELSE <<Resolution(id, "clean", freed)>>) \o <<Cleared(id)>>>>
        [] OTHER -> <<>>

\* resolveQualityWarnings, and its like in recordRefreshedBlockingDecision
ResolvedAmong(records, gone) ==
  LET order == SetToSortSeq(DOMAIN gone, <)
      batch(w) == LET targets == Keep(Standing(records, w), gone[w])
                  IN  IF DOMAIN targets = {} THEN <<>> ELSE <<Resolution(w, "clean", targets)>>
  IN  SelectSeq([n \in DOMAIN order |-> batch(order[n])], LAMBDA b : b # <<>>)
ResolutionsOfAnyReply(records, state, texts) ==   \* mutant: of every target of the warning
  ResolvedAmong(records, [w \in Ids(records) |->
    IF Clean(texts) = {} THEN {} ELSE DOMAIN Standing(records, w)])
Resolutions(records, state, texts) ==
  ResolvedAmong(records, [w \in Ids(records) |->
    Clean(texts) \cup (IF w = state.warning /\ Decision(state, texts) = "pass"
                         THEN DOMAIN Standing(records, w) \ Artifact ELSE {})])

\* recordQualityEvaluation, then recordRejectedQualityRound or
\* recordPostMutationQualityRewrite, or pauseForQualityDecision.
RoundRecords(state, texts) ==
  LET decision == Decision(state, texts)
      judged == Judged(state, texts)
      unread == IF decision = "exhausted" \/ Unread(texts) = {} THEN <<>>
                ELSE Inconclusive(log, state, texts)
      resolved == IF decision = "pass" /\ Unread(texts) # {} THEN <<>>
                  ELSE Resolutions(log \o FlattenSeq(unread), state, texts)
      event == <<<<Event(decision, texts)>>>>
      id == IF state.warning = 0 THEN FreshId(log) ELSE state.warning
  IN  unread \o resolved \o
      (CASE decision = "pass" -> event
         [] decision = "rewrite" -> <<<<Feedback("auto", judged)>>>> \o event
         [] decision = "exhausted" ->
              event \o <<<<Warning(id, "decide", Keep(texts, Bad(texts)), [judged EXCEPT !.warning = id])>>>>)

\* refreshQualityDecisionArtifacts: the files may have changed while the user was asked.
Refresh(records) ==
  LET id == PendingDecision(records)
      point == Point(records, id)
      texts == Keep(disk, Targets(point.state))
      changed == \E w \in Ids(records) : \E t \in DOMAIN Standing(records, w) \cap DOMAIN texts :
                   Standing(records, w)[t] # texts[t]
      state == [point.state EXCEPT !.attempts = Max({@, MaxRewrites})]
      others == ResolvedAmong(records, [w \in Ids(records) \ {id} |-> Clean(texts)])
      unknown == Unread(texts) \ Known(records, id)
      freed == Keep(point.targets, DOMAIN point.targets \ Unread(texts))
      settled == <<Cleared(id)>>
  IN  CASE id = 0 -> <<>>
        [] id # 0 /\ ~changed -> <<>>
        [] id # 0 /\ changed /\ Bad(texts) # {} ->
             <<<<Event("exhausted", texts)>>>> \o others \o
             <<<<Warning(id, "decide", Keep(texts, Bad(texts)), state)>>>>
        [] id # 0 /\ changed /\ Bad(texts) = {} ->
             <<<<Event("pass", texts)>>,
               (IF freed = <<>> THEN <<>> ELSE <<Resolution(id, "clean", freed)>>) \o settled>> \o
             (IF unknown = {} THEN <<>> ELSE <<<<Warning(id, "inform", Keep(texts, unknown), NoState)>>>>)

-----------------------------------------------------------------------------
\* A turn.

Append1(record) == log' = Append(log, record)

\* A prompt starts without quality state, whatever an earlier turn left open.
SubmitPrompt ==
  /\ At({"idle"}) /\ panel = NoPanel /\ used.prompts < MaxTurns
  /\ Spend("prompts")
  /\ Append1(Rec("prompt"))
  /\ q' = NoState
  /\ turn' = [Idle EXCEPT !.stage = "provider"]
  /\ excused' = excused \cup UNION {Targets(s) : s \in PendingRewrite(log)}
  /\ UNCHANGED <<disk, todo, panel, theirs, forgotten>>

\* A response with writes: recordPendingQualityCheck, and with asked a permission
\* that the user grants at once, after which the state has lost its warning.
\* ask: the response also asks the user something, so it is judged when done.
RespondUnmarked(writes, asked, ask) ==   \* mutant: no pending check
  /\ At({"provider"}) /\ used.rounds < MaxReplies /\ ~(asked /\ ask)
  /\ Spend("rounds")
  /\ q' = IF asked THEN [q EXCEPT !.warning = 0] ELSE q
  /\ forgotten' = (forgotten \/ (asked /\ q.warning # 0))
  /\ turn' = [turn EXCEPT !.stage = "writing", !.writes = writes, !.ask = ask, !.flawed = FALSE]
  /\ UNCHANGED <<disk, log, todo, panel, theirs, excused>>
Respond(writes, asked, ask) ==
  /\ At({"provider"}) /\ used.rounds < MaxReplies /\ ~(asked /\ ask)
  /\ Spend("rounds")
  /\ Append1(Pending(q))
  /\ q' = IF asked THEN [q EXCEPT !.warning = 0] ELSE q
  /\ forgotten' = (forgotten \/ (asked /\ q.warning # 0))
  /\ turn' = [turn EXCEPT !.stage = "writing", !.writes = writes, !.ask = ask, !.flawed = FALSE]
  /\ excused' = excused \ Targets(q)
  /\ UNCHANGED <<disk, todo, panel, theirs>>

\* A write lands, and is no mutation if it changes nothing, or it fails and is
\* recorded; a failure with nothing open yet ends the pending check (flawed).
Left(t) == Keep(turn.writes, DOMAIN turn.writes \ {t})
Write(t) ==
  /\ At({"writing"}) /\ turn.landed = {} /\ t \in DOMAIN turn.writes /\ turn.writes[t] # "failed"
  /\ disk' = [disk EXCEPT ![t] = turn.writes[t]]
  /\ LET changed == {c \in {t} : disk[c] # turn.writes[c]}
     IN  theirs' = theirs \ changed /\ turn' = [turn EXCEPT !.landed = changed, !.writes = Left(t)]
  /\ UNCHANGED <<log, q, todo, panel, excused, forgotten, used>>
WriteFails(t) ==
  /\ At({"writing"}) /\ turn.landed = {} /\ t \in DOMAIN turn.writes /\ turn.writes[t] = "failed"
  /\ Append1(Rec("failed"))
  /\ turn' = [turn EXCEPT !.writes = Left(t), !.flawed = @ \/ ~Open(q)]
  /\ UNCHANGED <<disk, q, todo, panel, history, used>>

\* recordToolResult and captureQualityArtifactResult
RecordWrite ==
  /\ At({"writing"}) /\ turn.landed # {}
  /\ Append1([Rec("written") EXCEPT !.targets = Keep(disk, turn.landed)])
  /\ q' = Upsert(q, turn.landed)
  /\ excused' = IF turn.flawed THEN excused \cup turn.landed ELSE excused \ turn.landed
  /\ turn' = [turn EXCEPT !.landed = {}]
  /\ UNCHANGED <<disk, todo, panel, theirs, forgotten, used>>

\* evaluateQualityRoundBoundary; a pass leaves no candidate behind.
Judge(texts) ==
  LET decision == Decision(q, texts)
  IN  /\ todo' = RoundRecords(q, texts)
      /\ q' = IF decision = "pass" THEN [q EXCEPT !.hashes = <<>>] ELSE Judged(q, texts)
      /\ turn' = [turn EXCEPT !.stage = "recording",
                              !.next = CASE decision = "pass" -> "end"
                                         [] decision = "rewrite" -> "provider"
                                         [] decision = "exhausted" -> "panel"]

Judging(prose) == IF Targets(q) = {} THEN prose :> prose ELSE Keep(disk, Targets(q))
RoundEnds ==
  /\ At({"writing"}) /\ turn.landed = {} /\ turn.writes = <<>>
  /\ IF turn.ask THEN Judge(Judging("clean"))
     ELSE turn' = [turn EXCEPT !.stage = "provider"] /\ UNCHANGED <<q, todo>>
  /\ UNCHANGED <<disk, log, panel, history, used>>
Reply(prose) ==
  /\ At({"provider"}) /\ used.rounds < MaxReplies
  /\ Spend("rounds")
  /\ Judge(Judging(prose))
  /\ UNCHANGED <<disk, log, panel, history>>

\* The appends, one by one, and what the turn does behind them.
Record ==
  /\ todo # <<>>
  /\ log' = log \o Head(todo) /\ todo' = Tail(todo)
  /\ excused' = excused \ UNION {Targets(r.state) : r \in Range(Head(todo))}
  /\ UNCHANGED <<disk, q, turn, panel, theirs, forgotten, used>>
Recorded ==
  /\ At({"recording"}) /\ todo = <<>>
  /\ CASE turn.next = "provider" -> turn' = [turn EXCEPT !.stage = "provider"] /\ UNCHANGED <<todo, panel>>
       [] turn.next = "end" -> turn' = Idle /\ UNCHANGED <<todo, panel>>
       [] turn.next = "panel" ->
            /\ turn' = Idle /\ UNCHANGED todo
            /\ panel' = [kind |-> "decision", id |-> log[Len(log)].id]
       [] turn.next = "resume" ->
            turn' = [Idle EXCEPT !.stage = "resuming"] /\ todo' = Refresh(log) /\ UNCHANGED panel
  /\ UNCHANGED <<disk, log, q, history, used>>

-----------------------------------------------------------------------------
\* The user's decision: resolveQualityDecision.

Decide(how) ==
  /\ At({"idle"}) /\ panel # NoPanel /\ used.decisions < MaxDecisions
  /\ Spend("decisions")
  /\ panel' = NoPanel
  /\ turn' = [Idle EXCEPT !.stage = "deciding", !.origin = "retry", !.how = how]
  /\ todo' = Refresh(log)
  /\ UNCHANGED <<disk, log, q, history>>

\* interruptedWarning: what the last event complained of, or all that is open.
InterruptedTargets(s) ==
  LET events == {i \in DOMAIN log : log[i].kind = "event"}
      blamed == IF events = {} THEN <<>> ELSE log[Max(events)].targets
  IN  IF blamed = <<>> THEN Keep(disk, Targets(s)) ELSE blamed

\* retryQualityDecision, resumePendingQualityRewrite, settleQualityDecision and
\* settleInterruptedQualityRewrite.
Settle ==
  /\ At({"deciding"}) /\ todo = <<>>
  /\ LET id == PendingDecision(log)
         point == Point(log, id)
         open == PendingRewrite(log)
         s == CHOOSE s \in open : TRUE
         missed == UNION {Targets(r) : r \in open} \ DOMAIN point.targets
         answered(w, targets) == <<Resolution(w, "user", targets), Cleared(w)>>
         then(next) == turn' = [turn EXCEPT !.stage = "recording", !.next = next]
     IN  CASE id = 0 /\ open = {} ->
                /\ turn' = Idle /\ panel' = Restored(log)
                /\ UNCHANGED <<q, todo, excused>>
           [] turn.how = "retry" /\ id # 0 ->
                /\ todo' = <<<<Rec("intent")>>, <<Feedback("user", point.state)>>>>
                /\ q' = [point.state EXCEPT !.warning = id]
                /\ excused' = excused \cup missed
                /\ then("provider") /\ UNCHANGED panel
           [] turn.how = "retry" /\ id = 0 /\ open # {} ->
                /\ q' = s
                /\ turn' = [turn EXCEPT !.stage = "provider"] /\ UNCHANGED <<todo, panel, excused>>
           [] turn.how # "retry" /\ id # 0 ->
                /\ todo' = <<<<Rec("candidate")>> \o answered(id, point.targets)>>
                /\ excused' = excused \cup missed
                /\ then("resume") /\ UNCHANGED <<q, panel>>
           [] turn.how # "retry" /\ id = 0 /\ open # {} ->
                /\ todo' = <<<<Warning(FreshId(log), "abandoned", InterruptedTargets(s), NoState)>>
                             \o answered(FreshId(log), InterruptedTargets(s))>>
                /\ excused' = excused \cup (Targets(s) \ DOMAIN InterruptedTargets(s))
                /\ then("resume") /\ UNCHANGED <<q, panel>>
  /\ UNCHANGED <<disk, log, theirs, forgotten, used>>

\* resume: what the next screen shows.
Resumed ==
  /\ At({"resuming"}) /\ todo = <<>>
  /\ turn' = Idle /\ panel' = Restored(log)
  /\ UNCHANGED <<disk, log, q, todo, history, used>>

-----------------------------------------------------------------------------
\* Troubles.  A failed or interrupted retry looks into the log for the panel to
\* show; a failed prompt, and a turn that ends without a reply, do not.
Fails(shown) ==
  /\ At({"provider", "writing"}) /\ used.troubles < MaxBreaks
  /\ Spend("troubles")
  /\ panel' = shown
  /\ turn' = Idle
  /\ excused' = excused \cup turn.landed
  /\ UNCHANGED <<disk, log, q, todo, theirs>>
Fail == Fails(IF turn.origin = "retry" THEN Restored(log) ELSE NoPanel) /\ UNCHANGED forgotten
GiveUp ==
  /\ At({"provider"}) /\ Fails(NoPanel)
  /\ forgotten' = (forgotten \/ turn.origin = "retry")

Restart ==
  /\ used.troubles < MaxBreaks
  /\ Spend("troubles")
  /\ turn' = [Idle EXCEPT !.stage = "resuming"]
  /\ todo' = Refresh(log) /\ panel' = NoPanel /\ q' = NoState
  /\ excused' = excused \cup turn.landed
  /\ UNCHANGED <<disk, log, theirs, forgotten>>

\* Somebody else writes, spoils or removes a file while no turn runs.
Edit(t, content) ==
  /\ At({"idle"}) /\ used.edits < MaxForeign /\ content # disk[t]
  /\ Spend("edits")
  /\ disk' = [disk EXCEPT ![t] = content]
  /\ theirs' = theirs \cup {t}
  /\ UNCHANGED <<log, q, turn, todo, panel, excused, forgotten>>

Next ==
  \/ SubmitPrompt \/ RecordWrite \/ RoundEnds \/ Record \/ Recorded \/ Settle \/ Resumed
  \/ \E ts \in (SUBSET Artifact) \ {{}} : \E writes \in [ts -> Text \cup {"failed"}] :
       \E asked, ask \in BOOLEAN : Respond(writes, asked, ask)
  \/ \E t \in Artifact : Write(t) \/ WriteFails(t)
  \/ \E prose \in Text : Reply(prose)
  \/ \E how \in {"retry", "accept", "stop"} : Decide(how)
  \/ Fail \/ GiveUp \/ Restart
  \/ \E t \in Artifact, content \in Content : Edit(t, content)

Spec == Init /\ [][Next]_vars

-----------------------------------------------------------------------------
\* Types; appends are left only to a turn that records, decides or resumes.
TypeOK ==
  /\ disk \in [Artifact -> Content]
  /\ q.attempts \in 0..MaxRewrites /\ Targets(q) \subseteq Artifact
  /\ turn.stage \in {"idle", "provider", "writing", "recording", "deciding", "resuming"}
  /\ todo # <<>> => At({"recording", "deciding", "resuming"})
  /\ panel # NoPanel => At({"idle"})
  /\ theirs \cup excused \subseteq Artifact

\* No file the Guard watched keeps blocking findings silently: when nothing runs,
\* a standing warning names it or a check or rewrite of it is open, whatever
\* failed or died between two appends, and whatever else was judged clean.
\* excused: files whose open check the findings of the README drop.
BlockingTextReported ==
  At({"idle"}) =>
    \A t \in Artifact \ (theirs \cup excused) : disk[t] \in Blocked =>
      \/ \E id \in Ids(log) : t \in DOMAIN Standing(log, id)
      \/ \E s \in PendingRewrite(log) : t \in Targets(s)

\* The screen and the log agree on what the user is asked: a restart shows a decision
\* on screen again and accepts an answer to it, and no failed or interrupted revision
\* hides a decision that is still to be made.  Excepted is a warning that asks again
\* after a target of it was resolved or it was cleared.
AskedAnew(id) ==
  \E i \in DOMAIN log, j \in Points(log, id) :
    i < j /\ log[i].id = id /\ log[i].kind \in {"resolution", "cleared"}
DecisionStands ==
  At({"idle"}) /\ ~forgotten =>
    /\ PendingDecision(log) # 0 => panel = Restored(log)
    /\ panel.kind = "decision" /\ ~AskedAnew(panel.id) => panel = Restored(log)
=============================================================================
