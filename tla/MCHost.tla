-------------------------------- MODULE MCHost --------------------------------
(***************************************************************************)
(* The parts of the host that share no state of their models, one of which *)
(* moves in each behaviour: the background shell tasks, the session file,  *)
(* the files of regenerated answers, the Workspace page's editor, the      *)
(* Responses WebSocket, the Output Quality Guard and the composer's queue. *)
(* A run thus explores the sum of their states, not the product, and every *)
(* property below is about one part.                                       *)
(***************************************************************************)
EXTENDS Naturals, FiniteSets

CONSTANTS t1, t2, g1, c1, c2, pa, pb, qa, bad

CONSTANTS
  Task, Checkpointing, MaxPrompts, MaxRounds, MaxTroubles, MaxCrashes,
  Generator, MaxRecords, MaxCompactions, MaxTitles, MaxOthers,
  Candidate, NoCandidate, Path, MaxStamp, MaxFaults,
  NoPath, PoolCap, MaxEdits, MaxExternal, MaxKeys, MaxSwitches,
  MaxRetries, MaxRequests, MaxDrops, MaxCloses, MaxRotations,
  Artifact, Blocked, MaxTurns, MaxReplies, MaxDecisions, MaxBreaks, MaxForeign,
  MaxEntries, MaxCommands

\* "No candidate" is none of them.
ASSUME CandidateAssumption == NoCandidate \notin Candidate

VARIABLES
  part,   \* the part that moves
  pTask, pFile, pSettling, pTracked, pDrain, pRerun, pBatch, pPaused, pTurn,
  pRewindPoint, pConversation, pLog, pAnswered, pOrphaned, pUsed,
  sLog, sBusy, sSource, sRewindPoint, sConversation, sTask, sLocked, sForeign,
  sUsed,
  fDisk, fCreated, fAnchored, fPre, fEvent, fBundle, fTail, fSelected, fArmed,
  fOp, fOwner, fSavedFrom, fLapsed, fStamp, fFaults,
  eDisk, eOrder, eMeta, eText, eDirty, eChanged, eActive, eViewed, eDialog,
  eCloseAfterSave, eOps, eChecks, eAgreed, eRaced, eUnseen, eClock, eUsed,
  rSockets, rSession, rOrphan, rStream, rAnswers, rStrays, rSent, rUsed,
  qDisk, qLog, qQ, qTurn, qTodo, qPanel, qTheirs, qExcused, qForgotten, qUsed,
  wEntries, wDraft, wItems, wReady, wCaptured, wTurn, wDecision, wExecuting,
  wLog, wConversation, wRan, wElsewhere, wInterrupted, wAsked

Process == INSTANCE ProcessDelivery WITH
  task <- pTask, file <- pFile, settling <- pSettling, tracked <- pTracked,
  drain <- pDrain, rerun <- pRerun, batch <- pBatch, paused <- pPaused,
  turn <- pTurn, rewindPoint <- pRewindPoint, conversation <- pConversation,
  log <- pLog, answered <- pAnswered, orphaned <- pOrphaned, used <- pUsed
Session == INSTANCE SessionLog WITH
  log <- sLog, busy <- sBusy, source <- sSource, rewindPoint <- sRewindPoint,
  conversation <- sConversation, task <- sTask, locked <- sLocked,
  foreign <- sForeign, used <- sUsed
Files == INSTANCE CandidateFiles WITH
  disk <- fDisk, created <- fCreated, anchored <- fAnchored, pre <- fPre,
  event <- fEvent, bundle <- fBundle, tail <- fTail, selected <- fSelected,
  armed <- fArmed, op <- fOp, owner <- fOwner, savedFrom <- fSavedFrom,
  lapsed <- fLapsed, stamp <- fStamp, faults <- fFaults
Editor == INSTANCE WorkspaceEditor WITH
  disk <- eDisk, order <- eOrder, meta <- eMeta, text <- eText,
  dirty <- eDirty, changed <- eChanged, active <- eActive, viewed <- eViewed,
  dialog <- eDialog, closeAfterSave <- eCloseAfterSave, ops <- eOps,
  checks <- eChecks, agreed <- eAgreed, raced <- eRaced, unseen <- eUnseen, clock <- eClock,
  used <- eUsed
Socket == INSTANCE ResponsesSocket WITH
  sockets <- rSockets, session <- rSession, orphan <- rOrphan,
  stream <- rStream, answers <- rAnswers, strays <- rStrays, sent <- rSent,
  used <- rUsed
Quality == INSTANCE QualityGuard WITH
  disk <- qDisk, log <- qLog, q <- qQ, turn <- qTurn, todo <- qTodo,
  panel <- qPanel, theirs <- qTheirs, excused <- qExcused,
  forgotten <- qForgotten, used <- qUsed
Queue == INSTANCE QueuedWork WITH
  entries <- wEntries, draft <- wDraft, items <- wItems, ready <- wReady,
  captured <- wCaptured, turn <- wTurn, decision <- wDecision,
  executing <- wExecuting, log <- wLog, conversation <- wConversation,
  ran <- wRan, elsewhere <- wElsewhere, interrupted <- wInterrupted,
  asked <- wAsked

processVars ==
  <<pTask, pFile, pSettling, pTracked, pDrain, pRerun, pBatch, pPaused, pTurn,
  pRewindPoint, pConversation, pLog, pAnswered, pOrphaned, pUsed>>
sessionVars ==
  <<sLog, sBusy, sSource, sRewindPoint, sConversation, sTask, sLocked,
  sForeign, sUsed>>
filesVars ==
  <<fDisk, fCreated, fAnchored, fPre, fEvent, fBundle, fTail, fSelected,
  fArmed, fOp, fOwner, fSavedFrom, fLapsed, fStamp, fFaults>>
editorVars ==
  <<eDisk, eOrder, eMeta, eText, eDirty, eChanged, eActive, eViewed, eDialog,
  eCloseAfterSave, eOps, eChecks, eAgreed, eRaced, eUnseen, eClock, eUsed>>
socketVars ==
  <<rSockets, rSession, rOrphan, rStream, rAnswers, rStrays, rSent, rUsed>>
qualityVars ==
  <<qDisk, qLog, qQ, qTurn, qTodo, qPanel, qTheirs, qExcused, qForgotten,
  qUsed>>
queueVars ==
  <<wEntries, wDraft, wItems, wReady, wCaptured, wTurn, wDecision, wExecuting,
  wLog, wConversation, wRan, wElsewhere, wInterrupted, wAsked>>
vars == <<part, processVars, sessionVars, filesVars, editorVars, socketVars, qualityVars, queueVars>>

\* The first turn's choices matter to no other part.
FilesAtRest == fCreated = <<c1>> /\ fAnchored = {} /\ fDisk = [p \in Path |-> 1]

Init ==
  /\ part \in {"process", "session", "files", "editor", "socket", "quality", "queue"}
  /\ Process!Init /\ Session!Init /\ Files!Init /\ Editor!Init /\ Socket!Init
  /\ Quality!Init /\ Queue!Init
  /\ part # "files" => FilesAtRest

Next ==
  \/ /\ part = "process" /\ Process!Next
     /\ UNCHANGED <<part, sessionVars, filesVars, editorVars, socketVars, qualityVars, queueVars>>
  \/ /\ part = "session" /\ Session!Next
     /\ UNCHANGED <<part, processVars, filesVars, editorVars, socketVars, qualityVars, queueVars>>
  \/ /\ part = "files" /\ Files!Next
     /\ UNCHANGED <<part, processVars, sessionVars, editorVars, socketVars, qualityVars, queueVars>>
  \/ /\ part = "editor" /\ Editor!Next
     /\ UNCHANGED <<part, processVars, sessionVars, filesVars, socketVars, qualityVars, queueVars>>
  \/ /\ part = "socket" /\ Socket!Next
     /\ UNCHANGED <<part, processVars, sessionVars, filesVars, editorVars, qualityVars, queueVars>>
  \/ /\ part = "quality" /\ Quality!Next
     /\ UNCHANGED <<part, processVars, sessionVars, filesVars, editorVars, socketVars, queueVars>>
  \/ /\ part = "queue" /\ Queue!Next
     /\ UNCHANGED <<part, processVars, sessionVars, filesVars, editorVars, socketVars, qualityVars>>

Spec == Init /\ [][Next]_vars /\ Process!Fairness /\ Socket!Fairness

-----------------------------------------------------------------------------
\* Every part's types, and the ties between memory and disk they state.
TypeOK ==
  CASE part = "process" -> Process!TypeOK
    [] part = "session" -> Session!TypeOK
    [] part = "files" -> Files!TypeOK
    [] part = "editor" -> Editor!TypeOK
    [] part = "socket" -> Socket!TypeOK
    [] part = "quality" -> Quality!TypeOK
    [] part = "queue" -> Queue!TypeOK

\* A shell completion marked as notified is before the model, crashes included.
NoCompletionLost == part = "process" => Process!NoCompletionLost

\* An owed shell completion is in the end told, or the session is paused.
EveryCompletionTold == Process!EveryCompletionTold

\* The session file holds what was said, memory what the file holds, and a title the
\* user gave is never replaced by a generated one.
HistoryWhole ==
  part = "session" =>
    Session!NothingDropped /\ Session!ConversationOnDisk /\ Session!UserTitleStands

\* A candidate's manifest holds the files of that candidate, and work on disk is
\* saved before another candidate's files replace it.
FilesFollowCandidates ==
  part = "files" => Files!ManifestsBelong /\ Files!SavedBeforeOverwritten

\* Only with the user's consent does the editor lose unsaved text, or replace what
\* others wrote.
EditsSafe == Editor!EditsKept /\ Editor!NoSilentOverwrite

\* An answer belongs to its request, and a chain of responses to its connection.
ExchangesIsolated == Socket!ExchangesIsolated

\* Every request over the socket ends, or goes to HTTP.
RequestSettles == Socket!RequestSettles

\* No watched file keeps blocking findings without a warning or an open check, and
\* the screen and the log agree on the quality decision the user is to make.
QualityReported ==
  part = "quality" => Quality!BlockingTextReported /\ Quality!DecisionStands

\* What the user enters is kept, served once and in order.
QueueServed == part = "queue" => Queue!QueueServed

\* After an interrupted turn, unless it was a regeneration or a queued command has ended,
\* only the entry that led the queue goes out by itself.
EscapeSendsHead == Queue!EscapeSendsHead

\* The same with regenerated turns, as the queue's document has it.  TLC refutes it: the
\* code sends whatever leads the queue then.
EscapeSendsOnlyHead == Queue!EscapeSendsOnlyHead

\* No mark of a change on disk is left of a closed buffer, as the comment on close()
\* has it.  TLC refutes it: a check that was under way sets the mark again.
MarksResident == part = "editor" => Editor!MarksResident
=============================================================================
