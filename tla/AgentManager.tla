---------------------------- MODULE AgentManager ----------------------------
(***************************************************************************)
(* AgentManager and AgentStore (src/core/agents/manager.ts, store.ts): the *)
(* life of a SubAgent run from spawn to its reported result, across store  *)
(* failures and crashes of the host.                                       *)
(*                                                                         *)
(* In memory: the scheduler lease, execute()'s position, the path table.   *)
(* On disk: one metadata file per run, the parent's inbox (background) and *)
(* the parent session's tool record (foreground).  Every await on the      *)
(* store ends an action, so a crash can fall between any two writes.       *)
(***************************************************************************)
EXTENDS AgentScheduler

CONSTANTS
  Session,
  ParentOf,        \* the parent session of a run
  Background,      \* runs spawned in background mode; the others are foreground
  Delegated,       \* runs bound to a harness delegation: serial per parent, retried
  RetryLimit,      \* delegation.retryLimit
  HostCall,        \* parent-Engine tool calls that may claim paths
  Path, NoOwner,
  MaxCrashes, MaxStoreFailures   \* bounds of the model

ASSUME ParentAssumption == ParentOf \in [Run -> Session]
ASSUME ModeAssumption == Background \subseteq Run /\ Delegated \subseteq Run

\* execute() passes the parent session id as the delegation key of a delegated
\* run, and no key for an ordinary one.
ASSUME DelegationAssumption ==
  Key = Session /\ KeyOf = [r \in Run |-> IF r \in Delegated THEN ParentOf[r] ELSE NoKey]

\* The owner of a run's paths is "run_<uuid>", of a host call's "<session>:<call>".
ASSUME OwnerAssumption == Run \cap HostCall = {} /\ NoOwner \notin Run \cup HostCall

ASSUME BoundAssumption ==
  RetryLimit \in Nat /\ MaxCrashes \in Nat /\ MaxStoreFailures \in Nat

VARIABLES
  owner,         \* this.pathOwnership
  pc,            \* where spawn() and execute() stand, per run
  outcome,       \* the terminal status execute() is writing
  attempt,       \* metadata.delegation.attempt in memory
  initialOrdinal, nextOrdinal,   \* AgentHandleAllocator, per parent session
  handle,        \* the ordinal allocated to the run in this process
  meta,          \* metadata file: status, handle ordinal, attempt
  inbox,         \* "enqueued" events of the run in its parent's inbox file
  toolRecord,    \* tool records for the run's spawn call in the parent session
  todo,          \* files recoverInterrupted() has still to visit
  repaired,      \* the run whose report recovery has just written, as a set
  crashes, storeFailures

memoryVars == <<pc, outcome, attempt>>
handleVars == <<initialOrdinal, nextOrdinal, handle>>
reportVars == <<inbox, toolRecord>>
recoveryVars == <<todo, repaired>>
boundVars == <<crashes, storeFailures>>
vars == <<schedVars, owner, memoryVars, handleVars, meta, reportVars, recoveryVars, boundVars>>

Paths == INSTANCE PathOwnership WITH Owner <- Run \cup HostCall

PC == {"none", "allocating", "creating", "acquiring", "running", "retrying",
       "finishing", "enqueuing", "settled", "gone"}
Terminal == {"completed", "failed", "cancelled"}
NoMeta == [status |-> "none", ordinal |-> 0, attempt |-> 0]

\* isControllable of the active entry: interrupt and send_message accept it.
Controllable(r) == pc[r] \in {"acquiring", "running", "retrying", "finishing"}

Siblings(p) == {r \in Run : ParentOf[r] = p /\ meta[r] # NoMeta}

\* store.nextHandleOrdinal
NextFreeOrdinal(p) ==
  1 + (IF Siblings(p) = {} THEN 0
       ELSE LET used == {meta[r].ordinal : r \in Siblings(p)}
            IN  CHOOSE n \in used : \A m \in used : m <= n)

-----------------------------------------------------------------------------
Init ==
  /\ SchedInit /\ Paths!OwnershipInit
  /\ pc = [r \in Run |-> "none"]
  /\ outcome = [r \in Run |-> "none"]
  /\ attempt = [r \in Run |-> 1]
  /\ initialOrdinal = [p \in Session |-> 0] /\ nextOrdinal = [p \in Session |-> 0]
  /\ handle = [r \in Run |-> 0]
  /\ meta = [r \in Run |-> NoMeta]
  /\ inbox = [r \in Run |-> 0] /\ toolRecord = [r \in Run |-> 0]
  /\ todo = {} /\ repaired = {}
  /\ crashes = 0 /\ storeFailures = 0

Goto(r, place) == pc' = [pc EXCEPT ![r] = place]

\* spawn() up to the allocator's await
Spawn(r) ==
  /\ pc[r] = "none"
  /\ Goto(r, "allocating")
  /\ UNCHANGED <<schedVars, owner, outcome, attempt, handleVars, meta, reportVars, recoveryVars, boundVars>>

\* The one memoized initializer of a parent settles; 0 is "not yet read".
ReadOrdinals(p) ==
  /\ initialOrdinal[p] = 0 /\ \E r \in Run : pc[r] = "allocating" /\ ParentOf[r] = p
  /\ initialOrdinal' = [initialOrdinal EXCEPT ![p] = NextFreeOrdinal(p)]
  /\ UNCHANGED <<schedVars, owner, memoryVars, nextOrdinal, handle, meta, reportVars, recoveryVars, boundVars>>

\* Mutant: concurrent spawns all get the ordinal that was read.
AllocateWithoutBump(r) ==
  /\ pc[r] = "allocating" /\ initialOrdinal[ParentOf[r]] # 0
  /\ handle' = [handle EXCEPT ![r] = initialOrdinal[ParentOf[r]]]
  /\ Goto(r, "creating")
  /\ UNCHANGED <<schedVars, owner, outcome, attempt, initialOrdinal, nextOrdinal, meta, reportVars, recoveryVars, boundVars>>

Allocate(r) ==
  LET p == ParentOf[r]
      ordinal == IF nextOrdinal[p] = 0 THEN initialOrdinal[p] ELSE nextOrdinal[p]
  IN /\ pc[r] = "allocating" /\ initialOrdinal[p] # 0
     /\ handle' = [handle EXCEPT ![r] = ordinal]
     /\ nextOrdinal' = [nextOrdinal EXCEPT ![p] = ordinal + 1]
     /\ Goto(r, "creating")
     /\ UNCHANGED <<schedVars, owner, outcome, attempt, initialOrdinal, meta, reportVars, recoveryVars, boundVars>>

\* store.save("created") settles; execute() runs up to its first await.
SaveCreated(r) ==
  /\ pc[r] = "creating"
  /\ meta' = [meta EXCEPT ![r] = [status |-> "created", ordinal |-> handle[r], attempt |-> 1]]
  /\ Goto(r, "acquiring")
  /\ AcquireDelegation(r) \/ (r \notin Delegated /\ AcquireSlot(r))
  /\ UNCHANGED <<owner, outcome, attempt, handleVars, reportVars, recoveryVars, boundVars>>

\* A keyed delegation asks for its slot; a refused one gives its key back.
ContinueAcquire(r) ==
  /\ pc[r] = "acquiring"
  /\ (r \in Delegated /\ AcquireSlot(r)) \/ Unwind(r)
  /\ UNCHANGED <<owner, memoryVars, handleVars, meta, reportVars, recoveryVars, boundVars>>

\* acquire() rejected: execute()'s outer catch, before the run started.
AcquireRejected(r) ==
  /\ pc[r] = "acquiring" /\ phase[r] = "refused"
  /\ outcome' = [outcome EXCEPT ![r] = "cancelled"]
  /\ Goto(r, "finishing")
  /\ UNCHANGED <<schedVars, owner, attempt, handleVars, meta, reportVars, recoveryVars, boundVars>>

SaveRunning(r) ==
  /\ pc[r] = "acquiring" /\ phase[r] = "held"
  /\ meta' = [meta EXCEPT ![r].status = "running"]
  /\ Goto(r, "running")
  /\ UNCHANGED <<schedVars, owner, outcome, attempt, handleVars, reportVars, recoveryVars, boundVars>>

-----------------------------------------------------------------------------
(* The runner (child-runner.ts), as far as the manager sees it. *)

ClaimMutation(r) ==
  /\ pc[r] = "running"
  /\ \E p \in Path : Paths!Claim(r, {p})
  /\ UNCHANGED <<schedVars, memoryVars, handleVars, meta, reportVars, recoveryVars, boundVars>>

ClaimHostMutation(h) ==
  /\ \E p \in Path : Paths!Claim(h, {p})
  /\ UNCHANGED <<schedVars, memoryVars, handleVars, meta, reportVars, recoveryVars, boundVars>>

ReleaseHostMutations(h) ==
  /\ Paths!ReleaseAll(h) /\ owner' # owner
  /\ UNCHANGED <<schedVars, memoryVars, handleVars, meta, reportVars, recoveryVars, boundVars>>

RunnerReturns(r) ==
  /\ pc[r] = "running"
  /\ outcome' = [outcome EXCEPT ![r] = "completed"]
  /\ Goto(r, "finishing")
  /\ UNCHANGED <<schedVars, owner, attempt, handleVars, meta, reportVars, recoveryVars, boundVars>>

\* Mutant: one attempt too many.  canRetry, retryLimit retries after the first.
CanRetryOnceMore(r) == r \in Delegated /\ attempt[r] <= RetryLimit + 1
CanRetry(r) == r \in Delegated /\ attempt[r] <= RetryLimit

\* The runner throws: cancelled if the signal fired, else retried while the
\* delegation's attempts last and the error is transient, else failed.
RunnerThrows(r) ==
  /\ pc[r] = "running"
  /\ \/ /\ r \in aborted
        /\ outcome' = [outcome EXCEPT ![r] = "cancelled"]
        /\ Goto(r, "finishing") /\ UNCHANGED attempt
     \/ /\ r \notin aborted
        /\ outcome' = [outcome EXCEPT ![r] = "failed"]
        /\ Goto(r, "finishing") /\ UNCHANGED attempt
     \/ /\ r \notin aborted /\ CanRetry(r)
        /\ attempt' = [attempt EXCEPT ![r] = @ + 1]
        /\ Goto(r, "retrying") /\ UNCHANGED outcome
  /\ UNCHANGED <<schedVars, owner, handleVars, meta, reportVars, recoveryVars, boundVars>>

SaveRetry(r) ==
  /\ pc[r] = "retrying"
  /\ meta' = [meta EXCEPT ![r].attempt = attempt[r]]
  /\ Goto(r, "running")
  /\ UNCHANGED <<schedVars, owner, outcome, attempt, handleVars, reportVars, recoveryVars, boundVars>>

-----------------------------------------------------------------------------
(* finish(), and execute()'s finally *)

\* Mutant: the finally forgets the paths.
SettleKeepsPaths(r) ==
  /\ Goto(r, "settled") /\ UNCHANGED owner
  /\ IF phase[r] = "held" THEN Release(r) ELSE UNCHANGED schedVars

\* The finally of execute(): paths first, then the lease, if there is one.
Settle(r) ==
  /\ Goto(r, "settled")
  /\ Paths!ReleaseAll(r)
  /\ IF phase[r] = "held" THEN Release(r) ELSE UNCHANGED schedVars

\* Mutant: a cancelled background run is announced as well.
SaveTerminalAnyOutcome(r) ==
  /\ pc[r] = "finishing"
  /\ meta' = [meta EXCEPT ![r].status = outcome[r], ![r].attempt = attempt[r]]
  /\ IF r \in Background THEN Goto(r, "enqueuing") /\ UNCHANGED <<schedVars, owner>> ELSE Settle(r)
  /\ UNCHANGED <<outcome, attempt, handleVars, reportVars, recoveryVars, boundVars>>

SaveTerminal(r) ==
  /\ pc[r] = "finishing"
  /\ meta' = [meta EXCEPT ![r].status = outcome[r], ![r].attempt = attempt[r]]
  /\ IF r \in Background /\ outcome[r] # "cancelled"
       THEN Goto(r, "enqueuing") /\ UNCHANGED <<schedVars, owner>>
       ELSE Settle(r)
  /\ UNCHANGED <<outcome, attempt, handleVars, reportVars, recoveryVars, boundVars>>

Enqueue(r) ==
  /\ pc[r] = "enqueuing"
  /\ inbox' = [inbox EXCEPT ![r] = @ + 1]
  /\ Settle(r)
  /\ UNCHANGED <<outcome, attempt, handleVars, meta, toolRecord, recoveryVars, boundVars>>

\* executeAgentTool: the parent turn that waited records the tool result.
RecordForeground(r) ==
  /\ pc[r] = "settled" /\ r \notin Background /\ toolRecord[r] = 0
  /\ toolRecord' = [toolRecord EXCEPT ![r] = @ + 1]
  /\ UNCHANGED <<schedVars, owner, memoryVars, handleVars, meta, inbox, recoveryVars, boundVars>>

\* interrupt(), or the abort of a foreground run's parent turn, which also
\* reaches a run that spawn() has not started yet
Interrupt(r) ==
  /\ Controllable(r) \/ (r \notin Background /\ pc[r] \in {"allocating", "creating"})
  /\ Abort(r)
  /\ UNCHANGED <<owner, memoryVars, handleVars, meta, reportVars, recoveryVars, boundVars>>

\* store.save or store.enqueue rejects.  Before the run has started that is an
\* ordinary failure; afterwards execute() itself rejects and only cleans up.
StoreFails(r) ==
  /\ storeFailures < MaxStoreFailures
  /\ storeFailures' = storeFailures + 1
  /\ \/ /\ pc[r] = "acquiring" /\ phase[r] = "held"
        /\ outcome' = [outcome EXCEPT ![r] = IF r \in aborted THEN "cancelled" ELSE "failed"]
        /\ Goto(r, "finishing")
        /\ UNCHANGED <<schedVars, owner>>
     \/ /\ pc[r] \in {"retrying", "finishing", "enqueuing"}
        /\ Settle(r) /\ UNCHANGED outcome
     \/ /\ pc[r] = "creating"
        /\ Goto(r, "gone") /\ UNCHANGED <<schedVars, owner, outcome>>
  /\ UNCHANGED <<attempt, handleVars, meta, reportVars, recoveryVars, crashes>>

-----------------------------------------------------------------------------
(* The host exits and starts again; recoverInterrupted() visits every file. *)

Crash ==
  /\ crashes < MaxCrashes
  /\ crashes' = crashes + 1
  /\ pc' = [r \in Run |-> IF pc[r] = "none" THEN "none" ELSE "gone"]
  /\ phase' = [r \in Run |-> "idle"] /\ aborted' = {} /\ runningCount' = 0
  /\ slotWaiters' = <<>> /\ delegationRunning' = {}
  /\ delegationWaiters' = [k \in Key |-> <<>>]
  /\ owner' = [p \in Path |-> NoOwner]
  /\ initialOrdinal' = [p \in Session |-> 0] /\ nextOrdinal' = [p \in Session |-> 0]
  /\ outcome' = [r \in Run |-> "none"] /\ attempt' = [r \in Run |-> 1]
  /\ handle' = [r \in Run |-> 0]
  /\ todo' = {r \in Run : meta[r] # NoMeta} /\ repaired' = {}
  /\ UNCHANGED <<meta, reportVars, storeFailures>>

\* Mutant: every visited file is marked failed.
InterruptedAlways(r) == TRUE
Interrupted(r) == meta[r].status \in {"created", "running"}

\* Mutants: a background report is repeated by every recovery; a run that got
\* its terminal status before the crash gets no report.
OwesInboxEntryAgain(r) == r \in Background /\ meta[r].status # "cancelled"
OwesInboxEntryIfOpen(r) == r \in Background /\ Interrupted(r) /\ inbox[r] = 0
OwesInboxEntry(r) == r \in Background /\ meta[r].status # "cancelled" /\ inbox[r] = 0

\* The report comes first: a background result is enqueued unless the run has
\* an inbox entry, a foreground one is appended unless its call has a record.
RecoverReport(r) ==
  /\ r \in todo /\ repaired = {}
  /\ inbox' = IF OwesInboxEntry(r) THEN [inbox EXCEPT ![r] = @ + 1] ELSE inbox
  /\ toolRecord' = IF r \notin Background /\ toolRecord[r] = 0
                     THEN [toolRecord EXCEPT ![r] = 1] ELSE toolRecord
  /\ repaired' = {r}
  /\ UNCHANGED <<schedVars, owner, memoryVars, handleVars, meta, todo, boundVars>>

\* Then the metadata of an interrupted run becomes failed.
RecoverSave(r) ==
  /\ repaired = {r}
  /\ meta' = IF Interrupted(r) THEN [meta EXCEPT ![r].status = "failed"] ELSE meta
  /\ todo' = todo \ {r} /\ repaired' = {}
  /\ UNCHANGED <<schedVars, owner, memoryVars, handleVars, reportVars, boundVars>>

\* A file that cannot be read or written ends the whole recovery.
RecoveryFails ==
  /\ todo # {} /\ storeFailures < MaxStoreFailures
  /\ storeFailures' = storeFailures + 1
  /\ todo' = {} /\ repaired' = {}
  /\ UNCHANGED <<schedVars, owner, memoryVars, handleVars, meta, reportVars, crashes>>

Next ==
  \/ \E r \in Run :
       \/ Spawn(r) \/ Allocate(r) \/ SaveCreated(r) \/ ContinueAcquire(r) \/ AcquireRejected(r)
       \/ SaveRunning(r) \/ ClaimMutation(r) \/ RunnerReturns(r) \/ RunnerThrows(r) \/ SaveRetry(r)
       \/ SaveTerminal(r) \/ Enqueue(r) \/ RecordForeground(r) \/ Interrupt(r) \/ StoreFails(r)
       \/ RecoverReport(r) \/ RecoverSave(r)
  \/ \E p \in Session : ReadOrdinals(p)
  \/ \E h \in HostCall : ClaimHostMutation(h) \/ ReleaseHostMutations(h)
  \/ Crash \/ RecoveryFails

\* Promises settle, the runner returns or throws (it has a turn limit and its
\* provider rounds time out), and recovery visits every file.
Progress(r) ==
  \/ Allocate(r) \/ SaveCreated(r) \/ ContinueAcquire(r) \/ AcquireRejected(r) \/ SaveRunning(r)
  \/ RunnerReturns(r) \/ RunnerThrows(r) \/ SaveRetry(r) \/ SaveTerminal(r) \/ Enqueue(r)
  \/ RecordForeground(r) \/ RecoverReport(r) \/ RecoverSave(r)

Fairness == /\ \A r \in Run : WF_vars(Progress(r))
            /\ \A p \in Session : WF_vars(ReadOrdinals(p))

Spec == Init /\ [][Next]_vars /\ Fairness

-----------------------------------------------------------------------------
Meta == [status : {"none", "created", "running"} \cup Terminal, ordinal : Nat, attempt : Nat]

\* Every variable has the type of what it models.
TypeOK ==
  /\ SchedTypeOK /\ Paths!OwnershipTypeOK
  /\ pc \in [Run -> PC] /\ outcome \in [Run -> {"none"} \cup Terminal]
  /\ attempt \in [Run -> 1..(RetryLimit + 1)]
  /\ initialOrdinal \in [Session -> Nat] /\ nextOrdinal \in [Session -> Nat]
  /\ handle \in [Run -> Nat] /\ meta \in [Run -> Meta]
  /\ inbox \in [Run -> Nat] /\ toolRecord \in [Run -> Nat]
  /\ todo \subseteq Run /\ repaired \subseteq todo
  /\ crashes \in 0..MaxCrashes /\ storeFailures \in 0..MaxStoreFailures

\* A runner works only under a lease, so at most MaxConcurrent runners and, of
\* one parent's delegations, at most one (docs/dev/SUBAGENTS.md, Execution Model).
RunnersHoldLeases ==
  /\ \A r \in Run : pc[r] \in {"running", "retrying"} => phase[r] = "held"
  /\ Cardinality({r \in Run : pc[r] \in {"running", "retrying"}}) <= MaxConcurrent
  /\ \A r, q \in Delegated : r # q /\ ParentOf[r] = ParentOf[q]
       => ~(pc[r] \in {"running", "retrying"} /\ pc[q] \in {"running", "retrying"})

\* However execute() ends, by a result, an abort while waiting or a failed
\* save, nothing of the run stays behind: no lease, no queue place, no path.
NothingLeaksAfterSettling ==
  \A r \in Run : pc[r] \in {"settled", "gone"}
    => /\ phase[r] \notin {"keyWait", "keyed", "slotWait", "slotRefused", "held"}
       /\ \A p \in Path : owner[p] # r

\* Leases and paths follow the runs that use them: held while a runner works,
\* given back however the run ends.
LeasesFollowRuns == RunnersHoldLeases /\ NothingLeaksAfterSettling

\* Live writers never own overlapping paths.
ExclusivePaths == Paths!ExclusivePaths

\* Whatever the host's crashes and recoveries, a result is reported once: one
\* inbox entry for a background run that was not cancelled, one tool record
\* for a foreground one.
ReportedAtMostOnce ==
  \A r \in Run : /\ inbox[r] <= 1 /\ toolRecord[r] <= 1
                 /\ inbox[r] = 1 => r \in Background /\ meta[r].status # "cancelled"
                 /\ toolRecord[r] = 1 => r \notin Background

\* The inbox never announces a run that its own host still executes.
TerminalBeforeInbox ==
  \A r \in Run : inbox[r] = 1 => meta[r].status \in Terminal \/ pc[r] = "gone"

\* What is reported of a run is reported once and only when it has ended.
ReportsAreFinal == ReportedAtMostOnce /\ TerminalBeforeInbox

\* A completed recovery leaves no file of a dead host open or unreported.
RecoveryClosesRuns ==
  \A r \in Run : pc[r] = "gone" /\ meta[r] # NoMeta /\ r \notin todo /\ storeFailures = 0
    => /\ meta[r].status \in Terminal
       /\ IF r \in Background THEN inbox[r] = 1 \/ meta[r].status = "cancelled"
                             ELSE toolRecord[r] = 1

\* Handles of one parent never collide, across concurrent spawns and restarts.
HandlesUnique ==
  \A r, q \in Run : r # q /\ ParentOf[r] = ParentOf[q] /\ meta[r] # NoMeta /\ meta[q] # NoMeta
    => meta[r].ordinal # meta[q].ordinal

Later == {<<"none", "created">>, <<"created", "running">>}
           \cup ({"created", "running"} \X Terminal)

\* The metadata file follows the documented lifecycle: it never goes back, a
\* terminal status is final, and the attempt it names never decreases.
DurableLifecycle ==
  [][\A r \in Run : meta'[r] # meta[r] =>
       /\ meta'[r].status = meta[r].status \/ <<meta[r].status, meta'[r].status>> \in Later
       /\ meta[r].status \notin Terminal
       /\ meta'[r].attempt >= meta[r].attempt]_vars

\* What the parent was promised about a spawned run, seen from the disk.
LedgerEntry(r) ==
  CASE meta[r] = NoMeta -> "absent"
    [] meta[r] # NoMeta /\ inbox[r] + toolRecord[r] > 1 -> "reported twice"
    [] meta[r] # NoMeta /\ inbox[r] + toolRecord[r] = 1 -> "reported"
    [] OTHER -> IF r \in Background /\ meta[r].status = "cancelled" THEN "cancelled" ELSE "open"

ledger == [r \in Run |-> LedgerEntry(r)]

Ledger == INSTANCE AgentLedger

\* AgentManager and AgentStore keep the promise, crashes included: every
\* accepted run is reported exactly once or was cancelled in the background.
KeepsLedger == Ledger!Spec
=============================================================================
