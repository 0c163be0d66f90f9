# Prism Vesicle: specification and verification

Prism Vesicle is a terminal host for language-model agents (TypeScript on Bun):
an *Engine* runs turns of provider requests and tool calls, asks the user for
permissions and decisions, spawns *SubAgents* in the foreground or background,
and keeps everything it must not forget in append-only session files. This
directory specifies the host's own protocol logic in TLA+, model-checks it with
TLC and proves part of it with TLAPS. Paths below are relative to the
application's source directory `src/src/` unless they start with `docs/` or
`tests/`.

1. [The system](#1-the-system)
2. [Modules and how they correspond to the code](#2-modules-and-how-they-correspond-to-the-code)
3. [Runs, bounds and fairness](#3-runs-bounds-and-fairness)
4. [What is proved](#4-what-is-proved)
5. [Findings](#5-findings)
6. [What is only model-checked, and what is not modelled](#6-what-is-only-model-checked-and-what-is-not-modelled)
7. [Plan](#7-plan)

## 1. The system

One Bun process, one event loop. Concurrency is the interleaving of promise
continuations: state read before an `await` may be old after it. Failure means a
rejected promise, an `AbortSignal`, or the death of the process between two
file operations. Everything in memory is then lost and the next host rebuilds
what it can from the files.

| Component | State | Operations | What is hard |
|---|---|---|---|
| SubAgent execution scheduler (`core/agents/execution-scheduler.ts`) | `runningCount`, slot queue, per-parent delegation set and queues | `acquire`, `release`, two abort listeners | handover of a slot to a waiter that may be aborting; giving the key back when the slot is refused; FIFO order |
| Path ownership (`core/agents/path-ownership.ts`) | owner per path | `claim`, `release` | all-or-nothing claims, overlap by ancestor directory |
| SubAgent manager and store (`core/agents/manager.ts`, `store.ts`, `handle-allocator.ts`) | active entries in memory; metadata files, inbox file, parent's tool records on disk | `spawn`, `execute`, retry, `finish`, `interrupt`, `recoverInterrupted` | crash between terminal metadata and report; failing saves; handles under concurrent spawns; recovery that is itself interrupted |
| Background delivery (`core/agents/scheduler.ts`, `tui/turn-controller.ts`) | drain position, rerun flag, pause set, inbox fold, session tree | `notify`, drain, `deliverAgentResults`, `wait_agent`, `/agents retry` | completions during a drain, busy parents, failed, interrupted and repeated deliveries, acknowledgement |
| SubAgent run loop (`core/agents/child-runner.ts`, `child-tool-executor.ts`, `child-run-durability.ts`) | loop position, iteration, mailbox, child session | provider round, tool calls, messages, interrupt | messages while a terminal reply streams, interrupts while a permission is open |
| Permission broker (`core/permissions/broker.ts`) | FIFO of child requests, the one shown | `request`, `resolve`, abort listener | who is shown, and who gets the decision, after an abort |
| Turn loop (`core/agent-loop/turn-loop.ts`, `tool-round-*.ts`) | messages in memory, records in the session | provider round, plan of the calls, host and Agent execution, results, finalize | host calls that throw while Agents run; every call needs exactly one result |
| Pending interactions (`core/agent-loop/interaction-pause.ts`, `*-continuation.ts`, `core/session/interaction-recovery.ts`, `tui/*-continuation.ts`) | panel on screen, permission request and resolution records | open, decide, resume, restore | crash, failure or Escape between decision, start, execution and result; what a restart shows |
| Session log (`core/session/append-store.ts`, `record-model.ts`, `history-projector.ts`) | tree of records in one file per session, cached head, lock file | `append`, `appendIfHead`, active branch, projection, repair | several writers, explicit parents after a rewind, a lock whose owner died |
| Compaction and titles (`core/compact/*`, `core/session/title*.ts`) | summary with its source head; title attempts in the log | `/compact`, automatic compaction, summarize from a point, generate, rename, regenerate | a summary made from a head that has moved; a generated title that arrives after the user's |
| Background processes (`core/process/*`, `core/agent-loop/background-process.ts`) | task states with a `notified` flag, one file per task | start, finish, persist, collect, materialise, mark, re-arm | crash between record and mark; batches that grow; a failed turn that takes a completion along |
| Candidate files (`core/checkpoints/candidate-files.ts`, `core/agent-loop/regenerate.ts`, `core/session/selection.ts`) | manifest, file events and selection marker per candidate | capture, baseline, restore, regenerate, switch, compensate | a failure or death half way through many files; which candidate the disk belongs to |
| Quality guard (`core/quality/*`, `core/agent-loop/quality-*.ts`, `core/session/quality-recovery.ts`) | attempts, rejected texts, open targets, warning; its records in the log | judge, rewrite, pause, decide, refresh, recover | state rebuilt from records appended one by one; files that change while the user is asked |
| Workspace editor (`tui/workspace/*`) | buffers with snapshots and file stamps, dirty and changed marks, dialogs, work in flight | open, type, save, save-as, reload, move, delete, external editor, check for external changes | other programs writing the same files; dialogs and saves that interleave; eviction from the pool |
| Responses socket (`providers/openai-responses/*`) | connections, continuation chain, attempt, downgrade | request, retry, rotate, close, cancel | late events of an abandoned attempt, chains that outlive their connection |
| Queued work and cancellation (`tui/queued-work-controller.ts`, `tui/input-queue.ts`, `tui/turn-cancellation.ts`) | input queue, `ready`, takeover | queue, recall, tool boundary, idle drain, takeover on Escape | inputs taken and not yet recorded, a queue released behind an Escape, regenerations that share Escape and queue but not the handover |
| MCP client (`mcp/*`) | connections and their tool lists | connect, call, reconnect | a reconnect shared by concurrent calls |
| Other providers, skills, harness, tools, CLI | catalogues, profiles, codecs | see `PROJECT.json` | mostly data and sequential I/O |

How they interact: the turn loop calls the SubAgent tools, which call the
manager; the manager takes leases from the scheduler, paths from the table, and
runs child loops, which ask the broker. A background run ends with an inbox
entry and an `agent_completed` event; the continuation scheduler turns idle
edges and completions into delivery turns of the same turn loop. All turns write
to the session log, from which `loadSessionSnapshot` rebuilds conversation and
pending interaction after a failure or a restart. A finished background shell
task reaches the model the same way, or is put in front of the next provider
request of any turn. The quality guard judges what a turn wrote before the turn
may end. Compaction, titles and candidate markers are further writers of the
same log, and a provider request may travel over a socket that outlives it.

What makes each component correct, in one sentence: the scheduler loses and
doubles no slot; two live writers never overlap; an accepted run is reported
exactly once; a background result is never stranded, never acknowledged unread
and never sent twice on one branch; the panel shows who waits; a call runs at
most once and only with its permission; every provider request pairs calls and
results; what a restart shows is what was on screen; a shell completion marked
as told is in the history; nothing said on a branch is missing from its
projection; a manifest holds its own candidate's files; no file the guard
watched keeps blocking findings without a warning or an open check; the editor
loses no unsaved text and overwrites no foreign version unasked; an answer
belongs to the request that asked for it, and every request ends; what the user
queues is served once and in order, or given back.

## 2. Modules and how they correspond to the code

```
WaitQueue <- AgentScheduler <- AgentManager --refines--> AgentLedger
                               AgentManager uses PathOwnership
WaitQueue <- ChildRun            (run loop, mailbox, permission broker)
             TurnLoop            (tool rounds, permissions, gates, questions, restart)

SessionTree <- AgentDelivery     (inbox, drain, delivery and prompt turns)
SessionTree <- ProcessDelivery --\
SessionTree <- SessionLog --------+
               CandidateFiles ----+-- MCHost   (one of them moves per behaviour)
               WorkspaceEditor ---+
               ResponsesSocket ---+
               QualityGuard ------+
               QueuedWork -------/

Selection  <- TurnLoop, QueuedWork, WorkspaceEditor   (filter of a list)
WaitQueue, SessionTree, Selection <- DataLemmas <- every *_proof module
```

An action ends at every `await` on a file or another run's promise, so that a
crash or another actor can step in between. Synchronous code between two awaits
is one action. `map` in `PROJECT.json` names the lines of every definition.
Operators whose comment says *mutant* are plausible bugs of the definition below
them; the project uses them to show that each property can fail. They are no
part of the specifications.

**WaitQueue** is the queue both the scheduler and the broker use: `indexOf` and
`splice` on an array of waiters. **Selection** is `filter` of a list, written so
that its result can be reasoned about.

**AgentScheduler** has one acquirer per run. `phase` is where its `acquire`
stands (waiting for its key, holding the key, waiting for a slot, refused,
held, released). `AcquireDelegation`, `AcquireSlot` are the calls, `Abort` runs
the abort listeners, `ReleaseSlot`/`ReleaseDelegation` hand over to the head of
a queue, `Unwind` is the catch that returns the key.

**PathOwnership** is `PathOwnershipTable` over an overlap relation: equal, or one
an ancestor of the other; path text is not modelled.

**AgentManager** extends the scheduler, whose keys are the parent sessions
(`DelegationAssumption`), takes the path table as an instance (`Paths`) and adds `execute()`:
`pc[r]` is its position, `meta[r]` the metadata file, `inbox[r]` and
`toolRecord[r]` the reports on disk. `StoreFails` rejects a save, `Crash` drops
memory and starts `recoverInterrupted`, which visits the files one by one and can
crash again. **AgentLedger** is the promise: accepted, then reported once or, in
the background, cancelled; `KeepsLedger` is the refinement under a mapping that
looks at the disk only.

**AgentDelivery** is one parent session. The file is a tree of records
(`SessionTree`); `Shown` is the conversation a load projects from it. `drain`, `rerun`, `pendingIds`, `batch` are the locals of
`AgentContinuationScheduler`; `turn` is whoever holds `busy`; `rewindPoint` is
`nextSessionParent`. A tool round is reduced to a `wait_agent` call.

**ChildRun** is a set of children with one broker. `transcript[c]` records the
order of messages and replies in the child session of the current attempt.

**TurnLoop** is the parent's turn and its interactions. `log` is the active branch
reduced to records about tool calls: assistant (with its calls), permission
request, allow, reject, process start, tool result. `conversation` is what the
next prompt starts from, `panel` the pending interaction on screen, `turn` the
turn in progress: the host calls still to run, the Agent calls still to record,
the redirects still to append, the calls to ask about. `GoOn` orders these as
`advanceRound` and `continuePermissionSequence` do. `Preserved`, `Repair`,
`Unresolved` and `RestoredPanel` are `loadSessionSnapshot`, `repairProviderHistory`,
`unresolvedToolCalls` and `restorePendingInteraction`. Failures are told apart by
what follows them in the code: `StopContinuation` (the three controllers'
reconcile paths), `FailPrompt`, `InterruptPrompt`, `TakeOver` (Escape with a
queued message), `Restart`. `executed`, `calledOff` and `stale` are history
variables: how often a call ran, which calls a provider request reported as
interrupted, which permission requests a takeover left open.

**SessionTree** is the session file as `core/session` reads it: `Branch` is
`buildActiveSessionBranch`, `Project` is `projectSessionHistory` with the
failed-turn marker and checkpoints, over whatever record kinds the extending
module has.

**ProcessDelivery** is `ProcessManager`, `ProcessCompletionScheduler` and the turns
they meet. `task[t]` and `file[t]` are status and `notified` flag in memory and on
disk; `Finish` and `Settle` are the two halves of `finish()`, with a crash between
them; `Materialize` is the boundary before each provider request, which searches
the log for packets (`Covered`, `ExactPackets`) before it appends one; `MarkNotified`
follows task by task. `FailDelivery`, `Rearm` and `Rearmed` are the way back of a
delivery that failed. `turn.carries` counts how often the request in flight
carries each task. `answered` and `orphaned` are history variables: the tasks an
answered request carried, and those whose packet left the history with a failed,
interrupted or killed turn, or with a prompt that forks from before it.

**SessionLog** is one file and its writers: turns and rewinds, `/compact` and
automatic compaction (`StartCompaction`, `Install` under `appendIfHead`),
summarize from a point (`StartSummary`, `AppendBoundary`, `AppendSummary`), title
generations (`Claim` to `Settle`), `/title`, and a second process. An append is
one step, because chain and lock file serialise it; what was read before it may
be stale. `covers` says which messages a summary stands for.

**CandidateFiles** is one fork: the turn has been regenerated, several answers share
one directory. `pre` is the checkpoint ledger of a candidate's turn, `bundle` its
manifest, `event` its latest file event in the log, which alone decides whether a
departure may save (`MayCapture`). A switch or a regenerate is an `op` whose files
are restored path by path (`RestorePath`), then its marker, then the selection.
`owner` (whose work the disk holds), `savedFrom` and `lapsed` (what came between
files and markers) are history variables.

**WorkspaceEditor** is the page's controller with its three owners. `order`, `meta`,
`text`, `dirty`, `changed` are the buffer pool, `disk` gives each file a content and a
stamp. Work with an `await` in it is an `Op` in one of four slots: `gated` (behind a
dialog that owns the keys), `free` (Ctrl+S, save-as, a move), `open`, `handoff` (the
external editor); its `stage` is the await it stands at. An agreed move removes its target
(`RemoveTarget`) before it renames. `checks` are the runs of
`checkExternalModifications`, one for each return to the page: nobody awaits them, they
read one stamp after another (`Stat`) beside everything else and replace all marks at
their end. `agreed` records what the
user was asked and gave up; `raced` the buffers for which the exceptions under
[Findings](#5-findings) have arisen; `unseen` the files another program wrote since
the host last read them.

**ResponsesSocket** is a session's connections and the retry loop of one request at a
time. An event of the socket and all promise reactions to it are one step. A
message's number is its response's id; `made` is what a connection completed,
which is all a later message on it may continue. `orphan` says that the session
object was closed and replaced under the running request.

**QualityGuard** is the Guard in rewrite mode. `q` is `QualityRoundState`, `log` its
records, `todo` the appends a judgement still has to make, each one or more
records at once (`RoundRecords`, `Refresh`, `Settle` compute them in the order of the
code). `PendingRewrite`, `Standing` and `PendingDecision` are the three readers of
`quality-recovery.ts`. A text is clean, blocking or unreadable; a text that comes
again is a repeated hash. `theirs`, `excused` and `forgotten` are history variables
behind the exceptions named under [Findings](#5-findings).

**QueuedWork** is the composer's queue. An entry is one press of Enter; `items` is the
queue, `turn` the operation that holds `busy` with the commands or messages it has
taken (`todo`), `log` the projection of the session file, `conversation` what the next
request carries from memory. `ready` remembers whether a turn or a queued command
released the queue. `Interrupt` and `Rebuild` are the two halves of
`handleInterruption`, before and after it reads the session. A regenerated turn
(`Regenerate`, `Fork`, then the stages of the others) keeps out of that path, as in the
code: it starts without `prepareTurn`, so `ready` stays what it was, and ends without a
result through the marker of `EndRegeneration` and the `Reload` of the conversation.
`ran`, `elsewhere`, `interrupted` (which kind of turn Escape ended last) and `asked` are
history variables.

**MCHost** puts the last seven side by side: the initial state chooses one `part`, and
only that part moves, so a run explores the sum of their states. Their properties
are stated there under the part's name.

## 3. Runs, bounds and fairness

Every action of every next-state relation fires in the passing runs. Deadlock
checking is off throughout: all the models end, or wait for a user who may never
come.

| Run | Instance | Checked | States |
|---|---|---|---|
| `scheduler` | 3 delegations of one parent, 2 plain runs, 1 slot | types, `SlotsConserved`, `DelegationsSerial`, `SlotFifo`, `AcquireSettles` | 43,964 |
| `manager` | 3 runs of one parent (foreground and background delegation, plain), 1 retry, 1 crash, 1 failed save | types, `LeasesFollowRuns`, `ReportsAreFinal`, `RecoveryClosesRuns`, `HandlesUnique`, `DurableLifecycle` | 3,332,097 |
| `ledger` | 2 runs, 1 host call, nested paths, 2 slots, 2 crashes | `ExclusivePaths`, refinement of `AgentLedger` with its liveness | 63,396 |
| `delivery` | 2 results, 1 prompt, 1 `wait_agent`, 2 failures or interruptions, 1 crash | types, `OnePacketPerBatch`, `AcknowledgedOnlyWhenConsumed`, `DeliversUntilPaused` | 665,992 |
| `child` | 2 children, 2 turns, 1 retry, 2 calls per response, messages to one | types, `PanelServesQueue`, `MessagesKeepOrder`, `CompletedRunAnswers`, `InterruptedRunEnds` | 205,200 |
| `turn` | 7 calls in 14 shapes of response, 2 rounds, 2 prompts, 2 failures or interruptions, 1 restart | types, pairing outside the three cases, at most once and with permission, decisions apply, called off stays off, panel survives, turn settles | 509,419 |
| `host` | seven parts, below | below | 1,065,926 |
| `delivery_alternation`, `delivery_history`, `child_mailbox`, `gate_replay`, `turn_pairing` | as above, smaller | one violated claim each, see [Findings](#5-findings) | |

The parts of `host`; types are checked for each.

| Part | Instance | Checked | States |
|---|---|---|---|
| `ProcessDelivery` | 2 tasks, 1 prompt, 1 tool round, 1 failure or interruption, 1 crash | `NoCompletionLost`, `EveryCompletionTold` | 73,795 |
| `SessionLog` | 6 records, 1 compaction, 1 title generation, 1 rewind, rename or foreign append, 1 crash | `HistoryWhole` | 170,227 |
| `CandidateFiles` | 2 candidates, 2 paths, 1 failure or death | `FilesFollowCandidates` | 91,852 |
| `WorkspaceEditor` | 2 files, a pool of 1, 1 edit, 1 foreign change, 3 keys of which 1 may switch the page | `EditsSafe` | 241,750 |
| `ResponsesSocket` | 2 requests, 1 retry, 1 dropped connection, 1 closed session, 1 rotation | `ExchangesIsolated`, `RequestSettles` | 58,525 |
| `QualityGuard` | 1 file, 1 blocking text, 2 turns, 3 replies, 1 decision, 1 failure or death, 1 foreign change | `QualityReported` | 79,792 |
| `QueuedWork` | 2 entries, both possibly commands | `QueueServed`, `EscapeSendsHead` | 349,985 |

Each part was also run alone with larger bounds, which a run of five minutes
cannot hold together; all passed: `ProcessDelivery` with 2 prompts (safety only,
1.6 million states); `SessionLog` with 2 rewinds, renames or foreign appends
(783,000); `CandidateFiles` with 2 failures or deaths (551,000) and with 3
candidates of one path (2.6 million); `WorkspaceEditor` with 2 edits (558,000),
with 4 keys (4.9 million), and with a pool of 2 and 4 keys, where the buffer a dialog
was raised for and the active one can part (5.1 million); `QueuedWork` with 3 entries, one of
them possibly a command (3.0 million); `QualityGuard` with 2 files
(247,000 with 2 replies; 890,000 with 3 replies and no foreign change), with 2
decisions and 4 replies (225,000), and with 2 different blocking texts, 5 replies
and 2 decisions (11.3 million).

*Why the bounds are enough.* In `scheduler` three delegations make two waiters of
one key queue behind an owner, and with two plain runs up to three waiters share
the slot queue with the key's next owner, so an abort can hit the head, the
middle and the tail. In `manager` one slot forces waiting and one parent forces
shared handles and a shared key; two crashes are used where a recovery that
crashes matters (`ledger`), where also two slots let two writers be live at once; a claim there names
one path (nested ones overlap), and sets of paths are left to the theorem
`OwnershipExclusive`. In `delivery` two results make batches that grow,
results that arrive in a drain, and a `wait_agent` that takes an entry out of a
batch; two troubles make a delivery fail, be retried and fail again. In `child`
two requests are the smallest queue with a head and a tail, two turns the
smallest loop with a last turn. In `turn` the fourteen responses contain each
pair of free, asked, Agent, process and interactive calls that `planToolRound`
and the permission sequence treat differently; two rounds let a later round
bury an earlier request, two troubles make an interruption followed by a failed
prompt before a restart. In `host` each bound is the
smallest at which the hazard of its part happens: two tasks make a batch that
grows, six records hold a prompt, its reply and a compaction with an append in
between, two candidates make a switch and one fault ends it half way, a pool of
one evicts at every opening, two requests make a late event of the first meet
the second, two entries make a queue with a head to call off and one behind it to
be sent in its place, and two commands one that fails and one that is put back,
three replies make a text be rejected, rewritten and rejected again,
and the single failure or death falls between any two of its records. No bound is ever reached by a counter the code has,
except `maxTurns`, `retryLimit`, `maxConcurrent`, the pool's capacity and the
Guard's two rewrites, which are constants of the code (the socket's `MaxRetries` is
one as well, set lower); the turn loop's limits of 40 rounds and 4 failed rounds in a row are the
nondeterministic `GiveUp`.

*Fairness.* The host's own steps are weakly fair: promises settle, timers fire,
provider rounds and tools answer or time out, file operations complete. Nothing
is assumed of the user (decisions, prompts, `/agents retry`, Escape), of
failures, or of crashes. In `AgentScheduler` a run that holds a lease releases
it; in `AgentManager` and `TurnLoop` this is the runner's, or the turn's, own
progress. In `TurnLoop` a stage at which only a failure is left (an aborted or
thrown round) is left by that failure. In `ProcessDelivery` the debounce timer, the
drain, the steps of a turn and each task's persistence are fair, shell commands
are not. In `ResponsesSocket` the loop's own steps and its three timers (connect,
idle, backoff) are fair; the server and the network are not, so that `RequestSettles`
rests on the timers alone. `SessionLog`, `CandidateFiles`, `WorkspaceEditor`,
`QualityGuard` and `QueuedWork` state safety only and need no fairness.

*What each run shows.* The scheduler serves waiters strictly in order and never
strands one, even when both abort listeners interleave with both handovers. The
manager reports each accepted run exactly once through crashes in any place,
under the condition that recovery's own reads and writes succeed. No result is
left pending unless the session is paused, which the user is told of. An
interrupted child ends even when the user never answers a panel. A tool call
runs at most once through any two interruptions and a restart, an asked call
only behind a durable `allow`, a host process only behind a start record; and
whatever the panel shows after a failure or restart, a decision on it is
accepted. In `host`: the order "append the packet, then mark, then answer" never
lets a completion be marked and lost, except with a turn that took its packet
along; `appendIfHead` keeps a summary or a title from replacing what was said or
named after it was asked for; no sequence of switches, regenerations, failures
and one death saves one candidate's files as another's, or overwrites edits that
are in no manifest; the Guard's records bring back, after a death between any
two of them, each check that was open, except in the cases listed as findings;
no interleaving of saves, dialogs, moves and openings gives up unsaved text
unasked, except in the cases listed; a late, duplicated or misdirected event of
the socket answers no other request; what the user queues is served once and in
order, or given back, through any failure and Escape, and an Escape that ends a prompt,
a delivery or the resolution of a panel sends the entry that led the queue when it was
pressed or none, except where a finding says so. `EscapeSendsOnlyHead`, the same of an
Escape during a regeneration, and `MarksResident` of `MCHost` are in no run, because the
code does not keep them: named in `MCHost.cfg`, each gives the trace of its finding.

## 4. What is proved

Each `*_proof` module extends the module it is about; the theorems hold for every
value of the constants that satisfies the named assumptions. Leaves cite what
they use, and there is one lemma per action.

**DataLemmas** holds what the proofs share: induction over the naturals in the form
"every set that has 0 and with n has n + 1" (an induction theorem of the library
cannot be instantiated here), the greatest and least of some indexes, queues
without duplicates under `Tail`, `Append` and the abort listener's splice, and the
session tree. A recursive function such as `Branch` or `Project` gets its facts in
three steps: a function with its equations exists (`WalkExists`, by induction along
the parents), so the `CHOOSE` behind the definition satisfies them (`BranchSteps`,
`ProjectWithin`), and from there on only the equations are used. `BranchGrows` says
that an append changes no branch the file has. For the queue there are lists of
numbers in order, at each end of which something is put, taken or filtered out.

**AgentScheduler** (in `AgentManager_proof`, on which the manager's part builds; assumptions `MaxConcurrentAssumption`,
`KeyAssumption`, and `RunAssumption`, finitely many runs, which counting the holders
needs). `IInv` is the conjunction of the types, `SlotAccounting`
(`runningCount` is the cardinality of the set of slot holders),
`NoStrandedSlotWaiter` and `NoStrandedKeyWaiter` (a waiter exists only while the
resource is taken), `OnlyDelegatedWaitForKey`, `DelegationMutex` (a key marked
running has exactly one owner) and `QueuesMatchWaiters`. The checked properties
are not inductive without the last: a handover to the head of a queue preserves
the accounting only because the head really waits, and occurs once. The theorems
`SchedulerTypes`, `SlotSafety`, `DelegationSafety`, `QueueSafety` and the action
property `SlotsInOrder` follow from `SchedulerInvariant == Spec => []IInv`.

**PathOwnership** (in `AgentManager_proof`, for the manager's table): a claim of any
set of paths that met no conflict, and a release, keep writers apart, from the
symmetry of the overlap relation (`ClaimExclusive`, `ReleaseExclusive`). The theorem
about the table alone is `OwnershipExclusive`; the manager's steps use the lemmas.

**AgentManager** (`AgentManager_proof`; the scheduler's assumptions, `ParentAssumption`,
`ModeAssumption`, `DelegationAssumption`, `OwnerAssumption` and `BoundAssumption`).
The inductive invariant contains the scheduler's, which is why the manager extends
it: a runner's position says what lease it holds (`LeaseSafety`), and only a key
owner may be past `acquire`. Around it: a path is owned by a live runner or host
call only (`WriterSafety`); the reports on disk follow from position and metadata,
per mode (`ReportSafety`); an ordinal below `nextOrdinal` is never given again, and
a memoized read is never below what the disk has (`HandleSafety`); recovery's cursor
separates closed files from those still to visit (`RecoverySafety`). `LifecycleSafety`
is the action property `DurableLifecycle`; `LedgerRefinement` proves the initial
condition and the step simulation of `KeepsLedger`, whose fairness stays with TLC.

**ChildRun** (`ChildRun_proof`; assumption `ChildAssumption`): `IInv` adds to types,
panel and completion that a run about to complete has the reply as its last
record (`RepliesLast`; the completion property alone says nothing before the
end), that a round is in flight only within the turn budget (`RoundsInBudget`;
needed for the type of `iteration`), and, for `MessageOrder`, that what the log
shows, what the mailbox holds and what is still to be sent are in this order.
Theorems `ChildTypes`, `PanelSafety`, `CompletionSafety`, `MessageOrder`.

**AgentDelivery** (`AgentDelivery_proof`; assumption `EntryAssumption`): `IInv` is

- `TypeOK` and `TurnShape`: what a turn carries at each stage; a delivery never
  forks, which the next part needs;
- `PacketOnBranch`: a delivery past its input has the packet of its batch on the
  *active* branch, written by it or found there. It holds because the file grows at
  its tail while the delivery holds `busy`;
- `AcksAnswered`: a drain that acknowledges has the answer. The reply of a delivery
  makes it true, `PacketOnBranch` says of which batch; `AppendSafe` says that no
  later record takes it back;
- `PausedAtRest`: a paused session has no drain between listing and delivery;
- `OnePacketPerBatch` itself: `AppendInput` writes only if `PersistedDelivery` finds
  nothing, and the branch it searched is the one it extends.

Theorems `DeliveryInvariant`, `DeliveryTypes`, `OnePacket`, `Acknowledgement` (the
action property `AcknowledgedOnlyWhenConsumed`) and `PausedDeliveries`, the safety
half of `DeliversUntilPaused`.

**TurnLoop** (`TurnLoop_proof`; assumptions `CallAssumption`, `BoundAssumption`). None
of the checked properties is inductive: each speaks of one of log, panel, turn,
conversation or the history of executions, and an action reads the others. `IInv` has

- `LogInOrder`: a record is about calls issued before it, and a call is issued once;
- `CallRecords`: what the records of one call say together (requested before
  resolved, resolved before answered, not both allowed and refused, executed only
  behind its records); `CallsOnce` is a consequence;
- `RedirectsFirst`: before a call is put to the user, the interactive calls beside
  it are answered, so that a restart finds one pending interaction and not two;
- `PanelAgrees`, `RequestsShown`: the panel asks what the log leaves open, and, stale
  requests apart, nothing the log leaves open is missing from it. `DecisionsApply`
  and `PanelSurvives` follow, once `RestoredPanel` is shown to be a function of the
  log alone;
- `Shape`, `Lists`, `WorkAgrees`: what each stage has left to do, without duplicates,
  and how far those calls are. This is what makes an execution the first one;
- `AsksLatest`: an interactive call to be opened belongs to the last response, the
  only one the readers of the log look at;
- `ResolvesPanel`: a continuation resolves a panel that agreed when it began;
- `Conversations`: what the model is shown was issued, and is in the log unless
  synthetic; with it `CalledOffSafety`.

`Only` (`calls.filter`) and `Repaired` (`repairProviderHistory`) are recursive
functions; their properties (`OnlyProperties`, `RepairProperties`) are proved by the
same three steps as the session tree's. Theorems `TurnInvariant`, `TurnTypes`,
`CallsOnce`, `DecisionsApply`, and the action properties `CalledOffSafety` and
`PanelSurvives`.

`OtherRequestsPaired` is about the order of the messages, of which `IInv` says
nothing. A second invariant, `PairInv`, is proved on top of `IInv`, action by action:

- `LogPairs`: in the log, the only result of a call comes before the next response;
  stale calls and gates answered twice apart;
- `Pairs(messages, pending)`, for the conversation, the panel, the turn and the panel it
  resolves: each call is settled (unmentioned, or answered once before the next
  response), open and to be answered (`pending`: what waits in the panel or is left
  of the turn's work), or one of the exceptions `Excused` names;
- `OfLatest`: the pending calls belong to the last response, so their results, too, land
  in front of the next one;
- `TurnInOrder`: a turn that has thrown asks no provider any more (the one turn whose
  messages have open calls nobody will answer), and Agent calls wait behind an Agent
  call only.

A repair of the log is where the pairs come from after a failure. `Stands` says where
the log issues a call and where its repair settles it: at its result, right behind
its issuer, or nowhere if it is preserved; `RepairPlaces` proves by induction along
the log that the repair puts it there, and `RepairPairs` draws the conclusions. That
the preserved calls are exceptions or before the user is what `RequestsShown`,
`RestoresOne` and `ReopenedAgrees` provide. Theorems `PairInvariant` and
`PairingSafety`.

The parts of `MCHost` move one at a time, so that each has an invariant of its own,
proved for the steps of that part, under `part = ...`; the steps of other parts leave
its variables alone. The theorems are about the module the run checks.

**CandidateFiles** (`Host_proof`; assumption `CandidateAssumption`: "no candidate" is
none of them). `FilesInv` is types, what each operation carries (`Operation`), and

- `OneOpen`: unless a marker failed to be written, at most one answer's manifest may
  still change, and that answer owns the disk and leads the session;
- `OpenAtDeparture`: unless the process died, what the next departure would capture
  owns the disk. Together they make `ManifestsBelong` inductive: a capture writes
  the disk into the manifest of the answer whose disk it is;
- `Departed`, `Returned`: what a switch or a regeneration leaves has its manifest by
  then, so nothing is captured after the files are overwritten;
- `WorkSaved`: while nothing has lapsed, the work of the answer that leads the session
  is on disk, in its manifest, or marked as degraded.

`OneOpen` is excused by a marker that failed, `OpenAtDeparture` by a death, and
`ManifestsBelong` therefore only by both; `WorkSaved` by any lapse. Theorem
`CandidateFilesSafety`.

**ResponsesSocket** (`Host_proof`). `SocketInv` says what is under way at each position
of the request (`Attempt`): a receiving request has the only message its connection
still has to answer; and that the response a session would continue was completed
by its current connection, which is open or has lost its peer with a close event
still to come (`Chained`). The first is why a late event finds no listener but its own
request's, the second why a message continues only what its server has seen.
Theorem `ExchangeSafety`.

**WorkspaceEditor** (`Host_proof`). `EditsSafe` says what a step may do to a text or a
file; `EditorInv` is what has to hold before the step for that:

- `MarkedDirty`: a buffer that differs from its snapshot is marked dirty, or is one the
  user gave up or a listed race has reached (`Given`). The pool evicts clean buffers
  only, and reconciliation after the external editor touches only those handed out
  clean (`HandedClean`);
- `SavesText`: a save under way writes the text its buffer shows, so that the snapshot
  it leaves behind is that text; `SavedTwice` says so of two saves onto one path, the
  second of which would otherwise replace the first one's text;
- `Consented`: a reload, a deletion, a move onto an open buffer and a confirmed save-as
  were put to the user, who gave up the buffer they replace;
- `UnseenDiffers`, `UnseenSpared`: a version nobody here has read has another stamp than
  its buffer knows, so a save's comparison catches it; from the comparison to the write
  only a change during the save itself (`unseen` excludes it) can come between, and
  likewise before an agreed removal of a move's target. Behind both is that a stamp is never above the clock (`EditorTypes`);
- `WorkFits`, `OthersFit`, `DialogFits`, `PoolAgrees`: what each piece of work and each
  question carries, and that the pool's tables agree, the marks for changes on disk
  apart, which a check sets without a look at them (`MarksResident`, a finding).

Theorem `EditingSafety`. The attempt corrected the model twice: the property took the
text to be kept from the *next* state, so that a resident buffer overwritten by a
save-as or a move passed; and once it did not, the two findings named last under
*Editor* came to light.

**ProcessDelivery** (`Session_proof`). `ShellInv` is `ShellTold` with the types, the shape of
turns and drains, and `ShellFlags` (a task's file is never ahead of it, so that a
crash may take flags back and sets none). `ShellTold`
says where a notified completion is: in the history the file projects, answered,
excepted, or in the request of the turn that runs; that a boundary's marks and a
delivery's batch are drawn from there; and that a prompt under way has lost nothing
its parent showed. The steps rest on what one append does to the projection of the
file: records of one kind add themselves, others change nothing, a failed-turn marker
takes the trailing input along. `NoCompletionLost` alone says nothing while a turn
runs, which is when flags are set. Theorem `CompletionSafety`.

**SessionLog** (`Session_proof`). For each head of the file, `TextShown` is what its history
holds, the messages a summary covers included, and `SaidOn` what was said on its
branch. `Wholesome` says that at every head the former contains the latter. It is kept because `TextAppends` computes both
sets after one append from those of its parent, and a checkpoint is appended only at
the head it was made from (`appendIfHead`), whose history it covers
(`TalkShows`). `TitlesStand` holds because a generated title is published only at the
head at which no title of the user's was found (`TalkTitles`). Memory equals the
history of the next parent, unless another process wrote or a boundary waits for its
summary (`TalkShows`). Theorem `HistorySafety`.

**QueuedWork** (`Queue_proof`). None of the three parts of `QueueServed` is inductive. In
`QueueInv` every entry has one place (waiting, in the hands of a turn, recorded or
started, in the prompt history; `Kept`), and places agree with the order of entry
(`Waiting`, `Recorded`, `Started`): what still waits was entered after everything of
its kind that left the queue before it. Hence a failed command's successors
can be put back in front, and a recall can take the last entry. Messages and
commands are ordered separately, because a tool boundary takes commands past
messages. `Remembered` says the same of the log as it was before a regeneration, to which
that goes back when it ends without a result. `Taken` says that what a turn ended in
`handleInterruption` released is the queue whose head was `asked` for at Escape, for a
conversation read from the log. Theorems `QueueSafety` and, for the action property,
`EscapeSafety`. The latter speaks of Escape in prompts, deliveries and resolutions,
with regenerations before and after; of a regeneration that Escape ends it is false.

## 5. Findings

Disagreements between the code and what the repository says of it, met while
modelling. The first five have a run whose counterexample is the scenario, the next
two a refuted property (`EscapeSendsOnlyHead`, `MarksResident`).

- *A failed first round leaves its prompt in the history* (`delivery_alternation`).
  `markFailedUserTurn` looks for a user record at the tail, but the checkpoint's
  snapshot record is there. `history-projector.ts` promises that consecutive user
  messages are not sent.
- *An acknowledged result can leave the active branch* (`delivery_history`). A prompt
  interrupted before any response is rewound by remembering its parent; a
  delivery in between is then forked away by the next prompt.
- *An accepted message can be dropped* (`child_mailbox`). `sendMessage` accepts until
  the terminal save, later than the runner's last look into the mailbox; also in
  the last permitted iteration and across a delegation retry.
- *A decided gate comes back* (`gate_replay`). Its answer is durable before the next
  round starts, but a failure or Escape in that round restores the panel
  without a look into the log, and a second decision appends a second answer.
  The permission and question controllers do look. The engine-switch controller
  behaves like the gate's unless the switch was already applied.
- *Two interactive calls are preserved, one is shown* (`turn_pairing`), after a death
  between the assistant record and the redirect of the second.
- *After Escape in a regeneration the queue moves by itself* (`EscapeSendsOnlyHead`). The
  interrupted `regenerateTurn` reloads the conversation, but neither blocks the queue
  nor consumes the takeover, so what the last reply released stays released, and
  whatever leads the queue by then is sent: an entry added after Escape, or the one
  behind a recalled head. `COMMAND_QUEUE.md:64` says that a recalled, consumed or
  replaced head cancels the takeover "instead of substituting another queued item". An
  Escape in a `/compact` or `/init` that the user typed leaves the queue as it was, too.
- *A closed buffer keeps its mark* (`MarksResident`). `checkExternalModifications` replaces
  the marks at its end without asking which buffers are still there; the comment at
  `buffer-owner.ts:213` says that a closed path leaves every pool set.
- *An interactive call of a later round is preserved and not shown* when a
  continuation fails in that round before the call is opened.
- *A permission request left open by a takeover* is shown by a later restart and can
  be executed after the model was told it was interrupted.
- *`wait_agent` acknowledges before its result is recorded*; a crash between loses it.
- *`submitPrompt` tests `busy`, awaits, then takes it*, on a host's first prompt.

The cases of `gate_replay` and `turn_pairing`, the interactive call of a later round and
the permission request left open by a takeover are exactly what
`OtherRequestsPaired`, `CalledOffStaysOff` and `PanelSurvivesRestart` exclude
(`Redecided`, `Unshown`, `stale`); before the first failure, interruption or
restart nothing is excluded from pairing.

From the parts of `host`; where a property excludes the case, the name of the
exception is given.

*Shell completions* (`ProcessDelivery`)
- *A completion falls with a failed turn* (`orphaned`): appended inside a prompt's turn
  that fails, it is dropped from the history, but stays marked as notified.
  `history-projector.ts:98` says such results are re-drained. The same happens to a
  packet an earlier turn left at the tail of the failed one's input, and to one that
  a prompt leaves behind when it forks from before it.
- *A completion is appended twice* at a boundary that owes both a new one and one
  whose packet had dropped out, although only "the uncovered complement" may be.
- *One failed state write blocks all later ones*, because `persistTail` has no catch.

*Session log, compaction, titles* (`SessionLog`)
- *`/compact` at a rewind point* summarises the branch of the physical tail.
- *Summarize from a point writes twice* (`DanglingBoundary`); a death in between hides
  the messages above the boundary.
- *A dead process's lock file* makes every later append of the session fail.
- *A title attempt is lost* when its `appendIfHead` fails.

*Candidate files* (`CandidateFiles`)
- *A failed restore* leaves the target's degraded marker as the last record, so the
  next start opens the target over the source's files (`lapsed`).
- *A death after the restored baseline*, or a baseline that fails, leaves the bundle as
  the latest event; edits made then are not captured (`lapsed`).

*Editor* (`WorkspaceEditor`)
- *Leaving the page drops unsaved text* without a question: textareas come back with
  the text their buffers were admitted with (`used.switches` in `EditsKept`).
- *Text typed during a save's write is marked clean* (`raced`).
- *Saving a buffer as its own path* skips the comparison with the disk.
- *A dialog acts on the buffer active when it is confirmed*, which a slow opening can
  have changed (`Misdirected`), and a save that closes drops the buffer active at
  its end, with whatever that holds unsaved (`ClosesAnother`).
- *Save-as and move ask nothing for a buffer whose file is gone* (`Unasked`, `Move`):
  both look at the disk alone, so an open buffer with edits whose file was removed
  is written over and closed. `docs/user/en/tutorials/workspace-page.md:44` says that
  overwrites always ask.

*Responses socket* (`ResponsesSocket`)
- *A continuation prepared on a closing socket* goes out on a new connection.
- *A downgrade to HTTP can still make a second attempt.*

*Quality guard* (`QualityGuard`)
- *An open check is forgotten* after a failed, interrupted or given-up prompt turn: no
  panel, fresh state, and the next clean reply's "pass" event closes it (`excused`).
- *A warning that asks again* after one of its targets was resolved, or after it was
  cleared, is on screen but not found in the file (`AskedAnew`).
- *A blocked target is recorded as revised-clean* when nothing new is unreadable.
- *A permission inside a retry drops the warning id* (`forgotten`), so the same decision
  is asked under two ids.
- *Answers that name too little* (`excused`): stopping an interrupted rewrite warns
  about the last event's targets only; answering a decision drops the check of a
  file that an earlier, failed retry wrote.
- *A failed write before a good one* in the first round ends the pending check.
- *The no-progress break of a retry* hides its open decision (`forgotten`).

*Queue* (`QueuedWork`)
- *The end of a queued command releases the queue* (`ready = "command"`), whatever became
  of the turn it awaited: after `/skill` from the queue, an Escape or a failed turn
  is followed by the next entry, against the same `COMMAND_QUEUE.md:64`.
- *Escape before the first response overwrites the draft*: the rewind puts the prompt
  into the composer before `turn-controller.ts:531` tests whether that is empty.
- *It may rewind an earlier turn*: the prompt is looked up by its text, so one aborted
  before it is recorded matches an earlier prompt of the same text (not in the model,
  whose texts differ).
- *A prompt or a dequeued message is lost* (`Refuse`) if the provider configuration or the
  permission settings cannot be loaded: `submitPrompt` returns and does not reject.
- *A retryable failure, or a finished `/compact`, overwrites a draft* typed meanwhile.

Smaller observations, not stated as properties: a rejected ordinal read stays
memoized in `handle-allocator.ts` until the host restarts; one unreadable
metadata file makes every `recoverInterrupted` pass fail at that file; a second
host over the same directory takes the first one's runs for interrupted;
`recordPolicyApprovedHostProcessStart` swallows a failed append as well as bad
arguments; a late "delivered" event can reopen an acknowledged inbox entry, so
that a result is integrated twice; allowed Agent calls that wait for the rest of
their batch are dropped, with a synthetic result, by a restart; inputs injected
just before the stop after four failed rounds stay unanswered; a queued message
taken at a tool boundary is left to the prompt history if its injection fails
(`turn-loop.ts:524-546`); messages queued during a `/compact` the user typed go
out at its end only if the queue was released before; accepting or stopping after a failed retry appends the same
candidate again.

## 6. What is only model-checked, and what is not modelled

Only model-checked: of `host`, the types, which contain those of the Guard's folds over
lists, and `QualityReported`, whose three readers of the log are recursions over
records that are not a tree; and every liveness property (`AcquireSettles`, the ledger's
fairness, the second half of `DeliversUntilPaused`, `InterruptedRunEnds`,
`TurnSettles`, `EveryCompletionTold`, `RequestSettles`): liveness under fairness and
`ENABLED` are beyond the proof system's installed provers.

Abstractions a reader should know of:

- contents are left out: message texts, arguments, token counts, file contents,
  the reasons of a denial; a tool call returns or throws, a provider answers
  with some set of calls, none, or fails;
- file appends in `AgentDelivery`, `TurnLoop`, `ProcessDelivery` and `QualityGuard` succeed;
  in `AgentManager`, `SessionLog` and `CandidateFiles` they can fail; files are never
  torn;
- `TurnLoop` drops user records and the failed-turn marker (they are in
  `AgentDelivery`), engine switches, delegation and quality decisions,
  compaction, and queued inputs; a prompt interrupted before any response is
  rewound in `AgentDelivery`, while `TurnLoop` only rebuilds its conversation;
- calls have distinct ids across responses;
- one parent session, one host process (`SessionLog` has a second one that appends);
- in the runs `SessionLog` makes one title, so a second attempt claimed behind the first
  does not occur there, and the completion records of background processes are in
  `ProcessDelivery` only;
- `SessionLog` and `ProcessDelivery` each have their own turns over the same tree: a
  failed turn's marker is in the delivery modules, compaction in `SessionLog`;
- `CandidateFiles` has the candidates of one fork without later turns below them, and
  the user edits files only between operations;
- in `WorkspaceEditor` a content is a number never used before, so equal content by
  coincidence does not occur, except by undo to the snapshot; the tree view, search
  and recovery copies are left out. Leaving the page and coming back to it is one step,
  but the check that the return starts is not: work in flight does not move while Chat
  is shown, and the buffers it is about count as `raced`;
- `QueuedWork` has the queue's side of turns and commands: a turn runs rounds, asks,
  ends or fails in any order; a command awaits something, holds `busy`, switches the
  session (in one step) or submits a prompt; pickers, images and the double press of
  Escape are left out, and entries have different texts. `regenerateTurn` tests that the
  host is idle, awaits configuration and prompts, and takes `busy` in one step
  (`submitPrompt` likewise; see the findings); it regenerates a prompt of the projected
  history, not one whose turn failed and dropped out of it. Switching between candidates
  (`turn-controller.ts:678-829`; its files are in `CandidateFiles`) and summarize from a
  point (in `SessionLog`) are left out here;
- in `ResponsesSocket` one request runs at a time, as the session's `busy` flag has it;
- in `QualityGuard` the semantic judge is off, rules and Harness identity do not
  change, a permission asked in a round is granted at once, and what a target was
  named by in an older session format is left out; the judge would only add
  findings and one more reason for a warning.

Not modelled: the components with status `not_modelled` in `PROJECT.json`, each with
its reason. Permission policy, profiles, skills and harness packages, prompts,
tools, rule loading, detectors and the command line are data or sequential I/O:
they have no state that two actors share or that a crash could split, and a model
of a parser or a scorer would repeat its text. Views and key handling are left out
except where they change state that others read. What has state worth modelling
and is not modelled yet is in the plan.

## 7. Plan

Done and proved: `AgentScheduler`, `PathOwnership`, `AgentManager` with `AgentLedger`,
`ChildRun`, `AgentDelivery`, `TurnLoop`, `CandidateFiles`, `ResponsesSocket`, `QueuedWork`,
`ProcessDelivery`, `SessionLog`, `WorkspaceEditor`. Done and model-checked: `QualityGuard`.

Modules still to write, in order:

1. Engine switches and delegation decisions inside `TurnLoop`, and the compaction
   inside a turn as one more step of `GoOn`.
2. `/rewind` with files, and the pruning of backups, beside `CandidateFiles`.
3. `McpConnection`: reconnects shared by concurrent calls, and a registry that is
   replaced while calls run.
4. Skill activation, once per skill, under its lock.
5. The HTTP retry barrier of the other providers: no retry after output was shown.

Theorems left, in order of worth: `QualityReported`; the types of `MCHost`.
