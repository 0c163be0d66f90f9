--------------------------- MODULE CandidateFiles ---------------------------
(***************************************************************************)
(* The files of regenerated answers.  A turn regenerated several times has *)
(* several candidates in the session tree but one directory on disk, so    *)
(* leaving a candidate saves a manifest of the whole project and entering  *)
(* one restores its manifest, path by path.  What a later departure may    *)
(* save is decided by the latest file event of the candidate in the        *)
(* append-only log: a bundle, a restored marker or a degraded marker.      *)
(*                                                                         *)
(* The candidates are those of one fork, without later turns below them.   *)
(* A file's content is a stamp, 0 being what the fork turn found.  The     *)
(* user edits files only while no operation runs.  Checkpointing stays     *)
(* enabled.                                                                *)
(***************************************************************************)
EXTENDS Naturals, FiniteSets, SequencesExt, TLC

CONSTANTS Candidate, NoCandidate, Path, MaxStamp, MaxFaults   \* bounds: contents; failures and deaths together

VARIABLES
  disk,      \* the content of every path
  created,   \* the candidates with an assistant record, in creation order
  anchored,  \* those whose turn has a checkpoint ledger on its branch
  pre,       \* that ledger: what the turn's first write found at each path
  event,     \* the latest file event of each candidate
  bundle,    \* its latest manifest
  tail,      \* the candidate the last record of the log belongs to
  selected,  \* the latest selection marker
  armed,     \* the candidate the inline switcher takes for the active one
  op,        \* the regenerate or switch under way
  owner,     \* history: whose work the disk holds, NoCandidate for nobody's
  savedFrom, \* history: the owner when each manifest was taken
  lapsed,    \* history: what came between the files and their markers
  stamp, faults

vars == <<disk, created, anchored, pre, event, bundle, tail, selected, armed, op, owner,
          savedFrom, lapsed, stamp, faults>>
turns == <<created, anchored, pre>>
files == <<event, bundle, savedFrom>>
bounds == <<stamp, faults>>

NoManifest == <<>>
Kinds == {"idle", "chosen", "apply", "baseline", "run", "undo", "select"}
Idle == [kind |-> "idle", from |-> NoCandidate, to |-> NoCandidate, todo |-> {}, undoing |-> FALSE]
Created == ToSet(created)
Is(kinds) == op.kind \in kinds

\* One candidate exists: the fork turn has run and written some files.
Init ==
  \E first \in Candidate, ledger \in BOOLEAN, written \in (SUBSET Path) \ {{}} :
    /\ disk = [p \in Path |-> IF p \in written THEN 1 ELSE 0]
    /\ created = <<first>>
    /\ anchored = IF ledger THEN {first} ELSE {}
    /\ pre = [c \in Candidate |-> IF ledger /\ c = first THEN [p \in written |-> 0] ELSE <<>>]
    /\ event = [c \in Candidate |-> "none"]
    /\ bundle = [c \in Candidate |-> NoManifest]
    /\ tail = first /\ selected = NoCandidate /\ armed = NoCandidate /\ op = Idle
    /\ owner = first /\ savedFrom = [c \in Candidate |-> NoCandidate]
    /\ lapsed = {} /\ stamp = 1 /\ faults = 0

-----------------------------------------------------------------------------
\* Mutants of MayCapture: a manifest is taken once and never superseded; a
\* degraded candidate is saved when it is left.
MayCaptureOnce(c) == c \in anchored /\ event[c] = "none"
MayCaptureDegraded(c) == c \in anchored /\ event[c] # "bundle"

\* Leaving c takes a manifest: not after one that nothing superseded, not while
\* c is degraded, not without the turn's ledger.
MayCapture(c) == c \in anchored /\ event[c] \in {"none", "restored"}

SaveManifest(c) ==
  /\ bundle' = [bundle EXCEPT ![c] = disk]
  /\ event' = [event EXCEPT ![c] = "bundle"]
  /\ savedFrom' = [savedFrom EXCEPT ![c] = owner]

Capture(c) ==
  IF c # NoCandidate /\ MayCapture(c)
    THEN SaveManifest(c) /\ tail' = c
    ELSE UNCHANGED <<files, tail>>

\* What the earliest candidate that wrote a path found there.
Baseline ==
  LET Writers(p) == SelectSeq(created, LAMBDA c : p \in DOMAIN pre[c])
  IN  [p \in {q \in Path : Writers(q) # <<>>} |-> pre[Writers(p)[1]][p]]

Target == IF Is({"baseline"}) THEN Baseline ELSE bundle[op.to]

\* One path; a death can come between two.
RestorePath(p) ==
  /\ Is({"apply", "baseline", "undo"}) /\ p \in op.todo
  /\ disk' = [disk EXCEPT ![p] = Target[p]]
  /\ op' = [op EXCEPT !.todo = @ \ {p}]
  /\ owner' = IF owner = op.to THEN owner ELSE NoCandidate
  /\ UNCHANGED <<turns, files, tail, selected, armed, lapsed, bounds>>

-----------------------------------------------------------------------------
\* Switching.

\* By the inline switcher, which remembers where it is, or by the panel, which
\* asks the log.
StartSwitch(from, to) ==
  /\ Is({"idle"}) /\ to \in Created \ {from}
  /\ from = tail \/ (from = armed /\ armed # NoCandidate)
  /\ Capture(from)
  /\ op' = [Idle EXCEPT !.kind = "chosen", !.from = from, !.to = to]
  /\ UNCHANGED <<disk, turns, selected, armed, owner, lapsed, bounds>>

\* Without a manifest only the conversation moves.
SwitchWithoutFiles ==
  /\ Is({"chosen"}) /\ bundle[op.to] = NoManifest
  /\ event' = [event EXCEPT ![op.to] = "degraded"]
  /\ tail' = op.to /\ op' = [op EXCEPT !.kind = "select"]
  /\ UNCHANGED <<disk, turns, bundle, savedFrom, selected, armed, owner, lapsed, bounds>>

StartApply ==
  /\ Is({"chosen"}) /\ bundle[op.to] # NoManifest
  /\ op' = [op EXCEPT !.kind = "apply", !.todo = Path]
  /\ UNCHANGED <<disk, turns, files, tail, selected, armed, owner, lapsed, bounds>>

ApplyDone ==
  /\ Is({"apply", "undo"}) /\ op.todo = {}
  /\ event' = [event EXCEPT ![op.to] = "restored"]
  /\ tail' = op.to /\ owner' = op.to /\ op' = [op EXCEPT !.kind = "select"]
  /\ UNCHANGED <<disk, turns, bundle, savedFrom, selected, armed, lapsed, bounds>>

\* Both candidates lose the disk.  The target's marker is the last record, so
\* the log's default branch is now the target's, whatever the screen shows.
ApplyFails ==
  /\ Is({"apply"}) /\ faults < MaxFaults
  /\ event' = [c \in Candidate |-> IF c \in {op.from, op.to} THEN "degraded" ELSE event[c]]
  /\ tail' = op.to /\ faults' = faults + 1
  /\ op' = IF op.undoing THEN [op EXCEPT !.kind = "select"] ELSE Idle
  /\ UNCHANGED <<disk, turns, bundle, savedFrom, selected, armed, owner, lapsed, stamp>>

\* The switcher is armed again by a switch and by a completed regenerate.
Select ==
  /\ Is({"select"})
  /\ tail' = op.to /\ selected' = op.to /\ op' = Idle
  /\ armed' = IF op.undoing \/ Len(created) < 2 THEN armed ELSE op.to
  /\ UNCHANGED <<disk, turns, files, owner, lapsed, bounds>>

SelectFails ==
  /\ Is({"select"}) /\ faults < MaxFaults
  /\ op' = Idle /\ lapsed' = lapsed \cup {"marker"} /\ faults' = faults + 1
  /\ UNCHANGED <<disk, turns, files, tail, selected, armed, owner, stamp>>

-----------------------------------------------------------------------------
\* Regenerating the fork turn.

\* A candidate that could not be saved keeps its files: the new one runs on them.
StartRegenerate(new) ==
  /\ Is({"idle"}) /\ new \notin Created
  /\ Capture(tail) /\ armed' = NoCandidate
  /\ LET saved == tail # NoCandidate /\ event'[tail] = "bundle"
     IN  op' = [Idle EXCEPT !.kind = "baseline", !.from = tail, !.to = new,
                            !.todo = IF saved THEN DOMAIN Baseline ELSE {}]
  /\ UNCHANGED <<disk, turns, selected, owner, lapsed, bounds>>

\* Thrown outside the try of regenerateTurn: nothing is put back or marked.
BaselineFails ==
  /\ Is({"baseline"}) /\ op.todo # {} /\ faults < MaxFaults
  /\ op' = Idle /\ lapsed' = lapsed \cup {"files"} /\ faults' = faults + 1
  /\ UNCHANGED <<disk, turns, files, tail, selected, armed, owner, stamp>>

\* The snapshot record hangs off the user's prompt: no candidate is active.
StartRun ==
  /\ Is({"baseline"}) /\ op.todo = {}
  /\ op' = [op EXCEPT !.kind = "run"] /\ tail' = NoCandidate
  /\ anchored' = anchored \cup {op.to}
  /\ UNCHANGED <<disk, created, pre, files, selected, armed, owner, lapsed, bounds>>

Answer ==
  /\ Is({"run"}) /\ op.to \notin Created
  /\ created' = Append(created, op.to) /\ tail' = op.to /\ owner' = op.to
  /\ UNCHANGED <<disk, anchored, pre, files, selected, armed, op, lapsed, bounds>>

Write(p) ==
  /\ Is({"run"}) /\ op.to \in Created /\ stamp < MaxStamp
  /\ pre' = [pre EXCEPT ![op.to] = IF p \in DOMAIN @ THEN @ ELSE @ @@ (p :> disk[p])]
  /\ disk' = [disk EXCEPT ![p] = stamp + 1] /\ stamp' = stamp + 1
  /\ UNCHANGED <<created, anchored, files, tail, selected, armed, op, owner, lapsed, faults>>

RunCompletes ==
  /\ Is({"run"}) /\ op.to \in Created
  /\ op' = [op EXCEPT !.kind = "select"]
  /\ UNCHANGED <<disk, turns, files, tail, selected, armed, owner, lapsed, bounds>>

\* Failed or interrupted after a record of its own: a switch back.
RunFailsAnswered ==
  /\ Is({"run"}) /\ op.to \in Created /\ faults < MaxFaults
  /\ faults' = faults + 1
  /\ IF op.from # NoCandidate
       THEN /\ Capture(op.to)
            /\ op' = [Idle EXCEPT !.kind = "chosen", !.from = op.to, !.to = op.from, !.undoing = TRUE]
       ELSE /\ SaveManifest(op.to) /\ tail' = NoCandidate /\ op' = Idle
  /\ UNCHANGED <<disk, turns, selected, armed, owner, lapsed, stamp>>

\* Before it: the old candidate's manifest, if it has an authoritative one.
RunFailsUnanswered ==
  /\ Is({"run"}) /\ op.to \notin Created /\ faults < MaxFaults
  /\ Capture(op.from) /\ faults' = faults + 1
  /\ LET back == [Idle EXCEPT !.from = op.to, !.to = op.from, !.undoing = TRUE]
     IN  op' = CASE op.from = NoCandidate -> Idle
                 [] op.from # NoCandidate /\ event'[op.from] = "bundle"
                      -> [back EXCEPT !.kind = "undo", !.todo = Path]
                 [] OTHER -> [back EXCEPT !.kind = "select"]
  /\ UNCHANGED <<disk, turns, selected, armed, owner, lapsed, stamp>>

\* Swallowed, and not marked.
UndoFails ==
  /\ Is({"undo"}) /\ faults < MaxFaults
  /\ op' = [op EXCEPT !.kind = "select"] /\ lapsed' = lapsed \cup {"files"} /\ faults' = faults + 1
  /\ UNCHANGED <<disk, turns, files, tail, selected, armed, owner, stamp>>

-----------------------------------------------------------------------------
\* The user edits a file, or an external program does.
Edit(p) ==
  /\ Is({"idle"}) /\ stamp < MaxStamp
  /\ disk' = [disk EXCEPT ![p] = stamp + 1] /\ stamp' = stamp + 1
  /\ UNCHANGED <<turns, files, tail, selected, armed, op, owner, lapsed, faults>>

\* A death and the next start, which arms the switcher from the log (at any
\* candidate, here, when the branch ends above them all).
Crash ==
  /\ faults < MaxFaults /\ faults' = faults + 1
  /\ op' = Idle
  /\ lapsed' = IF Is({"idle", "run", "select"}) /\ tail # NoCandidate
                 THEN lapsed ELSE lapsed \cup {"death"}
  /\ armed' \in CASE Len(created) < 2 \/ selected = NoCandidate -> {NoCandidate}
                   [] tail # NoCandidate -> {tail}
                   [] OTHER -> Created
  /\ UNCHANGED <<disk, turns, files, tail, selected, owner, stamp>>

Next ==
  \/ \E p \in Path : RestorePath(p) \/ Write(p) \/ Edit(p)
  \/ \E from \in Candidate \cup {NoCandidate}, to \in Candidate : StartSwitch(from, to)
  \/ \E new \in Candidate : StartRegenerate(new)
  \/ SwitchWithoutFiles \/ StartApply \/ ApplyDone \/ ApplyFails \/ Select \/ SelectFails
  \/ BaselineFails \/ StartRun \/ Answer \/ RunCompletes \/ RunFailsAnswered
  \/ RunFailsUnanswered \/ UndoFails \/ Crash

Spec == Init /\ [][Next]_vars

-----------------------------------------------------------------------------
\* Every variable has its type; the ledger speaks of anchored candidates only.
TypeOK ==
  /\ disk \in [Path -> 0..MaxStamp] /\ stamp \in 1..MaxStamp
  /\ Created \subseteq Candidate /\ Cardinality(Created) = Len(created)
  /\ anchored \subseteq Candidate
  /\ \A c \in Candidate : DOMAIN pre[c] \subseteq (IF c \in anchored THEN Path ELSE {})
  /\ event \in [Candidate -> {"none", "bundle", "degraded", "restored"}]
  /\ \A c \in Candidate : bundle[c] \in [Path -> 0..MaxStamp] \cup {NoManifest}
  /\ {tail, selected, armed, owner} \subseteq Candidate \cup {NoCandidate}
  /\ lapsed \subseteq {"marker", "files", "death"}
  /\ op.kind \in Kinds /\ op.todo \subseteq Path
  /\ faults \in 0..MaxFaults

\* A manifest holds the files of its own candidate: after switches without
\* files, half-restored disks, failed regenerates and deaths, no departure
\* freezes another candidate's files, or a mixture, as this one's
\* (latestCandidateFileEvent decides; no file is compared).  It takes two
\* faults to break it, so it is stated without them: a selection marker that
\* is not written leaves the switcher at the departed candidate, and a death in
\* the middle of its next switch then leaves "restored" on mixed files.
ManifestsBelong ==
  ~({"marker", "death"} \subseteq lapsed) =>
  \A c \in Candidate : bundle[c] # NoManifest => savedFrom[c] = c

\* When a switch or a regenerate overwrites its first file, what the disk holds
\* for its owner is in the owner's manifest, edits made since the last restore
\* included.  Excepted are candidates that may not be saved (degraded, or
\* without a ledger), a branch that ends above every candidate, and a disk
\* whose last operation ended between files and marker.
SavedBeforeOverwritten ==
  /\ Is({"apply", "baseline", "undo"}) /\ op.todo # {} /\ lapsed = {}
  /\ op.from \in Candidate /\ event[op.from] # "degraded"
  /\ owner \in anchored
  => bundle[owner] = disk

=============================================================================
