------------------------------ MODULE Host_proof ------------------------------
(***************************************************************************)
(* Three parts of the host are safe for every set of candidates, paths and *)
(* connections and every bound.                                            *)
(*                                                                         *)
(* The files of regenerated answers: at most one answer's manifest may     *)
(* still be written, that answer owns the files on disk, and a switch      *)
(* writes it before it overwrites them (FilesInv).                         *)
(*                                                                         *)
(* The Responses WebSocket: a connection has at most the message under way *)
(* to answer, and the response a session would continue is one its         *)
(* connection completed (SocketInv).                                       *)
(*                                                                         *)
(* The Workspace page's editor: what is unsaved is marked dirty, a save    *)
(* under way writes what its buffer shows, and work that replaces a buffer *)
(* or a foreign version was agreed to (EditorInv).                         *)
(*                                                                         *)
(* The parts move one at a time, so the invariant of each is proved for    *)
(* the steps of its part; the other steps leave its variables alone.       *)
(***************************************************************************)
EXTENDS MCHost, DataLemmas

-----------------------------------------------------------------------------
(* Candidate files: the inductive invariant.                                 *)

\* The operations on files, and what each of them carries.
FileKinds == {"idle", "chosen", "apply", "baseline", "run", "undo", "select"}
FileOps == [kind : FileKinds, from : Candidate \cup {NoCandidate}, to : Candidate \cup {NoCandidate},
            todo : SUBSET Path, undoing : BOOLEAN]

\* The answers that exist, and none.
Known == Files!Created \cup {NoCandidate}

\* The manifest of answer c may still be written.
Opened(c) == c \in Files!Created /\ Files!MayCapture(c)

\* Types of the files' variables; the disk and the manifests have a value for
\* every path and answer.
FileTypes ==
  /\ fCreated \in Seq(Candidate) /\ fCreated # <<>> /\ fAnchored \subseteq Candidate
  /\ fDisk = [p \in Path |-> fDisk[p]]
  /\ fEvent \in [Candidate -> {"none", "bundle", "degraded", "restored"}]
  /\ fBundle = [c \in Candidate |-> fBundle[c]]
  /\ fSavedFrom = [c \in Candidate |-> fSavedFrom[c]]
  /\ fOp \in FileOps
  /\ fTail \in Known /\ fArmed \in Known /\ fOwner \in Known

\* What each operation carries: a switch goes between existing answers, a
\* regeneration leaves the tail for one that does not exist yet and is
\* anchored, an undo returns from a regeneration that never answered.
Operation ==
  /\ Files!Is({"chosen", "apply", "undo", "select"}) => fOp.to \in Files!Created
  /\ Files!Is({"chosen", "apply"}) => fOp.from \in Known
  /\ Files!Is({"baseline"}) => fOp.from = fTail /\ fOp.to \in Candidate \ Files!Created
  /\ Files!Is({"baseline"}) /\ fOp.todo # {} => fOp.from \in Candidate /\ fEvent[fOp.from] = "bundle"
  /\ Files!Is({"run"}) => fOp.to \in fAnchored /\ fOp.from \in Known \ {fOp.to} 
  /\ Files!Is({"run"}) => fTail = IF fOp.to \in Files!Created THEN fOp.to ELSE NoCandidate
  /\ Files!Is({"run"}) /\ fOp.to \in Files!Created => fOwner = fOp.to /\ fEvent[fOp.to] = "none"
  /\ Files!Is({"undo"}) => fOp.undoing /\ fOp.from \notin Files!Created /\ fTail = NoCandidate
  /\ Files!Is({"select"}) => fTail \in {fOp.to, NoCandidate}
  /\ Files!Is({"baseline", "run"}) => ~fOp.undoing
  /\ fOp.undoing \/ Files!Is({"baseline", "run"}) => fArmed = NoCandidate

\* An answer that does not exist has no file event and no manifest.
Untouched == \A c \in Candidate \ Files!Created : fEvent[c] = "none" /\ fBundle[c] = Files!NoManifest

\* What a switch or a regeneration leaves has its manifest by then.
Departed ==
  (Files!Is({"chosen", "apply", "baseline"}) \/ (Files!Is({"run"}) /\ fOp.to \notin Files!Created))
    => ~Opened(fOp.from)
Returned == Files!Is({"undo", "select"}) /\ fTail = NoCandidate => ~Opened(fOp.to)

\* Unless a marker failed to be written, at most one answer's manifest is open:
\* the answer that owns the disk and leads the session.
OneOpen ==
  "marker" \notin fLapsed =>
    \A c \in Candidate : Opened(c) =>
      /\ fOwner = c /\ fTail = c /\ Files!Is({"idle", "run", "select"})
      /\ Files!Is({"idle"}) => fArmed \in {c, NoCandidate}

\* Unless the process died, what the next departure captures owns the disk.
OpenAtDeparture ==
  "death" \notin fLapsed =>
    /\ Opened(fArmed) => fOwner = fArmed /\ fTail = fArmed /\ ~Files!Is({"chosen", "apply"})
    /\ Opened(fTail) /\ ~Files!Is({"chosen", "apply"}) => fOwner = fTail

\* The work of answer c is on disk if it is nowhere else.
Holds(c) == c \in Candidate => fEvent[c] = "degraded" \/ (fOwner = c /\ fEvent[c] # "bundle")
Unanswered == Files!Is({"baseline"}) \/ (Files!Is({"run"}) /\ fOp.to \notin Files!Created)
Overwriting == Files!Is({"chosen", "apply", "undo"}) \/ Unanswered

\* While nothing has lapsed, the selected answer's work is on disk or saved,
\* and whatever overwrites an anchored owner's files finds them in its
\* manifest.
WorkSaved ==
  fLapsed = {} =>
    /\ Files!Is({"idle"}) => Holds(fTail)
    /\ Files!Is({"idle"}) /\ fArmed \in Candidate => fArmed = fTail \/ fEvent[fArmed] = "degraded"
    /\ Files!Is({"select"}) => Holds(fOp.to)
    /\ Files!Is({"chosen", "apply"}) /\ fArmed \in Candidate
         => fArmed \in {fOp.from, fOp.to} \/ fEvent[fArmed] = "degraded"
    /\ Overwriting /\ fOp.from \in Candidate /\ fEvent[fOp.from] # "degraded" /\ fOwner \in fAnchored
         => fBundle[fOwner] = fDisk
    /\ Unanswered /\ fOp.from \in Candidate => fEvent[fOp.from] = "bundle" \/ Holds(fOp.from)

\* The inductive invariant of the files.
FilesInv == /\ FileTypes /\ Operation /\ Untouched /\ Departed /\ Returned /\ OneOpen /\ OpenAtDeparture
            /\ WorkSaved /\ Files!ManifestsBelong

\* The invariant implies what the run checks.
LEMMA FilesSafe ==
  FilesInv => Files!ManifestsBelong /\ Files!SavedBeforeOverwritten
BY DEF FilesInv, WorkSaved, Unanswered, Overwriting, Files!SavedBeforeOverwritten, Files!Is

\* A session with one answer has created it.
LEMMA CreatedInit ==
  ASSUME NEW c \in Candidate, fCreated = <<c>>
  PROVE  Files!Created = {c} /\ fCreated \in Seq(Candidate) /\ fCreated # <<>>
BY DEF Files!Created, Files!ToSet

\* The session with its first answer satisfies the invariant .
LEMMA FilesStart ==
  ASSUME Files!Init
  PROVE  FilesInv
<1>1. PICK first \in Candidate, ledger \in BOOLEAN, written \in (SUBSET Path) \ {{}} :
        /\ fDisk = [p \in Path |-> IF p \in written THEN 1 ELSE 0]
        /\ fCreated = <<first>>
        /\ fAnchored = (IF ledger THEN {first} ELSE {})
        /\ fEvent = [c \in Candidate |-> "none"]
        /\ fBundle = [c \in Candidate |-> Files!NoManifest]
        /\ fTail = first /\ fArmed = NoCandidate /\ fOp = Files!Idle
        /\ fOwner = first /\ fSavedFrom = [c \in Candidate |-> NoCandidate]
        /\ fLapsed = {}
  BY DEF Files!Init
<1>2. Files!Created = {first} /\ fCreated \in Seq(Candidate) /\ fCreated # <<>>
  BY <1>1, CreatedInit
<1>3. FileTypes
  BY <1>1, <1>2 DEF FileTypes, Known, FileOps, FileKinds, Files!Idle
<1>4. Operation /\ Untouched /\ Departed /\ Returned
  BY <1>1, <1>2 DEF Operation, Untouched, Departed, Returned, Known, Files!Is, Files!Idle
<1>5. OneOpen /\ OpenAtDeparture /\ WorkSaved /\ Files!ManifestsBelong
  BY <1>1, <1>2, CandidateAssumption DEF OneOpen, OpenAtDeparture, WorkSaved, Holds, Unanswered,
       Overwriting, Opened, Files!MayCapture,
     Files!Is, Files!Idle, Files!ManifestsBelong, Files!NoManifest
<1> QED  BY <1>3, <1>4, <1>5 DEF FilesInv

-----------------------------------------------------------------------------
(* Candidate files: the steps.                                               *)

\* The answers that exist depend on the sequence of their creation alone.
LEMMA CreatedKept ==
  ASSUME fCreated' = fCreated
  PROVE  Files!Created' = Files!Created
BY DEF Files!Created

\* What types say of an operation's fields.
LEMMA FileFacts ==
  ASSUME FileTypes
  PROVE  /\ Files!Created \subseteq Candidate
         /\ fOp.kind \in FileKinds /\ fOp.from \in Candidate \cup {NoCandidate}
         /\ fOp.to \in Candidate \cup {NoCandidate} /\ fOp.todo \in SUBSET Path /\ fOp.undoing \in BOOLEAN
         /\ NoCandidate \notin Files!Created
         /\ \A c \in Candidate : fEvent[c] \in {"none", "bundle", "degraded", "restored"}
<1>1. Files!Created \subseteq Candidate
  BY DEF FileTypes, Files!Created, Files!ToSet
<1> QED  BY <1>1, CandidateAssumption DEF FileTypes, FileOps

\* The journal restores one path: the disk belongs to nobody until all are
\* there, unless it belongs to the target already.
LEMMA RestoreKeeps ==
  ASSUME FilesInv, NEW p \in Path, Files!RestorePath(p)
  PROVE  FilesInv'
<1>1. FileTypes /\ Operation
  BY DEF FilesInv
<1>2. /\ fOp' = [fOp EXCEPT !.todo = @ \ {p}] /\ fDisk' = [fDisk EXCEPT ![p] = Files!Target[p]]
      /\ fOwner' = IF fOwner = fOp.to THEN fOwner ELSE NoCandidate
      /\ fCreated' = fCreated /\ fAnchored' = fAnchored /\ fEvent' = fEvent /\ fBundle' = fBundle
      /\ fSavedFrom' = fSavedFrom /\ fTail' = fTail /\ fArmed' = fArmed /\ fLapsed' = fLapsed
      /\ Files!Is({"apply", "baseline", "undo"}) /\ p \in fOp.todo
  BY DEF Files!RestorePath, Files!turns, Files!files
<1>3. /\ fOp'.kind = fOp.kind /\ fOp'.from = fOp.from /\ fOp'.to = fOp.to /\ fOp'.undoing = fOp.undoing
      /\ fOp' \in FileOps
  BY <1>1, <1>2 DEF FileTypes, FileOps
<1>4. Files!Created' = Files!Created
  BY <1>2, CreatedKept
<1>5. FileTypes'
  BY <1>1, <1>2, <1>3, <1>4 DEF FileTypes, Known
<1>6. Operation' /\ Untouched' /\ Departed' /\ Returned'
  BY <1>2, <1>3, <1>4 DEF FilesInv, Operation, Untouched, Departed, Returned, Known, Opened,
       Files!MayCapture, Files!Is
<1>7. OneOpen' /\ OpenAtDeparture'
  BY <1>1, <1>2, <1>3, <1>4, FileFacts
  DEF FilesInv, Operation, Departed, OneOpen, OpenAtDeparture, Opened, Files!MayCapture, Files!Is, Known
<1>8. ASSUME fOwner = fOp.to
      PROVE  Files!Is({"apply", "undo"}) /\ (fBundle[fOwner] = fDisk => fDisk' = fDisk)
  <2>1. Files!Is({"apply", "undo"})
    BY <1>1, <1>2, <1>8, FileFacts, CandidateAssumption DEF FileTypes, Operation, Known, Files!Is
  <2>2. ASSUME fBundle[fOwner] = fDisk PROVE fDisk' = fDisk
    <3>1. Files!Target[p] = fDisk[p]
      BY <2>1, <2>2, <1>8 DEF Files!Target, Files!Is
    <3>2. fDisk' = [fDisk EXCEPT ![p] = fDisk[p]] /\ fDisk = [q \in Path |-> fDisk[q]]
      BY <3>1, <1>1, <1>2 DEF FileTypes
    <3> QED  BY <3>2
  <2> QED  BY <2>1, <2>2
<1>9. WorkSaved'
  BY <1>1, <1>2, <1>3, <1>8, FileFacts, CandidateAssumption
  DEF FilesInv, FileTypes, Operation, WorkSaved, Holds, Unanswered, Overwriting, Files!Is, Known
<1>10. Files!ManifestsBelong'
  BY <1>2 DEF FilesInv, Files!ManifestsBelong, Files!NoManifest
<1> QED  BY <1>5, <1>6, <1>7, <1>9, <1>10 DEF FilesInv

\* A session with fewer than two answers has one.
LEMMA OneCreated ==
  ASSUME FileTypes, Len(fCreated) < 2, NEW x \in Files!Created, NEW y \in Files!Created
  PROVE  x = y
BY DEF FileTypes, Files!Created, Files!ToSet

\* The selection event is appended and the target is armed.
LEMMA SelectKeeps ==
  ASSUME FilesInv, Files!Select
  PROVE  FilesInv'
<1>1. FileTypes /\ Operation
  BY DEF FilesInv
<1>2. /\ fCreated' = fCreated /\ fAnchored' = fAnchored /\ fDisk' = fDisk /\ fEvent' = fEvent
      /\ fBundle' = fBundle /\ fSavedFrom' = fSavedFrom /\ fOwner' = fOwner /\ fLapsed' = fLapsed
      /\ fTail' = fOp.to /\ fOp' = Files!Idle /\ Files!Is({"select"}) /\ fOp.to \in Files!Created
      /\ fArmed' = IF fOp.undoing \/ Len(fCreated) < 2 THEN fArmed ELSE fOp.to
  BY <1>1 DEF Operation, Files!Is, Files!Select, Files!turns, Files!files, Files!bounds
<1>3. Files!Created' = Files!Created
  BY <1>2, CreatedKept
<1>4. fArmed' \in {fOp.to, NoCandidate}
  <2>1. CASE fOp.undoing
    BY <1>1, <1>2, <2>1 DEF Operation
  <2>2. CASE ~fOp.undoing /\ Len(fCreated) < 2
    BY <1>1, <1>2, <2>2, OneCreated, FileFacts DEF FileTypes, Known
  <2> QED  BY <1>2, <2>1, <2>2
<1>5. FileTypes' /\ Operation' /\ Untouched' /\ Departed' /\ Returned'
  BY <1>1, <1>2, <1>3, <1>4, FileFacts
  DEF FilesInv, FileTypes, FileOps, FileKinds, Operation, Untouched, Departed, Returned, Known, Opened,
       Files!MayCapture,
      Files!Is, Files!Idle
<1>6. OneOpen' /\ OpenAtDeparture'
  BY <1>1, <1>2, <1>3, <1>4, FileFacts, CandidateAssumption
  DEF FilesInv, Operation, Returned, OneOpen, OpenAtDeparture, Known, Opened, Files!MayCapture,
       Files!Is, Files!Idle
<1>7. WorkSaved'
  BY <1>2, <1>4, CandidateAssumption DEF FilesInv, WorkSaved, Holds, Unanswered, Overwriting, Files!Is,
       Files!Idle
<1>8. Files!ManifestsBelong'
  BY <1>2 DEF FilesInv, Files!ManifestsBelong, Files!NoManifest
<1> QED  BY <1>5, <1>6, <1>7, <1>8 DEF FilesInv

\* A regeneration that fails behind its answer captures it and returns to the
\* one before it.
LEMMA RunFailsAnsweredKeeps ==
  ASSUME FilesInv, Files!RunFailsAnswered
  PROVE  FilesInv'
<1>1. FileTypes /\ Operation
  BY DEF FilesInv
<1>2. /\ fCreated' = fCreated /\ fAnchored' = fAnchored /\ fDisk' = fDisk
      /\ fArmed' = fArmed /\ fOwner' = fOwner /\ fLapsed' = fLapsed
      /\ Files!Is({"run"}) /\ fOp.to \in Files!Created
  BY DEF Files!RunFailsAnswered, Files!turns
<1>3. Files!Created' = Files!Created
  BY <1>2, CreatedKept
<1>4. /\ fOp.to \in fAnchored /\ fOwner = fOp.to /\ fTail = fOp.to /\ fEvent[fOp.to] = "none"
      /\ fArmed = NoCandidate
      /\ fOp.to \in Candidate /\ fOp.from \in Known \ {fOp.to} /\ Files!MayCapture(fOp.to)
  BY <1>1, <1>2, FileFacts DEF Operation, Files!Is, Files!MayCapture
<1>5. /\ fBundle' = [fBundle EXCEPT ![fOp.to] = fDisk] /\ fEvent' = [fEvent EXCEPT ![fOp.to] = "bundle"]
      /\ fSavedFrom' = [fSavedFrom EXCEPT ![fOp.to] = fOp.to]
      /\ fTail' = IF fOp.from = NoCandidate THEN NoCandidate ELSE fOp.to
      /\ fOp' = IF fOp.from = NoCandidate THEN Files!Idle
                ELSE [Files!Idle EXCEPT !.kind = "chosen", !.from = fOp.to, !.to = fOp.from, !.undoing = TRUE]
  BY <1>2, <1>4, CandidateAssumption DEF Files!RunFailsAnswered, Files!Capture, Files!SaveManifest
<1>6. /\ fOp' \in FileOps
      /\ fOp.from = NoCandidate => fOp'.kind = "idle" /\ fOp'.undoing = FALSE /\ fOp'.todo = {}
      /\ fOp.from # NoCandidate => fOp'.kind = "chosen" /\ fOp'.undoing = TRUE /\ fOp'.from = fOp.to
                                   /\ fOp'.to = fOp.from /\ fOp'.todo = {}
  <2>1. CASE fOp.from = NoCandidate
    BY <1>5, <2>1 DEF Files!Idle, FileOps, FileKinds
  <2>2. CASE fOp.from # NoCandidate
    <3>1. fOp' = [Files!Idle EXCEPT !.kind = "chosen", !.from = fOp.to, !.to = fOp.from, !.undoing = TRUE]
      BY <1>5, <2>2
    <3> QED  BY <1>1, <1>4, <3>1, <2>2, FileFacts DEF Files!Idle, FileOps, FileKinds, Known
  <2> QED  BY <2>1, <2>2
<1>7. FileTypes'
  <2>1. /\ fBundle' = [c \in Candidate |-> fBundle'[c]] /\ fSavedFrom' = [c \in Candidate |-> fSavedFrom'[c]]
        /\ fEvent' \in [Candidate -> {"none", "bundle", "degraded", "restored"}]
    BY <1>1, <1>4, <1>5 DEF FileTypes
  <2>2. fTail' \in Known
    BY <1>2, <1>5 DEF Known
  <2> QED  BY <1>1, <1>2, <1>3, <1>6, <2>1, <2>2 DEF FileTypes, Known
<1>8. /\ fBundle'[fOp.to] = fDisk /\ fEvent'[fOp.to] = "bundle" /\ fSavedFrom'[fOp.to] = fOp.to
      /\ \A c \in Candidate \ {fOp.to} : fBundle'[c] = fBundle[c] /\ fEvent'[c] = fEvent[c]
         /\ fSavedFrom'[c] = fSavedFrom[c]
  BY <1>1, <1>4, <1>5 DEF FileTypes
<1>9. Operation' /\ Untouched' /\ Departed' /\ Returned'
  BY <1>1, <1>2, <1>3, <1>4, <1>5, <1>6, <1>8, FileFacts, CandidateAssumption
  DEF FilesInv, Operation, Untouched, Departed, Returned, Known, Opened, Files!MayCapture, Files!Is
<1>10. OneOpen' /\ OpenAtDeparture'
  BY <1>1, <1>2, <1>3, <1>4, <1>5, <1>6, <1>8, FileFacts, CandidateAssumption
  DEF FilesInv, OneOpen, OpenAtDeparture, Known, Opened, Files!MayCapture, Files!Is
<1>11. WorkSaved'
  BY <1>1, <1>2, <1>3, <1>4, <1>5, <1>6, <1>8, CandidateAssumption DEF FilesInv, WorkSaved, Holds,
       Unanswered, Overwriting, Files!Is
<1>12. Files!ManifestsBelong'
  BY <1>2, <1>4, <1>8 DEF FilesInv, Files!ManifestsBelong, Files!NoManifest
<1> QED  BY <1>7, <1>9, <1>10, <1>11, <1>12 DEF FilesInv

\* A regeneration that fails without an answer restores what it left.
LEMMA RunFailsUnansweredKeeps ==
  ASSUME FilesInv, Files!RunFailsUnanswered
  PROVE  FilesInv'
<1>1. FileTypes /\ Operation
  BY DEF FilesInv
<1>2. /\ fCreated' = fCreated /\ fAnchored' = fAnchored /\ fDisk' = fDisk
      /\ fArmed' = fArmed /\ fOwner' = fOwner /\ fLapsed' = fLapsed
      /\ Files!Is({"run"}) /\ fOp.to \notin Files!Created
  BY DEF Files!RunFailsUnanswered, Files!turns
<1>3. Files!Created' = Files!Created
  BY <1>2, CreatedKept
<1>4. /\ fTail = NoCandidate /\ fArmed = NoCandidate /\ fOp.to \in Candidate /\ fOp.from \in Known
      /\ ~Opened(fOp.from) /\ fEvent[fOp.to] = "none"
  BY <1>1, <1>2, FileFacts DEF FilesInv, FileTypes, Operation, Departed, Untouched, Files!Is
<1>5. /\ fBundle' = fBundle /\ fEvent' = fEvent /\ fSavedFrom' = fSavedFrom /\ fTail' = fTail
      /\ fOp' = CASE fOp.from = NoCandidate -> Files!Idle
                 [] fOp.from # NoCandidate /\ fEvent[fOp.from] = "bundle"
                      -> [Files!Idle EXCEPT !.from = fOp.to, !.to = fOp.from, !.undoing = TRUE,
                      !.kind = "undo", !.todo = Path]
                 [] OTHER -> [Files!Idle EXCEPT !.from = fOp.to, !.to = fOp.from, !.undoing = TRUE,
                 !.kind = "select"]
  BY <1>4 DEF Files!RunFailsUnanswered, Files!Capture, Files!SaveManifest, Files!files, Opened, Known
<1>6. /\ fOp' \in FileOps
      /\ fOp.from = NoCandidate => fOp'.kind = "idle" /\ fOp'.undoing = FALSE
      /\ fOp.from # NoCandidate => /\ fOp'.kind = (IF fEvent[fOp.from] = "bundle" THEN "undo" ELSE "select")
                                   /\ fOp'.from = fOp.to /\ fOp'.to = fOp.from /\ fOp'.undoing = TRUE
  <2>1. CASE fOp.from = NoCandidate
    BY <1>5, <2>1 DEF Files!Idle, FileOps, FileKinds
  <2>2. CASE fOp.from # NoCandidate /\ fEvent[fOp.from] = "bundle"
    BY <1>1, <1>4, <1>5, <2>2, FileFacts DEF Files!Idle, FileOps, FileKinds, Known
  <2>3. CASE fOp.from # NoCandidate /\ fEvent[fOp.from] # "bundle"
    <3>1. fOp' = [Files!Idle EXCEPT !.from = fOp.to, !.to = fOp.from, !.undoing = TRUE, !.kind = "select"]
      BY <1>5, <2>3
    <3> QED  BY <1>1, <1>4, <3>1, <2>3, FileFacts DEF Files!Idle, FileOps, FileKinds, Known
  <2> QED  BY <2>1, <2>2, <2>3
<1>7. FileTypes'
  BY <1>1, <1>2, <1>3, <1>4, <1>5, <1>6 DEF FileTypes, Known
<1>8. Operation' /\ Untouched' /\ Departed' /\ Returned'
  BY <1>1, <1>2, <1>3, <1>4, <1>5, <1>6, FileFacts, CandidateAssumption
  DEF FilesInv, Operation, Untouched, Departed, Returned, Known, Opened, Files!MayCapture, Files!Is
<1>9. OneOpen' /\ OpenAtDeparture'
  BY <1>1, <1>2, <1>3, <1>4, <1>5, <1>6, FileFacts, CandidateAssumption
  DEF FilesInv, OneOpen, OpenAtDeparture, Known, Opened, Files!MayCapture, Files!Is
<1>10. WorkSaved'
  BY <1>1, <1>2, <1>3, <1>4, <1>5, <1>6, FileFacts, CandidateAssumption DEF FilesInv, WorkSaved, Holds,
       Unanswered, Overwriting, Known, Files!Is
<1>11. Files!ManifestsBelong'
  BY <1>2, <1>5 DEF FilesInv, Files!ManifestsBelong, Files!NoManifest
<1> QED  BY <1>7, <1>8, <1>9, <1>10, <1>11 DEF FilesInv

\* A capture writes the manifest of an open answer and makes it the tail, and
\* does nothing for others.
LEMMA CaptureSaves ==
  ASSUME FileTypes, NEW c \in Known, Files!Capture(c)
  PROVE  \/ /\ c \in Candidate /\ Opened(c) /\ fTail' = c
            /\ fEvent' = [fEvent EXCEPT ![c] = "bundle"] /\ fBundle' = [fBundle EXCEPT ![c] = fDisk]
            /\ fSavedFrom' = [fSavedFrom EXCEPT ![c] = fOwner]
         \/ /\ ~Opened(c) /\ fTail' = fTail
            /\ fEvent' = fEvent /\ fBundle' = fBundle /\ fSavedFrom' = fSavedFrom
<1>1. CASE c # NoCandidate /\ Files!MayCapture(c)
  BY <1>1, FileFacts DEF Files!Capture, Files!SaveManifest, Known, Opened
<1>2. CASE ~(c # NoCandidate /\ Files!MayCapture(c))
  BY <1>2, FileFacts DEF Files!Capture, Files!files, Known, Opened
<1> QED  BY <1>1, <1>2

\* The same, field by field.
LEMMA CapturedFields ==
  ASSUME FileTypes, NEW c \in Known, Files!Capture(c)
  PROVE  /\ fEvent' \in [Candidate -> {"none", "bundle", "degraded", "restored"}]
         /\ fBundle' = [d \in Candidate |-> fBundle'[d]] /\ fSavedFrom' = [d \in Candidate |-> fSavedFrom'[d]]
         /\ Opened(c) => c \in Candidate /\ fEvent'[c] = "bundle" /\ fBundle'[c] = fDisk
              /\ fSavedFrom'[c] = fOwner
         /\ \A d \in Candidate : d # c \/ ~Opened(c)
              => fEvent'[d] = fEvent[d] /\ fBundle'[d] = fBundle[d] /\ fSavedFrom'[d] = fSavedFrom[d]
         /\ fTail' = IF Opened(c) THEN c ELSE fTail
<1>1. CASE Opened(c)
  BY <1>1, CaptureSaves DEF FileTypes
<1>2. CASE ~Opened(c)
  BY <1>2, CaptureSaves DEF FileTypes
<1> QED  BY <1>1, <1>2

\* A switch captures the answer it leaves.
LEMMA StartSwitchKeeps ==
  ASSUME FilesInv, NEW from \in Candidate \cup {NoCandidate}, NEW to \in Candidate,
  Files!StartSwitch(from, to)
  PROVE  FilesInv'
<1>1. FileTypes /\ Operation
  BY DEF FilesInv
<1>2. /\ fCreated' = fCreated /\ fAnchored' = fAnchored /\ fDisk' = fDisk
      /\ fArmed' = fArmed /\ fOwner' = fOwner /\ fLapsed' = fLapsed
      /\ Files!Is({"idle"}) /\ to \in Files!Created /\ to # from
      /\ from = fTail \/ (from = fArmed /\ fArmed # NoCandidate)
      /\ Files!Capture(from)
      /\ fOp' = [Files!Idle EXCEPT !.kind = "chosen", !.from = from, !.to = to]
  BY DEF Files!StartSwitch, Files!turns
<1>3. Files!Created' = Files!Created
  BY <1>2, CreatedKept
<1>4. from \in Known
  BY <1>1, <1>2 DEF FileTypes
<1>5. /\ fOp' \in FileOps /\ fOp'.kind = "chosen" /\ fOp'.from = from /\ fOp'.to = to
      /\ fOp'.undoing = FALSE /\ fOp'.todo = {}
  BY <1>2 DEF Files!Idle, FileOps, FileKinds
<1>6. /\ Opened(from) => fEvent'[from] = "bundle" /\ fBundle'[from] = fDisk /\ fSavedFrom'[from] = fOwner
      /\ \A d \in Candidate : d # from \/ ~Opened(from)
           => fEvent'[d] = fEvent[d] /\ fBundle'[d] = fBundle[d] /\ fSavedFrom'[d] = fSavedFrom[d]
      /\ fTail' = IF Opened(from) THEN from ELSE fTail
  BY <1>1, <1>2, <1>4, CapturedFields
<1>7. FileTypes'
  BY <1>1, <1>2, <1>3, <1>4, <1>5, <1>6, CapturedFields DEF FileTypes, Known
<1>8. Operation' /\ Untouched' /\ Departed' /\ Returned'
  BY <1>1, <1>2, <1>3, <1>4, <1>5, <1>6, FileFacts, CandidateAssumption
  DEF FilesInv, Operation, Untouched, Departed, Returned, Known, Opened, Files!MayCapture, Files!Is
<1>9. OneOpen' /\ OpenAtDeparture'
  BY <1>1, <1>2, <1>3, <1>4, <1>5, <1>6, FileFacts, CandidateAssumption
  DEF FilesInv, OneOpen, OpenAtDeparture, Known, Opened, Files!MayCapture, Files!Is
<1>10. WorkSaved'
  BY <1>1, <1>2, <1>3, <1>4, <1>5, <1>6, FileFacts, CandidateAssumption
  DEF FilesInv, FileTypes, WorkSaved, Holds, Unanswered, Overwriting, Known, Opened, Files!MayCapture,
       Files!Is
<1>11. Files!ManifestsBelong'
  BY <1>1, <1>2, <1>4, <1>6, FileFacts
  DEF FilesInv, OneOpen, OpenAtDeparture, Files!ManifestsBelong, Files!NoManifest, Known, Files!Is
<1> QED  BY <1>7, <1>8, <1>9, <1>10, <1>11 DEF FilesInv

\* A regeneration captures the tail and opens the baseline.
LEMMA StartRegenerateKeeps ==
  ASSUME FilesInv, NEW new \in Candidate, Files!StartRegenerate(new)
  PROVE  FilesInv'
<1>1. FileTypes /\ Operation
  BY DEF FilesInv
<1>2. /\ fCreated' = fCreated /\ fAnchored' = fAnchored /\ fDisk' = fDisk
      /\ fArmed' = NoCandidate /\ fOwner' = fOwner /\ fLapsed' = fLapsed
      /\ Files!Is({"idle"}) /\ new \notin Files!Created
      /\ Files!Capture(fTail)
      /\ fOp' = [Files!Idle EXCEPT !.kind = "baseline", !.from = fTail, !.to = new,
                   !.todo = IF fTail # NoCandidate /\ fEvent'[fTail] = "bundle"
                        THEN DOMAIN Files!Baseline ELSE {}]
  BY DEF Files!StartRegenerate, Files!turns
<1>3. Files!Created' = Files!Created
  BY <1>2, CreatedKept
<1>4. fTail \in Known
  BY <1>1 DEF FileTypes
<1>5. DOMAIN Files!Baseline \subseteq Path
  BY DEF Files!Baseline
<1>6. /\ fOp' \in FileOps /\ fOp'.kind = "baseline" /\ fOp'.from = fTail /\ fOp'.to = new
      /\ fOp'.undoing = FALSE
      /\ fOp'.todo # {} => fTail # NoCandidate /\ fEvent'[fTail] = "bundle"
  BY <1>1, <1>2, <1>4, <1>5, FileFacts DEF Files!Idle, FileOps, FileKinds, Known
<1>7. /\ Opened(fTail) => fEvent'[fTail] = "bundle" /\ fBundle'[fTail] = fDisk /\ fSavedFrom'[fTail] = fOwner
      /\ \A d \in Candidate : d # fTail \/ ~Opened(fTail)
           => fEvent'[d] = fEvent[d] /\ fBundle'[d] = fBundle[d] /\ fSavedFrom'[d] = fSavedFrom[d]
      /\ fTail' = fTail
  BY <1>1, <1>2, <1>4, CapturedFields
<1>8. FileTypes'
  BY <1>1, <1>2, <1>3, <1>4, <1>6, <1>7, CapturedFields DEF FileTypes, Known
<1>9. Operation' /\ Untouched' /\ Departed' /\ Returned'
  BY <1>1, <1>2, <1>3, <1>4, <1>6, <1>7, FileFacts, CandidateAssumption
  DEF FilesInv, Operation, Untouched, Departed, Returned, Known, Opened, Files!MayCapture, Files!Is
<1>10. OneOpen' /\ OpenAtDeparture'
  BY <1>1, <1>2, <1>3, <1>4, <1>6, <1>7, FileFacts, CandidateAssumption
  DEF FilesInv, OneOpen, OpenAtDeparture, Known, Opened, Files!MayCapture, Files!Is
<1>11. WorkSaved'
  BY <1>1, <1>2, <1>3, <1>4, <1>6, <1>7, FileFacts, CandidateAssumption
  DEF FilesInv, FileTypes, WorkSaved, Holds, Unanswered, Overwriting, Known, Opened, Files!MayCapture,
       Files!Is
<1>12. Files!ManifestsBelong'
  BY <1>1, <1>2, <1>4, <1>7, FileFacts
  DEF FilesInv, OneOpen, OpenAtDeparture, Files!ManifestsBelong, Files!NoManifest, Known, Files!Is
<1> QED  BY <1>8, <1>9, <1>10, <1>11, <1>12 DEF FilesInv

\* The generator's answer is appended: it exists, leads the session and owns
\* the disk.
LEMMA AnswerKeeps ==
  ASSUME FilesInv, Files!Answer
  PROVE  FilesInv'
<1>1. FileTypes /\ Operation
  BY DEF FilesInv
<1>2. /\ fCreated' = Append(fCreated, fOp.to) /\ fAnchored' = fAnchored /\ fDisk' = fDisk /\ fEvent' = fEvent
      /\ fBundle' = fBundle /\ fSavedFrom' = fSavedFrom /\ fLapsed' = fLapsed /\ fOp' = fOp
      /\ fArmed' = fArmed
      /\ fTail' = fOp.to /\ fOwner' = fOp.to /\ Files!Is({"run"}) /\ fOp.to \notin Files!Created
  BY DEF Files!Answer, Files!files
<1>3. fOp.to \in Candidate /\ fOp.to \in fAnchored /\ fArmed = NoCandidate /\ fTail = NoCandidate
  BY <1>1, <1>2 DEF FileTypes, Operation, Files!Is
<1>4. fCreated' \in Seq(Candidate) /\ fCreated' # <<>> /\ Files!Created' = Files!Created \cup {fOp.to}
  <2>1. fCreated \in Seq(Candidate)
    BY <1>1 DEF FileTypes
  <2>2. fCreated' \in Seq(Candidate) /\ Range(fCreated') = Range(fCreated) \cup {fOp.to}
    BY <1>2, <1>3, <2>1, AppendRange
  <2>3. fCreated' # <<>>
    BY <1>2, <1>3, <2>1
  <2>4. Files!Created' = Range(fCreated') /\ Files!Created = Range(fCreated)
    BY <2>1, <2>2 DEF Files!Created, Files!ToSet, Range
  <2> QED  BY <2>2, <2>3, <2>4
<1>5. FileTypes'
  BY <1>1, <1>2, <1>3, <1>4 DEF FileTypes, Known
<1>6. Operation' /\ Untouched' /\ Departed' /\ Returned'
  BY <1>1, <1>2, <1>3, <1>4, FileFacts, CandidateAssumption
  DEF FilesInv, Operation, Untouched, Departed, Returned, Known, Opened, Files!MayCapture, Files!Is
<1>7. OneOpen' /\ OpenAtDeparture'
  BY <1>1, <1>2, <1>3, <1>4, FileFacts, CandidateAssumption
  DEF FilesInv, Operation, OneOpen, OpenAtDeparture, Known, Opened, Files!MayCapture, Files!Is
<1>8. WorkSaved'
  BY <1>1, <1>2, <1>3, <1>4, FileFacts, CandidateAssumption
  DEF FilesInv, WorkSaved, Holds, Unanswered, Overwriting, Known, Opened, Files!MayCapture, Files!Is
<1>9. Files!ManifestsBelong'
  BY <1>2 DEF FilesInv, Files!ManifestsBelong, Files!NoManifest
<1> QED  BY <1>5, <1>6, <1>7, <1>8, <1>9 DEF FilesInv

\* The switch could not restore its target: both answers are degraded.
LEMMA ApplyFailsKeeps ==
  ASSUME FilesInv, Files!ApplyFails
  PROVE  FilesInv'
<1>1. FileTypes /\ Operation
  BY DEF FilesInv
<1>2. /\ fCreated' = fCreated /\ fAnchored' = fAnchored /\ fDisk' = fDisk /\ fBundle' = fBundle
      /\ fSavedFrom' = fSavedFrom /\ fArmed' = fArmed /\ fOwner' = fOwner /\ fLapsed' = fLapsed
      /\ fEvent' = [c \in Candidate |-> IF c \in {fOp.from, fOp.to} THEN "degraded" ELSE fEvent[c]]
      /\ fTail' = fOp.to /\ Files!Is({"apply"})
      /\ fOp' = IF fOp.undoing THEN [fOp EXCEPT !.kind = "select"] ELSE Files!Idle
  BY DEF Files!ApplyFails, Files!turns
<1>3. Files!Created' = Files!Created
  BY <1>2, CreatedKept
<1>4. fOp.to \in Files!Created /\ fOp.from \in Known
  BY <1>1, <1>2 DEF Operation, Files!Is
<1>5. /\ fOp' \in FileOps /\ fOp'.undoing = fOp.undoing
      /\ fOp'.kind = IF fOp.undoing THEN "select" ELSE "idle"
      /\ fOp.undoing => fOp'.to = fOp.to
  BY <1>1, <1>2 DEF FileTypes, FileOps, FileKinds, Files!Idle
<1>6. FileTypes'
  BY <1>1, <1>2, <1>3, <1>4, <1>5 DEF FileTypes, Known
<1>7. Operation'
  BY <1>1, <1>2, <1>3, <1>4, <1>5, FileFacts DEF Operation, Files!Is
<1>8. Untouched'
  BY <1>1, <1>2, <1>3, <1>4, FileFacts, CandidateAssumption DEF FilesInv, Untouched, Known
<1>9. Departed' /\ Returned'
  BY <1>2, <1>3, <1>4, <1>5, <1>1, FileFacts DEF Departed, Returned, Files!Is
<1>10. OneOpen' /\ OpenAtDeparture'
  BY <1>1, <1>2, <1>3, <1>4, <1>5, FileFacts, CandidateAssumption
  DEF FilesInv, OneOpen, OpenAtDeparture, Known, Opened, Files!MayCapture, Files!Is
<1>11. WorkSaved'
  BY <1>1, <1>2, <1>3, <1>4, <1>5, FileFacts, CandidateAssumption
  DEF FilesInv, WorkSaved, Holds, Unanswered, Overwriting, Known, Files!Is
<1>12. Files!ManifestsBelong'
  BY <1>2 DEF FilesInv, Files!ManifestsBelong, Files!NoManifest
<1> QED  BY <1>6, <1>7, <1>8, <1>9, <1>10, <1>11, <1>12 DEF FilesInv

\* A switch to an answer without an anchored tree moves the selection alone.
LEMMA SwitchWithoutFilesKeeps ==
  ASSUME FilesInv, Files!SwitchWithoutFiles
  PROVE  FilesInv'
<1>1. FileTypes /\ Operation /\ fCreated' = fCreated
  BY DEF FilesInv, Files!SwitchWithoutFiles, Files!turns, Files!files, Files!bounds
<1>2. Files!Created' = Files!Created
  BY <1>1, CreatedKept
<1> USE <1>1, <1>2, FileFacts
    DEF FilesInv, FileTypes, FileOps, Operation, Known, Opened, Files!MayCapture, Files!Is,
        Files!SwitchWithoutFiles, Files!turns, Files!files, Files!bounds
<1>3. FileTypes'
  BY DEF FileKinds
<1>4. Operation'
  BY CandidateAssumption DEF Departed, OneOpen
<1>5. Untouched' /\ Departed' /\ Returned'
  BY DEF Untouched, Departed, Returned, OneOpen, OpenAtDeparture
<1>6. OneOpen' /\ OpenAtDeparture'
  BY CandidateAssumption DEF Departed, Returned, OneOpen, OpenAtDeparture
<1>7. WorkSaved'
  BY CandidateAssumption DEF Departed, OneOpen, WorkSaved, Holds, Unanswered, Overwriting
<1>8. Files!ManifestsBelong'
  BY DEF Files!ManifestsBelong, Files!NoManifest
<1> QED  BY <1>3, <1>4, <1>5, <1>6, <1>7, <1>8

\* A switch opens the manifest it restores.
LEMMA StartApplyKeeps ==
  ASSUME FilesInv, Files!StartApply
  PROVE  FilesInv'
<1>1. FileTypes /\ Operation /\ fCreated' = fCreated
  BY DEF FilesInv, Files!StartApply, Files!turns, Files!files, Files!bounds
<1>2. Files!Created' = Files!Created
  BY <1>1, CreatedKept
<1> USE <1>1, <1>2, FileFacts
    DEF FilesInv, FileTypes, FileOps, Operation, Known, Opened, Files!MayCapture, Files!Is,
        Files!StartApply, Files!turns, Files!files, Files!bounds
<1>3. FileTypes'
  BY DEF FileKinds
<1>4. Operation'
  BY CandidateAssumption DEF Departed, OneOpen
<1>5. Untouched' /\ Departed' /\ Returned'
  BY DEF Untouched, Departed, Returned, OneOpen, OpenAtDeparture
<1>6. OneOpen' /\ OpenAtDeparture'
  BY CandidateAssumption DEF Departed, Returned, OneOpen, OpenAtDeparture
<1>7. WorkSaved'
  BY CandidateAssumption DEF Departed, OneOpen, WorkSaved, Holds, Unanswered, Overwriting
<1>8. Files!ManifestsBelong'
  BY DEF Files!ManifestsBelong, Files!NoManifest
<1> QED  BY <1>3, <1>4, <1>5, <1>6, <1>7, <1>8

\* The restored files belong to the answer the switch goes to.
LEMMA ApplyDoneKeeps ==
  ASSUME FilesInv, Files!ApplyDone
  PROVE  FilesInv'
<1>1. FileTypes /\ Operation /\ fCreated' = fCreated
  BY DEF FilesInv, Files!ApplyDone, Files!turns, Files!files, Files!bounds
<1>2. Files!Created' = Files!Created
  BY <1>1, CreatedKept
<1> USE <1>1, <1>2, FileFacts
    DEF FilesInv, FileTypes, FileOps, Operation, Known, Opened, Files!MayCapture, Files!Is,
        Files!ApplyDone, Files!turns, Files!files, Files!bounds
<1>3. FileTypes'
  BY DEF FileKinds
<1>4. Operation'
  BY CandidateAssumption DEF Departed, OneOpen
<1>5. Untouched' /\ Departed' /\ Returned'
  BY DEF Untouched, Departed, Returned, OneOpen, OpenAtDeparture
<1>6. OneOpen' /\ OpenAtDeparture'
  BY CandidateAssumption DEF Departed, Returned, OneOpen, OpenAtDeparture
<1>7. WorkSaved'
  BY CandidateAssumption DEF Departed, OneOpen, WorkSaved, Holds, Unanswered, Overwriting
<1>8. Files!ManifestsBelong'
  BY DEF Files!ManifestsBelong, Files!NoManifest
<1> QED  BY <1>3, <1>4, <1>5, <1>6, <1>7, <1>8

\* The selection event could not be appended.
LEMMA SelectFailsKeeps ==
  ASSUME FilesInv, Files!SelectFails
  PROVE  FilesInv'
<1>1. FileTypes /\ Operation /\ fCreated' = fCreated
  BY DEF FilesInv, Files!SelectFails, Files!turns, Files!files, Files!bounds, Files!Idle
<1>2. Files!Created' = Files!Created
  BY <1>1, CreatedKept
<1> USE <1>1, <1>2, FileFacts
    DEF FilesInv, FileTypes, FileOps, Operation, Known, Opened, Files!MayCapture, Files!Is,
        Files!SelectFails, Files!turns, Files!files, Files!bounds, Files!Idle
<1>3. FileTypes'
  BY DEF FileKinds
<1>4. Operation'
  BY CandidateAssumption DEF Departed, OneOpen
<1>5. Untouched' /\ Departed' /\ Returned'
  BY DEF Untouched, Departed, Returned, OneOpen, OpenAtDeparture
<1>6. OneOpen' /\ OpenAtDeparture'
  BY CandidateAssumption DEF Departed, Returned, OneOpen, OpenAtDeparture
<1>7. WorkSaved'
  BY CandidateAssumption DEF Departed, OneOpen, WorkSaved, Holds, Unanswered, Overwriting
<1>8. Files!ManifestsBelong'
  BY DEF Files!ManifestsBelong, Files!NoManifest
<1> QED  BY <1>3, <1>4, <1>5, <1>6, <1>7, <1>8

\* The baseline could not be restored: both answers are degraded, or nothing was.
LEMMA BaselineFailsKeeps ==
  ASSUME FilesInv, Files!BaselineFails
  PROVE  FilesInv'
<1>1. FileTypes /\ Operation /\ fCreated' = fCreated
  BY DEF FilesInv, Files!BaselineFails, Files!turns, Files!files, Files!bounds, Files!Idle
<1>2. Files!Created' = Files!Created
  BY <1>1, CreatedKept
<1> USE <1>1, <1>2, FileFacts
    DEF FilesInv, FileTypes, FileOps, Operation, Known, Opened, Files!MayCapture, Files!Is,
        Files!BaselineFails, Files!turns, Files!files, Files!bounds, Files!Idle
<1>3. FileTypes'
  BY DEF FileKinds
<1>4. Operation'
  BY CandidateAssumption DEF Departed, OneOpen
<1>5. Untouched' /\ Departed' /\ Returned'
  BY DEF Untouched, Departed, Returned, OneOpen, OpenAtDeparture
<1>6. OneOpen' /\ OpenAtDeparture'
  BY CandidateAssumption DEF Departed, Returned, OneOpen, OpenAtDeparture
<1>7. WorkSaved'
  BY CandidateAssumption DEF Departed, OneOpen, WorkSaved, Holds, Unanswered, Overwriting
<1>8. Files!ManifestsBelong'
  BY DEF Files!ManifestsBelong, Files!NoManifest
<1> QED  BY <1>3, <1>4, <1>5, <1>6, <1>7, <1>8

\* The baseline is on disk and the generator starts.
LEMMA StartRunKeeps ==
  ASSUME FilesInv, Files!StartRun
  PROVE  FilesInv'
<1>1. FileTypes /\ Operation /\ fCreated' = fCreated
  BY DEF FilesInv, Files!StartRun, Files!turns, Files!files, Files!bounds
<1>2. Files!Created' = Files!Created
  BY <1>1, CreatedKept
<1> USE <1>1, <1>2, FileFacts
    DEF FilesInv, FileTypes, FileOps, Operation, Known, Opened, Files!MayCapture, Files!Is,
        Files!StartRun, Files!turns, Files!files, Files!bounds
<1>3. FileTypes'
  BY DEF FileKinds
<1>4. Operation'
  BY CandidateAssumption DEF Departed, OneOpen
<1>5. Untouched' /\ Departed' /\ Returned'
  BY DEF Untouched, Departed, Returned, OneOpen, OpenAtDeparture
<1>6. OneOpen' /\ OpenAtDeparture'
  BY CandidateAssumption DEF Departed, Returned, OneOpen, OpenAtDeparture
<1>7. WorkSaved'
  BY CandidateAssumption DEF Departed, OneOpen, WorkSaved, Holds, Unanswered, Overwriting
<1>8. Files!ManifestsBelong'
  BY DEF Files!ManifestsBelong, Files!NoManifest
<1> QED  BY <1>3, <1>4, <1>5, <1>6, <1>7, <1>8

\* The generator, or the running turn, writes a file.
LEMMA WriteKeeps ==
  ASSUME FilesInv, NEW p \in Path, Files!Write(p)
  PROVE  FilesInv'
<1>1. FileTypes /\ Operation /\ fCreated' = fCreated
  BY DEF FilesInv, Files!Write, Files!turns, Files!files, Files!bounds
<1>2. Files!Created' = Files!Created
  BY <1>1, CreatedKept
<1> USE <1>1, <1>2, FileFacts
    DEF FilesInv, FileTypes, FileOps, Operation, Known, Opened, Files!MayCapture, Files!Is,
        Files!Write, Files!turns, Files!files, Files!bounds
<1>3. FileTypes'
  BY DEF FileKinds
<1>4. Operation'
  BY CandidateAssumption DEF Departed, OneOpen
<1>5. Untouched' /\ Departed' /\ Returned'
  BY DEF Untouched, Departed, Returned, OneOpen, OpenAtDeparture
<1>6. OneOpen' /\ OpenAtDeparture'
  BY CandidateAssumption DEF Departed, Returned, OneOpen, OpenAtDeparture
<1>7. WorkSaved'
  BY CandidateAssumption DEF Departed, OneOpen, WorkSaved, Holds, Unanswered, Overwriting
<1>8. Files!ManifestsBelong'
  BY DEF Files!ManifestsBelong, Files!NoManifest
<1> QED  BY <1>3, <1>4, <1>5, <1>6, <1>7, <1>8

\* The regenerated answer stands.
LEMMA RunCompletesKeeps ==
  ASSUME FilesInv, Files!RunCompletes
  PROVE  FilesInv'
<1>1. FileTypes /\ Operation /\ fCreated' = fCreated
  BY DEF FilesInv, Files!RunCompletes, Files!turns, Files!files, Files!bounds
<1>2. Files!Created' = Files!Created
  BY <1>1, CreatedKept
<1> USE <1>1, <1>2, FileFacts
    DEF FilesInv, FileTypes, FileOps, Operation, Known, Opened, Files!MayCapture, Files!Is,
        Files!RunCompletes, Files!turns, Files!files, Files!bounds
<1>3. FileTypes'
  BY DEF FileKinds
<1>4. Operation'
  BY CandidateAssumption DEF Departed, OneOpen
<1>5. Untouched' /\ Departed' /\ Returned'
  BY DEF Untouched, Departed, Returned, OneOpen, OpenAtDeparture
<1>6. OneOpen' /\ OpenAtDeparture'
  BY CandidateAssumption DEF Departed, Returned, OneOpen, OpenAtDeparture
<1>7. WorkSaved'
  BY CandidateAssumption DEF Departed, OneOpen, WorkSaved, Holds, Unanswered, Overwriting
<1>8. Files!ManifestsBelong'
  BY DEF Files!ManifestsBelong, Files!NoManifest
<1> QED  BY <1>3, <1>4, <1>5, <1>6, <1>7, <1>8

\* The previous answer's files could not be restored after a failed run.
LEMMA UndoFailsKeeps ==
  ASSUME FilesInv, Files!UndoFails
  PROVE  FilesInv'
<1>1. FileTypes /\ Operation /\ fCreated' = fCreated
  BY DEF FilesInv, Files!UndoFails, Files!turns, Files!files, Files!bounds
<1>2. Files!Created' = Files!Created
  BY <1>1, CreatedKept
<1> USE <1>1, <1>2, FileFacts
    DEF FilesInv, FileTypes, FileOps, Operation, Known, Opened, Files!MayCapture, Files!Is,
        Files!UndoFails, Files!turns, Files!files, Files!bounds
<1>3. FileTypes'
  BY DEF FileKinds
<1>4. Operation'
  BY CandidateAssumption DEF Departed, OneOpen
<1>5. Untouched' /\ Departed' /\ Returned'
  BY DEF Untouched, Departed, Returned, OneOpen, OpenAtDeparture
<1>6. OneOpen' /\ OpenAtDeparture'
  BY CandidateAssumption DEF Departed, Returned, OneOpen, OpenAtDeparture
<1>7. WorkSaved'
  BY CandidateAssumption DEF Departed, OneOpen, WorkSaved, Holds, Unanswered, Overwriting
<1>8. Files!ManifestsBelong'
  BY DEF Files!ManifestsBelong, Files!NoManifest
<1> QED  BY <1>3, <1>4, <1>5, <1>6, <1>7, <1>8

\* A file is written outside of a turn.
LEMMA EditKeeps ==
  ASSUME FilesInv, NEW p \in Path, Files!Edit(p)
  PROVE  FilesInv'
<1>1. FileTypes /\ Operation /\ fCreated' = fCreated
  BY DEF FilesInv, Files!Edit, Files!turns, Files!files, Files!bounds
<1>2. Files!Created' = Files!Created
  BY <1>1, CreatedKept
<1>3. FileTypes'
  <2>1. /\ fAnchored' = fAnchored /\ fEvent' = fEvent /\ fBundle' = fBundle /\ fSavedFrom' = fSavedFrom
        /\ fOp' = fOp /\ fTail' = fTail /\ fArmed' = fArmed /\ fOwner' = fOwner
    BY DEF Files!Edit, Files!turns, Files!files
  <2>2. fDisk' = [fDisk EXCEPT ![p] = fStamp + 1] /\ fDisk = [q \in Path |-> fDisk[q]]
    BY <1>1 DEF Files!Edit, FileTypes
  <2>3. fDisk' = [q \in Path |-> fDisk'[q]]
    BY <2>2
  <2> QED  BY <1>1, <1>2, <2>1, <2>3 DEF FileTypes, Known
<1> USE <1>1, <1>2, FileFacts
    DEF FilesInv, FileTypes, FileOps, Operation, Known, Opened, Files!MayCapture, Files!Is,
        Files!Edit, Files!turns, Files!files, Files!bounds
<1>4. Operation'
  BY CandidateAssumption DEF Departed, OneOpen
<1>5. Untouched' /\ Departed' /\ Returned'
  BY DEF Untouched, Departed, Returned, OneOpen, OpenAtDeparture
<1>6. OneOpen' /\ OpenAtDeparture'
  BY CandidateAssumption DEF Departed, Returned, OneOpen, OpenAtDeparture
<1>7. WorkSaved'
  BY CandidateAssumption DEF Departed, OneOpen, WorkSaved, Holds, Unanswered, Overwriting
<1>8. Files!ManifestsBelong'
  BY DEF Files!ManifestsBelong, Files!NoManifest
<1> QED  BY <1>3, <1>4, <1>5, <1>6, <1>7, <1>8

\* The process dies: memory goes, disk and manifests stay.
LEMMA CrashKeeps ==
  ASSUME FilesInv, Files!Crash
  PROVE  FilesInv'
<1>1. FileTypes /\ Operation /\ fCreated' = fCreated
  BY DEF FilesInv, Files!Crash, Files!turns, Files!files, Files!bounds, Files!Idle
<1>2. Files!Created' = Files!Created
  BY <1>1, CreatedKept
<1> USE <1>1, <1>2, FileFacts
    DEF FilesInv, FileTypes, FileOps, Operation, Known, Opened, Files!MayCapture, Files!Is,
        Files!Crash, Files!turns, Files!files, Files!bounds, Files!Idle
<1>3. FileTypes'
  BY DEF FileKinds
<1>4. Operation'
  BY CandidateAssumption DEF Departed, OneOpen
<1>5. Untouched' /\ Departed' /\ Returned'
  BY DEF Untouched, Departed, Returned, OneOpen, OpenAtDeparture
<1>6. OneOpen' /\ OpenAtDeparture'
  BY CandidateAssumption DEF Departed, Returned, OneOpen, OpenAtDeparture
<1>7. WorkSaved'
  BY CandidateAssumption DEF Departed, OneOpen, WorkSaved, Holds, Unanswered, Overwriting
<1>8. Files!ManifestsBelong'
  BY DEF Files!ManifestsBelong, Files!NoManifest
<1> QED  BY <1>3, <1>4, <1>5, <1>6, <1>7, <1>8

\* Every step of the files keeps the invariant.
LEMMA FilesStep ==
  ASSUME FilesInv, Files!Next
  PROVE  FilesInv'
<1>1. CASE \E p \in Path : Files!RestorePath(p) \/ Files!Write(p) \/ Files!Edit(p)
  BY <1>1, RestoreKeeps, WriteKeeps, EditKeeps
<1>2. CASE \E from \in Candidate \cup {NoCandidate}, to \in Candidate : Files!StartSwitch(from, to)
  BY <1>2, StartSwitchKeeps
<1>3. CASE \E new \in Candidate : Files!StartRegenerate(new)
  BY <1>3, StartRegenerateKeeps
<1>4. CASE Files!SwitchWithoutFiles \/ Files!StartApply \/ Files!ApplyDone \/ Files!ApplyFails
  BY <1>4, SwitchWithoutFilesKeeps, StartApplyKeeps, ApplyDoneKeeps, ApplyFailsKeeps
<1>5. CASE Files!Select \/ Files!SelectFails \/ Files!BaselineFails \/ Files!StartRun \/ Files!Answer
  BY <1>5, SelectKeeps, SelectFailsKeeps, BaselineFailsKeeps, StartRunKeeps, AnswerKeeps
<1>6. CASE Files!RunCompletes \/ Files!RunFailsAnswered \/ Files!RunFailsUnanswered
  BY <1>6, RunCompletesKeeps, RunFailsAnsweredKeeps, RunFailsUnansweredKeeps
<1>7. CASE Files!UndoFails \/ Files!Crash
  BY <1>7, UndoFailsKeeps, CrashKeeps
<1> QED  BY <1>1, <1>2, <1>3, <1>4, <1>5, <1>6, <1>7 DEF Files!Next

\* So does a step of another part.
LEMMA FilesStutter ==
  ASSUME FilesInv, UNCHANGED filesVars
  PROVE  FilesInv'
<1>1. /\ fCreated' = fCreated /\ fAnchored' = fAnchored /\ fDisk' = fDisk /\ fBundle' = fBundle
      /\ fSavedFrom' = fSavedFrom /\ fArmed' = fArmed /\ fOwner' = fOwner /\ fLapsed' = fLapsed
      /\ fEvent' = fEvent /\ fTail' = fTail /\ fOp' = fOp
  BY DEF filesVars
<1>2. Files!Created' = Files!Created
  BY <1>1, CreatedKept
<1> QED
  BY <1>1, <1>2
  DEF FilesInv, FileTypes, Operation, Untouched, Departed, Returned, OneOpen, OpenAtDeparture,
       WorkSaved, Holds,
      Unanswered, Overwriting, Known, Opened, Files!MayCapture, Files!Is, Files!ManifestsBelong,
      Files!NoManifest

\* The invariant while the files are the part that moves.
FilesHold == part = "files" => FilesInv

\* A candidate's manifest holds the files of that candidate, and work on disk
\* is saved before another candidate's files replace it: for every set of
\* candidates and paths, every number of faults, and every interleaving of
\* switches, regenerations, edits and crashes
\* (core/checkpoints/candidate-files.ts, core/agent-loop/regenerate.ts); what
\* excuses a lost marker or a death is stated with the properties.
THEOREM CandidateFilesSafety == Spec => []FilesFollowCandidates
<1>1. Init => FilesHold
  BY FilesStart DEF Init, FilesHold
<1>2. FilesHold /\ [Next]_vars => FilesHold'
  <2> SUFFICES ASSUME FilesHold, [Next]_vars, part' = "files"
               PROVE  FilesInv'
    BY DEF FilesHold
  <2>1. CASE UNCHANGED vars
    BY <2>1, FilesStutter DEF vars, FilesHold
  <2>2. CASE part = "files" /\ Files!Next
    BY <2>2, FilesStep DEF FilesHold
  <2>3. CASE Next /\ ~(part = "files" /\ Files!Next)
    <3>1. part' = part
      BY <2>3 DEF Next
    <3> QED  BY <2>3, <3>1 DEF Next
  <2> QED  BY <2>1, <2>2, <2>3
<1>3. FilesHold => FilesFollowCandidates
  BY FilesSafe DEF FilesHold, FilesFollowCandidates
<1> QED  BY <1>1, <1>2, <1>3, PTL DEF Spec

-----------------------------------------------------------------------------
(* Responses over the WebSocket: the inductive invariant.                    *)

\* Connections, session objects and requests.
Connections == [state : {"connecting", "open", "closing", "closed"}, asked : SUBSET Nat, made : SUBSET Nat]
Sessions == [current : Nat, pending : Nat, last : Nat, prewarm : BOOLEAN, armed : Nat, unavailable : BOOLEAN]
Streams == [stage : {"none", "begin", "connecting", "receiving", "backoff", "http"}, frontier : Nat,
            native : BOOLEAN, retry : Nat, phase : {"prewarm", "generate"}, follows : Nat,
            message : Nat, on : Nat]

\* Types; a session's connections exist.
SocketTypes(sess, socks, str) ==
  /\ socks \in Seq(Connections) /\ sess \in Sessions /\ str \in Streams
  /\ sess.current \in 0..Len(socks) /\ sess.pending \in 0..Len(socks)

\* What a request has under way: a connection of its own while it connects, and
\* while it receives, its message alone on the current connection; otherwise
\* nothing.
Attempt(sess, socks, str) ==
  /\ str.stage = "connecting" <=> sess.pending # 0
  /\ sess.pending # 0 => socks[sess.pending].asked = {} /\ sess.pending # sess.current
  /\ IF str.stage = "receiving"
       THEN str.on # 0 /\ str.on = sess.current /\ socks[str.on].asked = {str.message} /\ sess.armed = 0
       ELSE sess.current # 0 => socks[sess.current].asked = {}

\* A response the session would continue was completed by its current
\* connection, which is open or has lost its peer without knowing yet, and
\* whose close event will clear it.
Chained(sess, socks, str) ==
  sess.last # 0 /\ str.stage # "receiving" =>
    /\ sess.current # 0 /\ sess.armed = sess.current
    /\ sess.last \in socks[sess.current].made
    /\ socks[sess.current].state \in (IF str.stage = "connecting" THEN {"closing"} ELSE {"open", "closing"})

\* Both, with the types.
Linked(sess, socks, str) == SocketTypes(sess, socks, str) /\ Attempt(sess, socks, str)
/\ Chained(sess, socks, str)

\* Every response belongs to the message it answers.
Matched(pairs) == \A pair \in pairs : pair \in Nat \X Nat /\ pair[1] = pair[2]

\* The inductive invariant of the transport.
SocketInv ==
  /\ Linked(rSession, rSockets, rStream) /\ Matched(rAnswers)
  /\ rSent \in Nat /\ rOrphan \in BOOLEAN

\* A new process has no connection.
LEMMA SocketStart ==
  ASSUME Socket!Init
  PROVE  SocketInv
<1>1. rSockets \in Seq(Connections) /\ Len(rSockets) = 0
  BY DEF Socket!Init
<1>2. /\ rSession \in Sessions /\ rSession.current = 0 /\ rSession.pending = 0 /\ rSession.last = 0
      /\ rStream \in Streams /\ rStream.stage = "none" /\ rAnswers = {} /\ rSent \in Nat
      /\ rOrphan \in BOOLEAN
  BY DEF Socket!Init, Socket!NewSession, Socket!NoStream, Sessions, Streams
<1> QED  BY <1>1, <1>2 DEF SocketInv, Linked, SocketTypes, Attempt, Chained, Matched

\* A session object without connection is good whatever the connections are.
LEMMA Disconnected ==
  ASSUME NEW sess \in Sessions, NEW socks \in Seq(Connections), NEW str \in Streams,
         sess.current = 0, sess.pending = 0, sess.last = 0, str.stage \notin {"connecting", "receiving"}
  PROVE  Linked(sess, socks, str)
BY DEF Linked, SocketTypes, Attempt, Chained

\* Closing a session's connections changes their states alone.
LEMMA ClosedConnections ==
  ASSUME NEW socks \in Seq(Connections), NEW sess
  PROVE  /\ Socket!ClosedBy(socks, sess) \in Seq(Connections)
         /\ Len(Socket!ClosedBy(socks, sess)) = Len(socks)
         /\ \A s \in 1..Len(socks) : Socket!ClosedBy(socks, sess)[s].made = socks[s].made
<1>1. /\ DOMAIN socks = 1..Len(socks) /\ Len(socks) \in Nat
      /\ \A s \in 1..Len(socks) : socks[s] \in Connections
  OBVIOUS
<1>2. \A s \in 1..Len(socks) : LET c == [socks[s] EXCEPT !.state = "closed"]
                               IN  c \in Connections /\ c.made = socks[s].made
  BY <1>1 DEF Connections
<1>3. Socket!ClosedBy(socks, sess) =
        [s \in 1..Len(socks) |-> IF s \in {sess.current, sess.pending}
             THEN [socks[s] EXCEPT !.state = "closed"] ELSE socks[s]]
  BY <1>1 DEF Socket!ClosedBy
<1> HIDE DEF Socket!ClosedBy
<1>4. Socket!ClosedBy(socks, sess) \in [1..Len(socks) -> Connections]
  BY <1>1, <1>2, <1>3
<1> QED  BY <1>1, <1>2, <1>3, <1>4

\* A reset session has no connection and no response to continue.
LEMMA ResetSession ==
  ASSUME NEW sess \in Sessions
  PROVE  /\ Socket!Reset(sess) \in Sessions /\ [Socket!Reset(sess) EXCEPT !.unavailable = TRUE] \in Sessions
         /\ Socket!Reset(sess).current = 0 /\ Socket!Reset(sess).pending = 0 /\ Socket!Reset(sess).last = 0
         /\ Socket!Reset(sess).armed = 0
         /\ LET r == [Socket!Reset(sess) EXCEPT !.unavailable = TRUE]
            IN  r.current = 0 /\ r.pending = 0 /\ r.last = 0
BY DEF Socket!Reset, Socket!NewSession, Sessions

\* A request that ends with such a session leaves nothing under way.
LEMMA EndedDisconnects ==
  ASSUME NEW sess \in Sessions, NEW socks \in Seq(Connections), NEW out \in BOOLEAN, Socket!Ended(sess,
  socks, out),
         sess.current = 0, sess.pending = 0, sess.last = 0
  PROVE  Linked(rSession, rSockets, rStream)'
<1>1. rStream' \in Streams /\ rStream'.stage = "none" /\ rSockets' = socks
  BY DEF Socket!Ended, Socket!NoStream, Streams
<1>2. rSession' \in Sessions /\ rSession'.current = 0 /\ rSession'.pending = 0 /\ rSession'.last = 0
  BY DEF Socket!Ended, Socket!NewSession, Sessions
<1> QED  BY <1>1, <1>2, Disconnected

\* So does one that fails, whether it retries, ends or goes to HTTP.
LEMMA FailsDisconnects ==
  ASSUME NEW sess \in Sessions, NEW socks \in Seq(Connections), rStream \in Streams,
         NEW kind, NEW out \in BOOLEAN, Socket!Fails(sess, socks, kind, out)
  PROVE  Linked(rSession, rSockets, rStream)'
<1>1. CASE kind = "terminal" /\ ~rStream.native
  <2>1. Socket!Ended(Socket!Reset(sess), Socket!ClosedBy(socks, sess), out)
    BY <1>1 DEF Socket!Fails
  <2> QED  BY <2>1, EndedDisconnects, ResetSession, ClosedConnections
<1>2. CASE ~(kind = "terminal" /\ ~rStream.native)
  <2>1. /\ rSockets' = Socket!ClosedBy(socks, sess)
        /\ rSession' = IF rStream.retry >= MaxRetries
             THEN [Socket!Reset(sess) EXCEPT !.unavailable = TRUE] ELSE Socket!Reset(sess)
        /\ rStream' = [Socket!NoStream EXCEPT
                !.frontier = rStream.frontier, !.native = rStream.native /\ ~(kind = "terminal"
                /\ rStream.native),
                !.retry = IF rStream.retry >= MaxRetries THEN rStream.retry ELSE rStream.retry + 1,
                !.stage = IF rStream.retry >= MaxRetries THEN "http"
                          ELSE IF kind = "terminal" /\ rStream.native THEN "begin" ELSE "backoff"]
    BY <1>2 DEF Socket!Fails
  <2>2. PICK native \in BOOLEAN, retry \in Nat, stage \in {"http", "begin", "backoff"} :
          rStream' = [Socket!NoStream EXCEPT !.frontier = rStream.frontier, !.native = native,
                                             !.retry = retry, !.stage = stage]
    <3>1. (rStream.native /\ ~(kind = "terminal" /\ rStream.native)) \in BOOLEAN
      OBVIOUS
    <3>2. (IF rStream.retry >= MaxRetries THEN rStream.retry ELSE rStream.retry + 1) \in Nat
      BY DEF Streams
    <3>3. (IF rStream.retry >= MaxRetries THEN "http"
           ELSE IF kind = "terminal" /\ rStream.native THEN "begin"
                                          ELSE "backoff") \in {"http", "begin", "backoff"}
      OBVIOUS
    <3> QED  BY <2>1, <3>1, <3>2, <3>3
  <2>3. rStream' \in Streams /\ rStream'.stage \in {"http", "begin", "backoff"}
    BY <2>2 DEF Socket!NoStream, Streams
  <2> QED  BY <2>1, <2>3, ResetSession, ClosedConnections, Disconnected
<1> QED  BY <1>1, <1>2

-----------------------------------------------------------------------------
(* Responses over the WebSocket: what a request writes.                      *)

\* A message names a response its connection has completed.
Remembered == rStream'.follows = 0 \/ rStream'.follows \in rSockets'[rStream'.on].made

\* A message sent on an idle connection is the only one it has to answer.
LEMMA SendsLinks ==
  ASSUME NEW sess, NEW socks, NEW str, SocketTypes(sess, socks, str), rSent \in Nat,
         sess.current # 0, sess.pending = 0, socks[sess.current].asked = {},
         Socket!Sends(sess, socks, str)
  PROVE  /\ Linked(rSession, rSockets, rStream)' /\ rSent' \in Nat
         /\ rOrphan' = rOrphan
         /\ str.follows \in socks[sess.current].made => Remembered
         /\ rStream'.follows = str.follows
<1>1. /\ socks \in Seq(Connections) /\ sess \in Sessions /\ str \in Streams
      /\ sess.current \in 1..Len(socks) /\ DOMAIN socks = 1..Len(socks) /\ Len(socks) \in Nat
      /\ socks[sess.current] \in Connections
  BY DEF SocketTypes, Sessions
<1>2. /\ rSent' = rSent + 1 /\ rSession' = [sess EXCEPT !.armed = 0] /\ rOrphan' = rOrphan
      /\ rSockets' = [socks EXCEPT ![sess.current].asked = @ \cup {rSent'}]
      /\ rStream' = [str EXCEPT !.stage = "receiving", !.message = rSent', !.on = sess.current]
  BY DEF Socket!Sends
<1>3. /\ rSession' \in Sessions /\ rSession'.current = sess.current /\ rSession'.pending = 0
      /\ rSession'.armed = 0 /\ rSent' \in Nat
  BY <1>1, <1>2 DEF Sessions
<1>4. /\ rStream' \in Streams /\ rStream'.stage = "receiving" /\ rStream'.message = rSent'
      /\ rStream'.on = sess.current /\ rStream'.follows = str.follows
  BY <1>1, <1>2, <1>3 DEF Streams, Sessions
<1> DEFINE asking == [socks[sess.current] EXCEPT !.asked = @ \cup {rSent'}]
<1>5. asking \in Connections /\ asking.asked = {rSent'} /\ asking.made = socks[sess.current].made
  BY <1>1, <1>3 DEF Connections
<1>6. rSockets' = [socks EXCEPT ![sess.current] = asking]
  BY <1>2
<1> HIDE DEF asking
<1>7. /\ rSockets' \in Seq(Connections) /\ Len(rSockets') = Len(socks) /\ rSockets'[sess.current] = asking
  BY <1>1, <1>5, <1>6
<1>8. Linked(rSession, rSockets, rStream)'
  BY <1>1, <1>3, <1>4, <1>5, <1>7 DEF Linked, SocketTypes, Attempt, Chained
<1> QED  BY <1>2, <1>3, <1>4, <1>5, <1>7, <1>8 DEF Remembered

\* A session that may send: no connection under way, nothing unanswered.
Prepared(sess, socks, str) ==
  /\ SocketTypes(sess, socks, str) /\ sess.pending = 0
  /\ sess.current # 0 => socks[sess.current].asked = {}
  /\ sess.last # 0 => /\ sess.current # 0 /\ sess.armed = sess.current
                      /\ sess.last \in socks[sess.current].made
                      /\ socks[sess.current].state \in {"open", "closing"}

\* A request of such a session is sent, waits for a new connection or fails.
LEMMA RequestLinks ==
  ASSUME NEW sess, NEW socks, NEW str, Prepared(sess, socks, str), rSent \in Nat, rOrphan \in BOOLEAN,
         rStream \in Streams, Socket!Request(sess, socks, str)
  PROVE  /\ Linked(rSession, rSockets, rStream)' /\ rSent' \in Nat /\ rOrphan' \in BOOLEAN
         /\ rSent' # rSent => Remembered
<1>1. /\ socks \in Seq(Connections) /\ sess \in Sessions /\ str \in Streams /\ sess.pending = 0
      /\ sess.current \in 0..Len(socks) /\ Len(socks) \in Nat
  BY DEF Prepared, SocketTypes
<1>2. CASE sess.current # 0 /\ socks[sess.current].state = "open"
  <2>1. Socket!Dispatch(sess, socks, str)
    BY <1>2 DEF Socket!Request
  <2>2. CASE (str.follows = 0 \/ sess.last = str.follows) /\ Socket!Sends(sess, socks, str)
    <3>1. str.follows = 0 \/ str.follows \in socks[sess.current].made
      BY <2>2 DEF Prepared
    <3> QED  BY <1>2, <2>2, <3>1, SendsLinks DEF Prepared, Remembered
  <2>3. CASE Socket!Fails(sess, socks, "retryable", rOrphan) /\ rSent' = rSent
    <3>1. rOrphan' \in BOOLEAN
      BY <2>3 DEF Socket!Fails, Socket!Ended
    <3> QED  BY <1>1, <2>3, <3>1, FailsDisconnects
  <2> QED  BY <2>1, <2>2, <2>3 DEF Socket!Dispatch
<1>3. CASE ~(sess.current # 0 /\ socks[sess.current].state = "open")
  <2>1. /\ rSockets' = Append(socks, Socket!NewSocket) /\ rSession' = [sess EXCEPT !.pending = Len(rSockets')]
        /\ rStream' = [str EXCEPT !.stage = "connecting"] /\ rOrphan' = rOrphan /\ rSent' = rSent
    BY <1>3 DEF Socket!Request
  <2>2. Socket!NewSocket \in Connections /\ Socket!NewSocket.asked = {}
    BY DEF Socket!NewSocket, Connections
  <2>3. /\ rSockets' \in Seq(Connections) /\ Len(rSockets') = Len(socks) + 1
        /\ rSockets'[Len(socks) + 1].asked = {} /\ \A s \in 1..Len(socks) : rSockets'[s] = socks[s]
    BY <1>1, <2>1, <2>2
  <2>4. /\ rSession' \in Sessions /\ rSession'.current = sess.current /\ rSession'.pending = Len(socks) + 1
        /\ rSession'.armed = sess.armed /\ rSession'.last = sess.last
    BY <1>1, <2>1, <2>3 DEF Sessions
  <2>5. rStream' \in Streams /\ rStream'.stage = "connecting"
    BY <1>1, <2>1 DEF Streams
  <2>6. SocketTypes(rSession, rSockets, rStream)'
    BY <1>1, <2>3, <2>4, <2>5 DEF SocketTypes
  <2>7. Attempt(rSession, rSockets, rStream)' /\ Chained(rSession, rSockets, rStream)'
    BY <1>1, <1>3, <2>3, <2>4, <2>5 DEF Attempt, Chained, Prepared
  <2> QED  BY <2>1, <2>6, <2>7 DEF Linked
<1> QED  BY <1>2, <1>3

-----------------------------------------------------------------------------
(* Responses over the WebSocket: the steps.                                  *)

\* A new message names a response that its connection completed, or one that
\* was completed by a connection whose end has not been reported yet.
Predecessor ==
  rSent' # rSent /\ rStream'.follows # 0 =>
    \/ rStream'.follows \in rSockets'[rStream'.on].made
    \/ \E s \in DOMAIN rSockets : rStream'.follows \in rSockets[s].made /\ rSockets[s].state = "closing"

\* What types say of the connections.
LEMMA SocketFacts ==
  ASSUME SocketInv
  PROVE  /\ rSockets \in Seq(Connections) /\ rSession \in Sessions /\ rStream \in Streams
         /\ rSession.current \in 0..Len(rSockets) /\ rSession.pending \in 0..Len(rSockets)
         /\ DOMAIN rSockets = 1..Len(rSockets) /\ Len(rSockets) \in Nat
         /\ \A s \in 1..Len(rSockets) : rSockets[s] \in Connections
         /\ rSent \in Nat /\ rOrphan \in BOOLEAN
BY DEF SocketInv, Linked, SocketTypes

\* What a failed or cancelled attempt leaves.
LEMMA GivesUp ==
  ASSUME SocketInv, Linked(rSession, rSockets, rStream)', rAnswers' = rAnswers, rSent' = rSent,
  rOrphan' \in BOOLEAN
  PROVE  SocketInv' /\ Predecessor
BY DEF SocketInv, Predecessor

\* A failed attempt keeps the invariant and sends nothing.
LEMMA FailsSafe ==
  ASSUME SocketInv, NEW sess \in Sessions, NEW socks \in Seq(Connections), NEW kind, NEW out \in BOOLEAN,
         Socket!Fails(sess, socks, kind, out), rAnswers' = rAnswers, rSent' = rSent
  PROVE  SocketInv' /\ Predecessor
<1>1. rOrphan' \in BOOLEAN
  BY DEF Socket!Fails, Socket!Ended
<1> QED  BY <1>1, FailsDisconnects, SocketFacts, GivesUp

\* A request that starts, waits or is handed to HTTP has no connection of its own under way.
LEMMA StageMoves ==
  ASSUME SocketInv, rStream' \in Streams, rSession' = rSession, rSockets' = rSockets,
         rStream.stage \notin {"connecting", "receiving"}, rStream'.stage \notin {"connecting", "receiving"}
  PROVE  Linked(rSession, rSockets, rStream)'
BY DEF SocketInv, Linked, SocketTypes, Attempt, Chained

\* A request starts, or goes to HTTP at once.
LEMMA StartRequestKeeps ==
  ASSUME SocketInv, Socket!StartRequest
  PROVE  SocketInv' /\ Predecessor
<1>1. \A pair \in rAnswers : pair[2] \in Nat
  BY DEF SocketInv, Matched
<1>2. rStream' \in Streams /\ rStream'.stage \in {"http", "begin"}
  <2>1. PICK frontier \in {0} \cup Socket!Generated, native \in BOOLEAN :
          rStream' = [Socket!NoStream EXCEPT !.stage = IF rSession.unavailable THEN "http" ELSE "begin",
                                             !.frontier = frontier, !.native = native]
    BY DEF Socket!StartRequest
  <2>2. frontier \in Nat
    BY <1>1 DEF Socket!Generated
  <2> QED  BY <2>1, <2>2 DEF Socket!NoStream, Streams
<1>3. /\ rSession' = rSession /\ rSockets' = rSockets /\ rAnswers' = rAnswers /\ rSent' = rSent
      /\ rOrphan' = rOrphan
      /\ rStream.stage = "none"
  BY DEF Socket!StartRequest, Socket!At
<1> QED  BY <1>2, <1>3, StageMoves, GivesUp, SocketFacts

\* The backoff is over.
LEMMA RetryKeeps ==
  ASSUME SocketInv, Socket!Retry
  PROVE  SocketInv' /\ Predecessor
<1>1. /\ rSession' = rSession /\ rSockets' = rSockets /\ rAnswers' = rAnswers /\ rSent' = rSent
      /\ rOrphan' = rOrphan
      /\ rStream.stage = "backoff" /\ rStream' = [rStream EXCEPT !.stage = "begin"]
  BY DEF Socket!Retry, Socket!At
<1>2. rStream' \in Streams /\ rStream'.stage = "begin"
  BY <1>1, SocketFacts DEF Streams
<1> QED  BY <1>1, <1>2, StageMoves, GivesUp, SocketFacts

\* An attempt begins: it continues the last response only if that is the
\* request's frontier, and reuses or replaces the connection.
LEMMA BeginKeeps ==
  ASSUME SocketInv, Socket!Begin
  PROVE  SocketInv' /\ Predecessor
<1> DEFINE continues == rSession.last # 0 /\ rSession.last = rStream.frontier
           sess == IF rSession.last # 0 /\ ~continues THEN Socket!ClearContinuation(rSession) ELSE rSession
           str == [rStream EXCEPT !.follows = IF continues THEN rSession.last ELSE 0,
                               !.phase = IF ~continues /\ sess.prewarm THEN "prewarm" ELSE "generate"]
<1>1. rStream.stage = "begin" /\ rAnswers' = rAnswers
  BY DEF Socket!Begin, Socket!At
<1>2. sess \in Sessions /\ sess.current = rSession.current /\ sess.pending = rSession.pending
      /\ sess.armed = rSession.armed /\ (sess.last = 0 \/ sess.last = rSession.last)
  BY SocketFacts DEF Socket!ClearContinuation, Sessions
<1>3. str \in Streams
  BY SocketFacts DEF Streams, Sessions
<1> HIDE DEF sess, str
<1>4. Prepared(sess, rSockets, str)
  BY <1>1, <1>2, <1>3, SocketFacts DEF Prepared, SocketTypes, SocketInv, Linked, Attempt, Chained
<1>5. Prepared(Socket!Reset(sess), Socket!ClosedBy(rSockets, sess), str)
  <2>1. Socket!ClosedBy(rSockets, sess) \in Seq(Connections)
    BY SocketFacts, ClosedConnections
  <2>2. /\ Socket!Reset(sess) \in Sessions /\ Socket!Reset(sess).current = 0 /\ Socket!Reset(sess).pending = 0
        /\ Socket!Reset(sess).last = 0
    BY <1>2, ResetSession
  <2> QED  BY <1>3, <2>1, <2>2 DEF Prepared, SocketTypes
<1>6. Socket!Request(sess, rSockets, str) \/ Socket!Request(Socket!Reset(sess),
Socket!ClosedBy(rSockets, sess), str)
  BY DEF Socket!Begin, sess, str
<1>7. /\ Linked(rSession, rSockets, rStream)' /\ rSent' \in Nat /\ rOrphan' \in BOOLEAN
      /\ rSent' # rSent => Remembered
  BY <1>4, <1>5, <1>6, RequestLinks, SocketFacts
<1> QED  BY <1>1, <1>7 DEF SocketInv, Predecessor, Remembered

\* The connection of an attempt opens and the message is sent on it.
LEMMA OpenedKeeps ==
  ASSUME SocketInv, Socket!Opened
  PROVE  SocketInv' /\ Predecessor
<1> DEFINE s == rSession.pending
           sess == [rSession EXCEPT !.current = s, !.pending = 0]
           socks == [rSockets EXCEPT ![s].state = "open"]
<1>1. rStream.stage = "connecting" /\ rAnswers' = rAnswers /\ Socket!Dispatch(sess, socks, rStream)
  BY DEF Socket!Opened, Socket!At
<1>2. s \in 1..Len(rSockets) /\ s # rSession.current /\ rSockets[s].asked = {}
  BY <1>1, SocketFacts DEF SocketInv, Linked, Attempt
<1>3. sess \in Sessions /\ sess.current = s /\ sess.pending = 0 /\ sess.last = rSession.last
  BY <1>2, SocketFacts DEF Sessions
<1>4. /\ socks \in Seq(Connections) /\ Len(socks) = Len(rSockets) /\ socks[s].asked = {}
      /\ socks[s].made = rSockets[s].made
  BY <1>2, SocketFacts DEF Connections
<1> HIDE DEF sess, socks
<1>5. SocketTypes(sess, socks, rStream)
  BY <1>2, <1>3, <1>4, SocketFacts DEF SocketTypes
<1>6. CASE (rStream.follows = 0 \/ sess.last = rStream.follows) /\ Socket!Sends(sess, socks, rStream)
  <2>1. /\ Linked(rSession, rSockets, rStream)' /\ rSent' \in Nat /\ rOrphan' = rOrphan
        /\ rStream'.follows = rStream.follows
    BY <1>2, <1>3, <1>4, <1>5, <1>6, SendsLinks, SocketFacts
  <2>2. rStream.follows # 0 => /\ rSession.current \in DOMAIN rSockets
                               /\ rStream.follows \in rSockets[rSession.current].made
                               /\ rSockets[rSession.current].state = "closing"
    BY <1>1, <1>3, <1>6, SocketFacts DEF SocketInv, Linked, Chained
  <2> QED  BY <1>1, <2>1, <2>2, SocketFacts DEF SocketInv, Predecessor
<1>7. CASE Socket!Fails(sess, socks, "retryable", rOrphan) /\ rSent' = rSent
  BY <1>1, <1>3, <1>4, <1>7, FailsSafe, SocketFacts
<1> QED  BY <1>1, <1>6, <1>7 DEF Socket!Dispatch

\* A completed response is continued only on the connection that is still open.
LEMMA MarksCompleted ==
  ASSUME SocketInv, rStream.stage = "receiving", NEW m \in Nat
  PROVE  LET sess == Socket!MarkCompleted(rSession, m)
         IN  /\ sess \in Sessions /\ sess.current = rSession.current /\ sess.pending = 0
             /\ sess.last # 0 => sess.last = m /\ sess.armed = sess.current
                  /\ rSockets[sess.current].state = "open"
<1>1. rSession.current # 0 /\ rSession.pending = 0 /\ rSession.armed = 0
  BY DEF SocketInv, Linked, Attempt
<1> QED  BY <1>1, SocketFacts DEF Socket!MarkCompleted, Socket!ClearContinuation, Socket!Open, Sessions

\* A completed event ends the request, or the prewarming before it.
LEMMA CompletedSafe ==
  ASSUME SocketInv, rStream.stage = "receiving", NEW m \in rSockets[rStream.on].asked, Socket!Completed(m)
  PROVE  SocketInv' /\ Predecessor
<1> DEFINE on == rStream.on
           sess == Socket!MarkCompleted(rSession, m)
           socks == [rSockets EXCEPT ![on].made = @ \cup {m}, ![on].asked = @ \ {m}]
           str == [rStream EXCEPT !.phase = "generate", !.follows = m]
<1>1. /\ on \in 1..Len(rSockets) /\ on = rSession.current /\ rSockets[on].asked = {rStream.message}
      /\ m = rStream.message /\ m \in Nat
  BY SocketFacts DEF SocketInv, Linked, Attempt, Streams
<1>2. /\ sess \in Sessions /\ sess.current = on /\ sess.pending = 0
      /\ sess.last # 0 => sess.last = m /\ sess.armed = on /\ rSockets[on].state = "open"
  BY <1>1, MarksCompleted
<1>3. /\ socks \in Seq(Connections) /\ Len(socks) = Len(rSockets) /\ socks[on].asked = {}
      /\ m \in socks[on].made /\ socks[on].state = rSockets[on].state
  <2> DEFINE done == [[rSockets[on] EXCEPT !.made = @ \cup {m}] EXCEPT !.asked = @ \ {m}]
  <2>1. done \in Connections /\ done.asked = {} /\ m \in done.made /\ done.state = rSockets[on].state
    BY <1>1, SocketFacts DEF Connections
  <2>2. socks = [rSockets EXCEPT ![on] = done]
    BY <1>1, SocketFacts DEF Connections
  <2> HIDE DEF done, socks
  <2> QED  BY <1>1, <2>1, <2>2, SocketFacts
<1>4. str \in Streams /\ str.follows = m
  BY <1>1, SocketFacts DEF Streams
<1>5. CASE rStream.phase = "prewarm"
  <2>1. Socket!Request(sess, socks, str) /\ rAnswers' = rAnswers
    BY <1>5 DEF Socket!Completed
  <2> HIDE DEF sess, socks, str
  <2>2. Prepared(sess, socks, str)
    BY <1>1, <1>2, <1>3, <1>4, SocketFacts DEF Prepared, SocketTypes
  <2> QED  BY <2>1, <2>2, RequestLinks, SocketFacts DEF SocketInv, Predecessor, Remembered
<1>6. CASE rStream.phase # "prewarm"
  <2>1. /\ rAnswers' = rAnswers \cup {<<rStream.message, m>>} /\ rSent' = rSent
        /\ Socket!Ended(sess, socks, rOrphan)
    BY <1>6 DEF Socket!Completed
  <2>2. /\ rStream' \in Streams /\ rStream'.stage = "none" /\ rOrphan' \in BOOLEAN /\ rSockets' = socks
        /\ rSession' = IF rOrphan THEN Socket!NewSession ELSE sess
    BY <2>1 DEF Socket!Ended, Socket!NoStream, Streams
  <2> HIDE DEF sess, socks
  <2>3. Linked(rSession, rSockets, rStream)'
    <3>1. CASE rOrphan
      <4>1. rSession' \in Sessions /\ rSession'.current = 0 /\ rSession'.pending = 0 /\ rSession'.last = 0
        BY <2>2, <3>1 DEF Socket!NewSession, Sessions
      <4> QED  BY <1>3, <2>2, <4>1, Disconnected
    <3>2. CASE ~rOrphan
      BY <1>1, <1>2, <1>3, <2>2, <3>2, SocketFacts DEF Linked, SocketTypes, Attempt, Chained
    <3> QED  BY <3>1, <3>2
  <2>4. Matched(rAnswers)'
    BY <1>1, <2>1 DEF SocketInv, Matched
  <2> QED  BY <2>1, <2>2, <2>3, <2>4 DEF SocketInv, Predecessor
<1> QED  BY <1>5, <1>6

\* An event that ends a message: completed, failed or retryable.
LEMMA TerminalKeeps ==
  ASSUME SocketInv, Socket!Terminal
  PROVE  SocketInv' /\ Predecessor
<1>1. rStream.stage = "receiving"
  BY DEF Socket!Terminal, Socket!At
<1>2. PICK m \in rSockets[rStream.on].asked :
        \/ Socket!Completed(m)
        \/ \E kind \in {"retryable", "terminal"} :
             Socket!Fails(rSession, rSockets, kind, rOrphan) /\ rAnswers' = rAnswers /\ rSent' = rSent
  BY DEF Socket!Terminal
<1> QED  BY <1>1, <1>2, CompletedSafe, FailsSafe, SocketFacts

\* The connection fails, or no event arrives in time.
LEMMA AttemptFails ==
  ASSUME SocketInv, Socket!ConnectFails \/ Socket!ReceiveTimesOut
  PROVE  SocketInv' /\ Predecessor
BY FailsSafe, SocketFacts DEF Socket!ConnectFails, Socket!ReceiveTimesOut

\* The peer is lost and nobody knows.
LEMMA DropKeeps ==
  ASSUME SocketInv, NEW s \in DOMAIN rSockets, Socket!Drop(s)
  PROVE  SocketInv' /\ Predecessor
<1>1. /\ rSession' = rSession /\ rStream' = rStream /\ rAnswers' = rAnswers /\ rSent' = rSent
      /\ rOrphan' = rOrphan
      /\ rSockets' = [rSockets EXCEPT ![s].state = "closing"] /\ rSockets[s].state = "open"
  BY DEF Socket!Drop
<1>2. /\ rSockets' \in Seq(Connections) /\ Len(rSockets') = Len(rSockets)
      /\ \A t \in 1..Len(rSockets) : rSockets'[t].asked = rSockets[t].asked
         /\ rSockets'[t].made = rSockets[t].made
      /\ \A t \in 1..Len(rSockets) : rSockets'[t].state = IF t = s THEN "closing" ELSE rSockets[t].state
  BY <1>1, SocketFacts DEF Connections
<1>3. Linked(rSession, rSockets, rStream)'
  BY <1>1, <1>2, SocketFacts DEF SocketInv, Linked, SocketTypes, Attempt, Chained
<1> QED  BY <1>1, <1>3, GivesUp, SocketFacts

\* The close event of a connection clears what the session would continue on
\* it.
LEMMA CloseEventKeeps ==
  ASSUME SocketInv, NEW s \in DOMAIN rSockets, Socket!CloseEvent(s)
  PROVE  SocketInv' /\ Predecessor
<1> DEFINE closed == [rSockets EXCEPT ![s].state = "closed"]
<1>1. /\ closed \in Seq(Connections) /\ Len(closed) = Len(rSockets)
      /\ \A t \in 1..Len(rSockets) : closed[t].asked = rSockets[t].asked /\ closed[t].made = rSockets[t].made
      /\ \A t \in 1..Len(rSockets) : closed[t].state = IF t = s THEN "closed" ELSE rSockets[t].state
  BY SocketFacts DEF Connections
<1>2. rAnswers' = rAnswers /\ rSent' = rSent
  BY DEF Socket!CloseEvent
<1>3. CASE rStream.stage = "receiving" /\ rStream.on = s
  <2>1. Socket!Fails(rSession, closed, "retryable", rOrphan)
    BY <1>3 DEF Socket!CloseEvent, Socket!At
  <2> QED  BY <1>1, <1>2, <2>1, FailsSafe, SocketFacts
<1>4. CASE ~(rStream.stage = "receiving" /\ rStream.on = s)
  <2>1. /\ rSockets' = closed /\ rOrphan' = rOrphan /\ rStream' = rStream
        /\ rSession' = IF rSession.armed # s THEN rSession
                       ELSE IF rSession.current = s
                       THEN [Socket!ClearContinuation(rSession) EXCEPT !.current = 0, !.armed = 0]
                       ELSE [rSession EXCEPT !.armed = 0]
    BY <1>4 DEF Socket!CloseEvent, Socket!At
  <2> HIDE DEF closed
  <2>2. CASE rSession.armed = s
    <3>1. rStream.stage # "receiving"
      BY <2>2, SocketFacts DEF SocketInv, Linked, Attempt
    <3>2. /\ rSession' \in Sessions /\ rSession'.pending = rSession.pending
          /\ \/ rSession'.current = 0 /\ rSession'.last = 0
             \/ rSession.current # s /\ rSession'.current = rSession.current /\ rSession'.last = rSession.last
      BY <2>1, <2>2, SocketFacts DEF Sessions, Socket!ClearContinuation
    <3>3. rSession'.last = 0
      BY <2>2, <3>1, <3>2 DEF SocketInv, Linked, Chained
    <3>4. Linked(rSession, rSockets, rStream)'
      BY <1>1, <2>1, <3>1, <3>2, <3>3, SocketFacts DEF SocketInv, Linked, SocketTypes, Attempt, Chained
    <3> QED  BY <1>2, <2>1, <3>4, GivesUp, SocketFacts
  <2>3. rSession.armed # s => SocketInv' /\ Predecessor
    <3>1. SUFFICES ASSUME rSession.armed # s PROVE Linked(rSession, rSockets, rStream)'
      BY <1>2, <2>1, GivesUp, SocketFacts
    <3> QED  BY <1>1, <2>1, <3>1, SocketFacts DEF SocketInv, Linked, SocketTypes, Attempt, Chained, Sessions
  <2> QED  BY <2>2, <2>3
<1> QED  BY <1>3, <1>4

\* The caller cancels, or the HTTP fallback ends.
LEMMA CancelKeeps ==
  ASSUME SocketInv, Socket!Cancel \/ Socket!HttpEnds
  PROVE  SocketInv' /\ Predecessor
<1>1. rAnswers' = rAnswers /\ rSent' = rSent
  BY DEF Socket!Cancel, Socket!HttpEnds
<1>2. CASE rStream.stage \in {"backoff", "http"} /\ Socket!Ended(rSession, rSockets, rOrphan)
  <2>1. /\ rStream' \in Streams /\ rStream'.stage = "none" /\ rOrphan' \in BOOLEAN /\ rSockets' = rSockets
        /\ rSession' = IF rOrphan THEN Socket!NewSession ELSE rSession
    BY <1>2 DEF Socket!Ended, Socket!NoStream, Streams
  <2>2. CASE rOrphan
    <3>1. rSession' \in Sessions /\ rSession'.current = 0 /\ rSession'.pending = 0 /\ rSession'.last = 0
      BY <2>1, <2>2 DEF Socket!NewSession, Sessions
    <3> QED  BY <1>1, <2>1, <3>1, Disconnected, SocketFacts, GivesUp
  <2>3. CASE ~rOrphan
    BY <1>1, <1>2, <2>1, <2>3, StageMoves, GivesUp
  <2> QED  BY <2>2, <2>3
<1>3. CASE Socket!Ended(Socket!Reset(rSession), Socket!ClosedBy(rSockets, rSession), rOrphan)
  <2>1. rOrphan' \in BOOLEAN
    BY <1>3 DEF Socket!Ended
  <2> QED  BY <1>1, <1>3, <2>1, EndedDisconnects, ResetSession, ClosedConnections, SocketFacts, GivesUp
<1> QED  BY <1>2, <1>3 DEF Socket!Cancel, Socket!HttpEnds, Socket!At

\* The session is closed under a request or without one.
LEMMA CloseSessionKeeps ==
  ASSUME SocketInv, Socket!CloseSession
  PROVE  SocketInv' /\ Predecessor
<1>1. rAnswers' = rAnswers /\ rSent' = rSent
  BY DEF Socket!CloseSession
<1>2. CASE rStream.stage = "none" /\ rSession' = Socket!NewSession
              /\ rSockets' = Socket!ClosedBy(rSockets, rSession)
           /\ rOrphan' = rOrphan /\ rStream' = rStream
  <2>1. rSession' \in Sessions /\ rSession'.current = 0 /\ rSession'.pending = 0 /\ rSession'.last = 0
    BY <1>2 DEF Socket!NewSession, Sessions
  <2> QED  BY <1>1, <1>2, <2>1, Disconnected, ClosedConnections, SocketFacts, GivesUp
<1>3. CASE rStream.stage \in {"begin", "backoff", "http"} /\ rSession' = Socket!Reset(rSession)
           /\ rSockets' = Socket!ClosedBy(rSockets, rSession) /\ rOrphan' = TRUE /\ rStream' = rStream
  BY <1>1, <1>3, Disconnected, ResetSession, ClosedConnections, SocketFacts, GivesUp
<1>4. CASE \E kind \in {"retryable", "terminal"} : Socket!Fails(rSession, rSockets, kind, TRUE)
  BY <1>1, <1>4, FailsSafe, SocketFacts
<1> QED  BY <1>2, <1>3, <1>4 DEF Socket!CloseSession, Socket!At

\* A compaction starts a new chain.
LEMMA CommitCompactKeeps ==
  ASSUME SocketInv, Socket!CommitCompact
  PROVE  SocketInv' /\ Predecessor
<1>1. /\ rStream.stage = "none" /\ rStream' = rStream /\ rSession' = Socket!ClearContinuation(rSession)
      /\ rSockets' = rSockets /\ rAnswers' = rAnswers /\ rSent' = rSent /\ rOrphan' = rOrphan
  BY DEF Socket!CommitCompact, Socket!At
<1>2. /\ rSession' \in Sessions /\ rSession'.current = rSession.current
      /\ rSession'.pending = rSession.pending
      /\ rSession'.last = 0
  BY <1>1, SocketFacts DEF Socket!ClearContinuation, Sessions
<1>3. Linked(rSession, rSockets, rStream)'
  BY <1>1, <1>2, SocketFacts DEF SocketInv, Linked, SocketTypes, Attempt, Chained
<1> QED  BY <1>1, <1>3, GivesUp, SocketFacts

\* Every step of the transport keeps the invariant and names a predecessor it
\* may name.
LEMMA SocketStep ==
  ASSUME SocketInv, Socket!Next
  PROVE  SocketInv' /\ Predecessor
BY StartRequestKeeps, RetryKeeps, BeginKeeps, OpenedKeeps, TerminalKeeps, AttemptFails, DropKeeps,
     CloseEventKeeps,
   CancelKeeps, CloseSessionKeeps, CommitCompactKeeps DEF Socket!Next

\* The invariant while the transport is the part that moves.
SocketsHold == part = "socket" => SocketInv

\* An answer belongs to its request, and a chain of responses to its
\* connection, for every number of requests, drops, closes and retries
\* (providers/openai-responses/websocket.ts, adapter.ts): no late event of an
\* abandoned message is taken for the answer of another one, and a message
\* continues a response only on the connection that completed it, or that has
\* not told yet that it is gone.
THEOREM ExchangeSafety == Spec => ExchangesIsolated
<1>1. Init => SocketsHold
  BY SocketStart DEF Init, SocketsHold
<1>2. SocketsHold /\ [Next]_vars => SocketsHold' /\ (UNCHANGED socketVars \/ (SocketInv' /\ Predecessor))
  <2> SUFFICES ASSUME SocketsHold, [Next]_vars
               PROVE  SocketsHold' /\ (UNCHANGED socketVars \/ (SocketInv' /\ Predecessor))
    OBVIOUS
  <2>1. CASE UNCHANGED <<part, socketVars>>
    BY <2>1 DEF SocketsHold, SocketInv, Linked, SocketTypes, Attempt, Chained, Matched, socketVars
  <2>2. CASE part = "socket" /\ Socket!Next
    BY <2>2, SocketStep DEF SocketsHold
  <2>3. UNCHANGED <<part, socketVars>> \/ (part = "socket" /\ Socket!Next)
        \/ (part' = part /\ part # "socket" /\ UNCHANGED socketVars)
    BY DEF Next, vars
  <2> QED  BY <2>1, <2>2, <2>3 DEF SocketsHold
<1>3. UNCHANGED socketVars \/ (SocketInv' /\ Predecessor)
        => [ /\ rSent' # rSent /\ rStream'.follows # 0 =>
                  \/ rStream'.follows \in rSockets'[rStream'.on].made
                  \/ \E s \in DOMAIN rSockets : /\ rStream'.follows \in rSockets[s].made
                                                /\ rSockets[s].state = "closing"
             /\ \A pair \in rAnswers' : pair[1] = pair[2] ]_(Socket!vars)
  BY DEF SocketInv, Matched, Predecessor, Socket!vars, socketVars
<1> QED  BY <1>1, <1>2, <1>3, PTL DEF Spec, ExchangesIsolated, Socket!ExchangesIsolated


-----------------------------------------------------------------------------
(* The Workspace page's editor: the inductive invariant.                     *)

Pool == Range(eOrder)
Works == {"gated", "free"}
SaveKinds == {"save", "saveAndClose", "force", "saveAs"}

\* The user gave the buffer up, or a race the property excepts has reached it.
Given(p) == p \in eRaced \/ <<"buffer", p>> \in eAgreed

Work == [kind : SaveKinds \cup {"idle", "open", "handoff", "reload", "move", "delete"},
         stage : {"none", "preview", "read", "stat", "write", "stamp", "remove", "rename", "apply",
                  "settings", "reconcile"},
         path : Path \cup {NoPath}, target : Path \cup {NoPath}, content : Nat]
Question == [kind : {"none", "dirty", "overwrite", "saveAsOverwrite", "reload", "delete", "moveOverwrite"},
             path : Path \cup {NoPath}, source : Path \cup {NoPath}]

\* Types; no number is above the clock.
EditorTypes ==
  /\ eClock \in Nat
  /\ eDisk \in [Path -> [content : Nat, stamp : Nat]]
  /\ eMeta \in [Path -> [snapshot : Nat, stamp : Nat, initial : Nat]]
  /\ eText \in [Path -> Nat]
  /\ eOps \in [Editor!Slot -> Work]
  /\ eDialog \in Question
  /\ \A p \in Path :
       /\ eDisk[p].content <= eClock /\ eDisk[p].stamp <= eClock
       /\ eMeta[p].snapshot <= eClock /\ eMeta[p].stamp <= eClock /\ eMeta[p].initial <= eClock
       /\ eText[p] <= eClock
  /\ \A s \in Editor!Slot : eOps[s].content <= eClock

\* The pool's order and marks; those for changes on disk may be left of closed buffers.
PoolAgrees ==
  /\ eOrder \in Seq(Path) /\ IsInjective(eOrder)
  /\ eDirty \subseteq Pool
  /\ eActive \in Pool \cup {NoPath}

\* What a piece of work carries.
WorkFits(s) ==
  LET op == eOps[s]
  IN  /\ op.kind \in SaveKinds => op.stage \in {"stat", "write", "stamp"} /\ op.path \in Path /\ op.target \in Path
      /\ op.kind \in {"move", "delete"}
           => op.stage \in {"remove", "rename", "apply"} /\ op.path \in Path /\ op.target \in Path
      /\ op.kind = "reload" => op.stage = "read" /\ op.path \in Path /\ op.target \in Path
      /\ op.kind \in SaveKinds \ {"saveAs"} => op.path = op.target
      /\ op.kind = "saveAs" => op.stage # "stat"
      /\ op.kind = "delete" => op.path = op.target
      /\ op.kind = "move" => op.path # op.target
      /\ op.kind \in {"open", "handoff"} => FALSE
      /\ op.kind = "idle" => op = Editor!Idle

\* What a question is about.
DialogFits ==
  /\ eDialog.kind # "none" => eDialog.path \in Path
  /\ eDialog.kind = "moveOverwrite" => eDialog.source \in Path \ {eDialog.path}

\* What opening and hand-off carry.
OthersFit ==
  /\ eOps["open"] = Editor!Idle
     \/ (eOps["open"].stage \in {"preview", "read"} /\ eOps["open"].path \in Path)
  /\ eOps["handoff"] = Editor!Idle
     \/ (eOps["handoff"].stage \in {"settings", "reconcile"} /\ eOps["handoff"].path \in Path)

\* A buffer that differs from its snapshot is marked dirty.
MarkedDirty == \A p \in Pool : eText[p] # eMeta[p].snapshot => p \in eDirty \/ Given(p)

\* A save under way writes what its buffer shows.
SavesText(s) ==
  LET op == eOps[s]
  IN  op.stage \in {"write", "stamp"} =>
        \A p \in {op.path, op.target} \cap Pool : eText[p] # op.content => Given(p)

\* Two saves onto one path write the same text.
SavedTwice ==
  LET free == eOps["free"]  gated == eOps["gated"]
  IN  free.kind = "saveAs" /\ gated.kind \in SaveKinds /\ gated.path = free.target =>
        \/ Given(free.target)
        \/ /\ eText[free.target] = free.content
           /\ gated.stage \in {"write", "stamp"} => gated.content = free.content

\* Work that replaces a buffer, or the file below it, was agreed to.
Consented(s) ==
  LET op == eOps[s]
  IN  /\ op.kind \in {"reload", "delete"} => Given(op.path)
      /\ op.kind = "move" /\ op.target \in Pool => Given(op.target)
      /\ s = "gated" /\ op.kind \in {"move", "saveAs"} => Given(op.target)

\* The external editor gets no buffer with edits.
HandedClean ==
  LET op == eOps["handoff"]
  IN  op # Editor!Idle => op.path \notin eDirty \/ Given(op.path)

\* A version nobody here has read differs from the one its buffer knows.
UnseenDiffers == \A p \in Path \cap eUnseen : eDisk[p] # Editor!Gone => eDisk[p].stamp # eMeta[p].stamp

\* Work that overwrites a file has compared it, or was agreed to.
UnseenSpared(s) ==
  LET op == eOps[s]
  IN  /\ op.stage \in {"stamp", "apply"} => op.target \notin eUnseen
      /\ op.stage \in {"write", "remove", "rename"} /\ op.target \in eUnseen /\ eDisk[op.target] # Editor!Gone
           => \/ <<"disk", op.target>> \in eAgreed \/ op.target \in eRaced
              \/ (op.kind = "saveAs" /\ op.path = op.target)

WorkSafe(s) == WorkFits(s) /\ SavesText(s) /\ Consented(s) /\ UnseenSpared(s)

\* The inductive invariant of the editor.
EditorInv == /\ EditorTypes /\ PoolAgrees /\ DialogFits /\ OthersFit /\ MarkedDirty /\ SavedTwice
             /\ HandedClean /\ UnseenDiffers /\ \A s \in Works : WorkSafe(s)

\* What a step does to the text of a buffer with unsaved edits.
EditsStep ==
  \A p \in Path : \A lost \in {eText[p]} : Editor!Unsaved(p) =>
    \/ Editor!Somewhere(lost)' \/ eUsed'.edits # eUsed.edits \/ eUsed'.switches # eUsed.switches
    \/ <<"buffer", p>> \in eAgreed \/ <<"buffer", p>> \in eAgreed'
    \/ p \in eRaced \/ Editor!ClosesAnother(p)

\* The invariant's names for the module's.
LEMMA EditorNames ==
  /\ Editor!Resident = Pool
  /\ \A S : Editor!Without(S) = Only(eOrder, Path \ S)
  /\ Editor!Slot = {"gated", "free", "open", "handoff"}
  /\ Editor!Gone = [content |-> 0, stamp |-> 0]
  /\ Editor!Idle = [kind |-> "idle", stage |-> "none", path |-> NoPath, target |-> NoPath, content |-> 0]
<1>1. ASSUME NEW S PROVE Editor!Only(eOrder, Path \ S) = Only(eOrder, Path \ S)
  BY Zenon DEF Editor!Only, Only
<1> QED  BY <1>1, Zenon DEF Editor!Resident, Editor!Range, Range, Pool, Editor!Without,
                    Editor!Slot, Editor!Gone, Editor!Idle

LEMMA EditorNamesNext == Editor!Resident' = Pool'
BY Zenon DEF Editor!Resident, Editor!Range, Range, Pool

\* The order without some paths.
LEMMA PoolWithout ==
  ASSUME PoolAgrees, NEW S
  PROVE  /\ Editor!Without(S) \in Seq(Path) /\ Range(Editor!Without(S)) = Pool \ S
         /\ IsInjective(Editor!Without(S))
<1>1. Editor!Without(S) = Only(eOrder, Path \ S)
  BY EditorNames
<1>2. eOrder \in Seq(Path) /\ IsInjective(eOrder)
  BY DEF PoolAgrees
<1>3. Range(Only(eOrder, Path \ S)) = Pool \cap (Path \ S)
  BY <1>2, OnlyProperties DEF Pool
<1>4. Pool \subseteq Path
  BY <1>2 DEF Pool, Range
<1> QED  BY <1>1, <1>2, <1>3, <1>4, OnlyProperties

LEMMA PoolPaths == PoolAgrees => Pool \subseteq Path
BY DEF PoolAgrees, Pool, Range

\* A path put in front of an order that lacks it.
LEMMA InFront ==
  ASSUME NEW s \in Seq(Path), IsInjective(s), NEW p \in Path, p \notin Range(s)
  PROVE  /\ <<p>> \o s \in Seq(Path) /\ Range(<<p>> \o s) = Range(s) \cup {p} /\ IsInjective(<<p>> \o s)
<1>1. <<p>> \in Seq(Path) /\ Range(<<p>>) = {p} /\ IsInjective(<<p>>)
  BY DEF Range, IsInjective
<1>2. Range(<<p>> \o s) = Range(<<p>>) \cup Range(s)
  <2> DEFINE first == <<p>>
  <2>1. first \in Seq(Path)
    BY <1>1
  <2> HIDE DEF first
  <2>2. Range(first \o s) = Range(first) \cup Range(s)
    BY <2>1, ConcatRange
  <2> QED  BY <2>2 DEF first
<1>3. IsInjective(<<p>> \o s)
  <2> DEFINE u == <<p>> \o s
  <2>1. /\ DOMAIN u = 1..(Len(s) + 1) /\ DOMAIN s = 1..Len(s) /\ Len(s) \in Nat
        /\ u[1] = p /\ \A i \in 1..Len(s) : u[i + 1] = s[i]
    OBVIOUS
  <2> HIDE DEF u
  <2>2. \A i \in DOMAIN u : i = 1 \/ (i - 1 \in 1..Len(s) /\ u[i] = s[i - 1])
    <3> SUFFICES ASSUME NEW i \in DOMAIN u, i # 1 PROVE i - 1 \in 1..Len(s) /\ u[i] = s[i - 1]
      OBVIOUS
    <3>1. i - 1 \in 1..Len(s) /\ (i - 1) + 1 = i
      BY <2>1
    <3> QED  BY <2>1, <3>1
  <2>3. IsInjective(u)
    BY <2>1, <2>2 DEF Range, IsInjective
  <2> QED  BY <2>3 DEF u
<1> QED  BY <1>1, <1>2, <1>3

\* One path of an order renamed.
LEMMA Renamed ==
  ASSUME NEW s \in Seq(Path), IsInjective(s), NEW p \in Path, NEW t \in Path, p \in Range(s), t \notin Range(s),
         NEW r, r = [i \in DOMAIN s |-> IF s[i] = p THEN t ELSE s[i]]
  PROVE  r \in Seq(Path) /\ Range(r) = (Range(s) \ {p}) \cup {t} /\ IsInjective(r)
<1>1. Len(s) \in Nat /\ DOMAIN s = 1..Len(s) /\ \A i \in DOMAIN s : s[i] \in Path
  OBVIOUS
<1>2. DOMAIN r = 1..Len(s) /\ \A i \in 1..Len(s) : r[i] \in Path
  BY <1>1
<1>3. r \in Seq(Path)
  BY <1>1, <1>2, SeqDef
<1>4. PICK j \in DOMAIN s : s[j] = p
  BY DEF Range
<1>5. Range(r) = (Range(s) \ {p}) \cup {t}
  BY <1>1, <1>2, <1>4 DEF Range
<1>6. IsInjective(r)
  BY <1>1, <1>2 DEF Range, IsInjective
<1> QED  BY <1>3, <1>5, <1>6

\* Work that a step leaves alone stays safe: what it uses is not changed behind its
\* back, or the race is known.
LEMMA WorkKept ==
  ASSUME EditorInv, NEW s \in Works, eOps'[s] = eOps[s],
         eRaced \subseteq eRaced', \A p \in Path : <<"disk", p>> \in eAgreed => <<"disk", p>> \in eAgreed',
         \A p \in {eOps[s].path, eOps[s].target} \cap Path : eOps[s].kind # "idle" =>
           /\ Given(p) => Given(p)'
           /\ p \in Pool' => (p \in Pool /\ eText'[p] = eText[p]) \/ Given(p)'
           /\ p \in eUnseen' => p \in eUnseen
           /\ p \in eUnseen' /\ eDisk'[p] # Editor!Gone => eDisk[p] # Editor!Gone
  PROVE  WorkSafe(s)'
<1>1. WorkFits(s) /\ SavesText(s) /\ Consented(s) /\ UnseenSpared(s) /\ eOps[s] \in Work
  BY EditorNames DEF EditorInv, WorkSafe, EditorTypes, Works
<1>2. eOps[s].kind = "idle" => eOps[s].stage = "none"
  BY <1>1, EditorNames DEF WorkFits
<1>3. /\ eOps[s].stage \in {"stat", "write", "stamp"} => eOps[s].kind \in SaveKinds
      /\ eOps[s].stage \in {"remove", "rename", "apply"} => eOps[s].kind \in {"move", "delete"}
  BY <1>1, <1>2 DEF WorkFits, Work, SaveKinds
<1>4. eOps[s].kind \in SaveKinds \cup {"move", "delete", "reload"} => eOps[s].path \in Path /\ eOps[s].target \in Path
  BY <1>1 DEF WorkFits
<1>5. WorkFits(s)'
  BY <1>1 DEF WorkFits, Editor!Idle
<1>6. SavesText(s)'
  BY <1>1, <1>3, <1>4 DEF SavesText, SaveKinds
<1>7. Consented(s)'
  BY <1>1, <1>4 DEF Consented, SaveKinds
<1>8. UnseenSpared(s)'
  BY <1>1, <1>3, <1>4 DEF UnseenSpared, SaveKinds
<1> QED  BY <1>5, <1>6, <1>7, <1>8 DEF WorkSafe

\* Two saves that a step leaves alone.
LEMMA TwiceKept ==
  ASSUME EditorInv, eOps'["free"] = eOps["free"], eOps'["gated"] = eOps["gated"],
         \A p \in {eOps["free"].target} \cap Path : eOps["free"].kind = "saveAs" =>
           /\ Given(p) => Given(p)'
           /\ eText'[p] = eText[p] \/ Given(p)'
  PROVE  SavedTwice'
<1>1. SavedTwice /\ WorkFits("free")
  BY DEF EditorInv, WorkSafe, Works
<1>2. eOps["free"].kind = "saveAs" => eOps["free"].target \in Path
  BY <1>1 DEF WorkFits, SaveKinds
<1> QED  BY <1>1, <1>2 DEF SavedTwice

\* A step that touches no buffer and no file keeps all edits.
LEMMA PoolStays ==
  ASSUME EditorInv, UNCHANGED <<eDisk, eOrder, eMeta, eText, eDirty, eActive, eUnseen, eClock>>,
         eRaced \subseteq eRaced', eAgreed \subseteq eAgreed',
         eOps' \in [Editor!Slot -> Work], \A s \in Editor!Slot : eOps'[s].content <= eClock,
         eDialog' \in Question, DialogFits', OthersFit', SavedTwice', HandedClean',
         \A s \in Works : eOps'[s] = eOps[s] \/ WorkSafe(s)'
  PROVE  EditorInv' /\ EditsStep
<1>1. \A p : Given(p) => Given(p)'
  BY DEF Given
<1>2. Pool' = Pool
  BY DEF Pool
<1>3. \A s \in Works : WorkSafe(s)'
  BY <1>1, <1>2, WorkKept
<1>4. EditorTypes'
  BY DEF EditorInv, EditorTypes
<1>5. PoolAgrees'
  BY <1>2 DEF EditorInv, PoolAgrees
<1>6. MarkedDirty' /\ UnseenDiffers'
  BY <1>1, <1>2 DEF EditorInv, MarkedDirty, UnseenDiffers
<1>7. EditsStep
  BY <1>2, EditorNames, EditorNamesNext DEF EditsStep, Editor!Unsaved, Editor!Somewhere
<1> QED  BY <1>3, <1>4, <1>5, <1>6, <1>7 DEF EditorInv

\* Facts about the state every step starts from.
LEMMA EditorFacts ==
  ASSUME EditorInv
  PROVE  /\ EditorTypes /\ PoolAgrees /\ DialogFits /\ OthersFit /\ Pool \subseteq Path /\ Editor!Resident = Pool
         /\ eOps \in [Editor!Slot -> Work] /\ eDialog \in Question /\ eClock \in Nat
         /\ Editor!Slot = {"gated", "free", "open", "handoff"} /\ Editor!Idle \in Work
         /\ eActive \in Pool \cup {NoPath}
BY EditorNames, PoolPaths DEF EditorInv, EditorTypes, PoolAgrees, Work

\* An idle slot is safe.
LEMMA IdleSafe ==
  ASSUME NEW s \in Works, eOps'[s] = Editor!Idle
  PROVE  WorkSafe(s)'
BY DEF WorkSafe, WorkFits, SavesText, Consented, UnseenSpared, SaveKinds, Editor!Idle

LEMMA IdleTwice ==
  ASSUME eOps'["free"] = Editor!Idle \/ eOps'["gated"] = Editor!Idle
  PROVE  SavedTwice'
BY DEF SavedTwice, SaveKinds, Editor!Idle

\* One slot gets new work.
LEMMA SlotSet ==
  ASSUME EditorInv, NEW s \in Editor!Slot, NEW op \in Work, eOps' = [eOps EXCEPT ![s] = op],
         op.content <= eClock
  PROVE  /\ eOps' \in [Editor!Slot -> Work] /\ eOps'[s] = op
         /\ \A o \in Editor!Slot \ {s} : eOps'[o] = eOps[o]
         /\ \A o \in Editor!Slot : eOps'[o].content <= eClock
BY EditorFacts DEF EditorTypes

\* Nothing is gated while keys reach the page.
LEMMA KeysFree ==
  ASSUME Editor!KeysReachPage
  PROVE  eOps["gated"] = Editor!Idle
BY DEF Editor!KeysReachPage

LEMMA StartOpenKeeps ==
  ASSUME EditorInv, NEW p \in Path, Editor!StartOpen(p)
  PROVE  EditorInv' /\ EditsStep
<1> DEFINE op == Editor!Op("open", "preview", p, NoPath, 0)
<1>1. op \in Work /\ op.content = 0 /\ op.path = p /\ op.stage = "preview"
  BY DEF Editor!Op, Work
<1>2. /\ eOps' = [eOps EXCEPT !["open"] = op]
      /\ UNCHANGED <<eDisk, eOrder, eMeta, eText, eDirty, eChanged, eActive, eUnseen, eClock,
                     eRaced, eAgreed, eDialog>>
  BY DEF Editor!StartOpen, Editor!SetOp, Editor!poolVars, Editor!viewVars, Editor!dialogVars, Editor!historyVars
<1> HIDE DEF op
<1>a. "open" \in Editor!Slot /\ op.content <= eClock
  BY <1>1, EditorFacts
<1>3. /\ eOps' \in [Editor!Slot -> Work] /\ eOps'["open"] = op
      /\ \A o \in Editor!Slot \ {"open"} : eOps'[o] = eOps[o]
      /\ \A o \in Editor!Slot : eOps'[o].content <= eClock
  BY <1>1, <1>2, <1>a, SlotSet
<1>4. eOps'["free"] = eOps["free"] /\ eOps'["gated"] = eOps["gated"] /\ eOps'["handoff"] = eOps["handoff"]
  BY <1>3, EditorNames
<1>5. OthersFit' /\ DialogFits'
  BY <1>1, <1>2, <1>3, <1>4, EditorFacts DEF OthersFit, DialogFits
<1>6. SavedTwice' /\ HandedClean'
  BY <1>2, <1>4 DEF EditorInv, SavedTwice, HandedClean, Given
<1> QED  BY <1>2, <1>3, <1>4, <1>5, <1>6, PoolStays, EditorFacts DEF Works

\* A step that gives a save, move, reload or nothing to a slot, or ends its work,
\* and touches no buffer and no file.
LEMMA QuietWork ==
  ASSUME EditorInv, UNCHANGED <<eDisk, eOrder, eMeta, eText, eDirty, eActive, eUnseen, eClock>>,
         eRaced \subseteq eRaced', eAgreed \subseteq eAgreed',
         NEW s \in Works, NEW op \in Work, eOps' = [eOps EXCEPT ![s] = op], op.content <= eClock,
         eDialog' \in Question, DialogFits', WorkSafe(s)', SavedTwice'
  PROVE  EditorInv' /\ EditsStep
<1>1. s \in Editor!Slot /\ s # "open" /\ s # "handoff"
  BY EditorNames DEF Works
<1>2. /\ eOps' \in [Editor!Slot -> Work] /\ eOps'[s] = op
      /\ \A o \in Editor!Slot \ {s} : eOps'[o] = eOps[o]
      /\ \A o \in Editor!Slot : eOps'[o].content <= eClock
  BY <1>1, SlotSet
<1>3. eOps'["open"] = eOps["open"] /\ eOps'["handoff"] = eOps["handoff"]
  BY <1>1, <1>2, EditorNames
<1>4. OthersFit' /\ HandedClean'
  BY <1>3 DEF EditorInv, OthersFit, HandedClean, Given, Editor!Idle
<1>5. \A o \in Works : eOps'[o] = eOps[o] \/ WorkSafe(o)'
  BY <1>2, EditorNames DEF Works
<1> QED  BY <1>2, <1>4, <1>5, PoolStays

\* A step that only raises or closes a question.
LEMMA QuietDialog ==
  ASSUME EditorInv, UNCHANGED <<eDisk, eOrder, eMeta, eText, eDirty, eActive, eUnseen, eClock, eOps>>,
         eRaced \subseteq eRaced', eAgreed \subseteq eAgreed', eDialog' \in Question, DialogFits'
  PROVE  EditorInv' /\ EditsStep
<1>1. OthersFit' /\ HandedClean' /\ SavedTwice'
  BY DEF EditorInv, OthersFit, HandedClean, SavedTwice, Given, Editor!Idle
<1>2. eOps' \in [Editor!Slot -> Work] /\ \A s \in Editor!Slot : eOps'[s].content <= eClock
  BY EditorFacts DEF EditorTypes
<1> QED  BY <1>1, <1>2, PoolStays

\* What a step of a dialog leaves alone.
LEMMA DialogKinds ==
  ASSUME NEW kind \in {"dirty", "overwrite", "saveAsOverwrite", "reload", "delete"}, NEW p \in Path,
         eDialog' = Editor!Dialog(kind, p, NoPath)
  PROVE  eDialog' \in Question /\ DialogFits'
BY DEF Editor!Dialog, Question, DialogFits

LEMMA DialogClosed ==
  ASSUME eDialog' = Editor!NoDialog
  PROVE  eDialog' \in Question /\ DialogFits'
BY DEF Editor!NoDialog, Question, DialogFits

LEMMA DialogKept ==
  ASSUME EditorInv, eDialog' = eDialog
  PROVE  eDialog' \in Question /\ DialogFits'
BY DEF EditorInv, EditorTypes, DialogFits

LEMMA PressSaveKeeps ==
  ASSUME EditorInv, Editor!PressSave
  PROVE  EditorInv' /\ EditsStep
<1> DEFINE op == IF eActive \in Pool THEN Editor!Op("save", "stat", eActive, eActive, 0) ELSE Editor!Idle
<1>1. op \in Work /\ op.content = 0
  BY EditorFacts DEF Editor!Op, Work, Editor!Idle, SaveKinds
<1>2. /\ eOps' = [eOps EXCEPT !["free"] = op] /\ Editor!KeysReachPage
      /\ UNCHANGED <<eDisk, eOrder, eMeta, eText, eDirty, eChanged, eActive, eUnseen, eClock,
                     eRaced, eAgreed, eDialog>>
  BY EditorNames DEF Editor!PressSave, Editor!StartSave, Editor!CommandKey, Editor!Key,
       Editor!SetOp, Editor!poolVars, Editor!viewVars, Editor!historyVars
<1>3. eOps'["free"] = op /\ eOps'["gated"] = eOps["gated"] /\ op.content <= eClock
  BY <1>1, <1>2, EditorFacts
<1>4. SavedTwice'
  BY <1>2, <1>3, KeysFree, IdleTwice
<1>5. WorkSafe("free")'
  BY <1>3, EditorFacts DEF WorkSafe, WorkFits, SavesText, Consented, UnseenSpared, Editor!Op, Editor!Idle, SaveKinds
<1> HIDE DEF op
<1>6. eDialog' \in Question /\ DialogFits'
  BY <1>2, DialogKept
<1> QED  BY <1>1, <1>2, <1>3, <1>4, <1>5, <1>6, QuietWork DEF Works

LEMMA HandOffKeeps ==
  ASSUME EditorInv, NEW p \in Path, Editor!HandOff(p)
  PROVE  EditorInv' /\ EditsStep
<1> DEFINE op == Editor!Op("handoff", "settings", p, p, 0)
<1>1. op \in Work /\ op.content = 0 /\ op.path = p /\ op.stage = "settings"
  BY DEF Editor!Op, Work
<1>2. /\ eOps' = [eOps EXCEPT !["handoff"] = op] /\ p \notin eDirty
      /\ UNCHANGED <<eDisk, eOrder, eMeta, eText, eDirty, eChanged, eActive, eUnseen, eClock,
                     eRaced, eAgreed, eDialog>>
  BY DEF Editor!HandOff, Editor!SetOp, Editor!poolVars, Editor!viewVars, Editor!dialogVars, Editor!historyVars
<1> HIDE DEF op
<1>a. "handoff" \in Editor!Slot /\ op.content <= eClock
  BY <1>1, EditorFacts
<1>3. /\ eOps' \in [Editor!Slot -> Work] /\ eOps'["handoff"] = op
      /\ \A o \in Editor!Slot \ {"handoff"} : eOps'[o] = eOps[o]
      /\ \A o \in Editor!Slot : eOps'[o].content <= eClock
  BY <1>1, <1>2, <1>a, SlotSet
<1>4. eOps'["free"] = eOps["free"] /\ eOps'["gated"] = eOps["gated"] /\ eOps'["open"] = eOps["open"]
  BY <1>3, EditorNames
<1>5. OthersFit' /\ DialogFits'
  BY <1>1, <1>2, <1>3, <1>4, EditorFacts DEF OthersFit, DialogFits
<1>6. SavedTwice' /\ HandedClean'
  BY <1>1, <1>2, <1>3, <1>4 DEF EditorInv, SavedTwice, HandedClean, Given
<1> QED  BY <1>2, <1>3, <1>4, <1>5, <1>6, PoolStays, EditorFacts DEF Works

LEMMA SaveAsKeeps ==
  ASSUME EditorInv, NEW t \in Path, Editor!SaveAs(t)
  PROVE  EditorInv' /\ EditsStep
<1>1. /\ UNCHANGED <<eDisk, eOrder, eMeta, eText, eDirty, eChanged, eActive, eUnseen, eClock, eAgreed>>
      /\ Editor!KeysReachPage /\ eActive \in Pool /\ eOps["free"] = Editor!Idle
      /\ eRaced' = IF eOps' # eOps THEN eRaced \cup Editor!Unasked(t) ELSE eRaced
  BY EditorNames DEF Editor!SaveAs, Editor!Editing, Editor!CommandKey, Editor!Key, Editor!poolVars, Editor!viewVars
<1>2. CASE t # eActive /\ eDisk[t] # Editor!Gone
  <2>1. eDialog' = Editor!Dialog("saveAsOverwrite", t, NoPath) /\ eOps' = eOps
    BY <1>2 DEF Editor!SaveAs
  <2> QED  BY <1>1, <2>1, DialogKinds, QuietDialog
<1>3. CASE ~(t # eActive /\ eDisk[t] # Editor!Gone)
  <2> DEFINE op == Editor!Op("saveAs", "write", eActive, t, eText[eActive])
  <2>1. eOps' = [eOps EXCEPT !["free"] = op] /\ eDialog' = eDialog
    BY <1>3 DEF Editor!SaveAs, Editor!SetOp
  <2>2. /\ op \in Work /\ op.content = eText[eActive] /\ op.content <= eClock /\ op.path = eActive /\ op.target = t
        /\ op.kind = "saveAs" /\ op.stage = "write" /\ eActive \in Path
    BY <1>1, EditorFacts DEF Editor!Op, Work, EditorTypes, SaveKinds
  <2> HIDE DEF op
  <2>3. eOps'["free"] = op /\ eOps'["gated"] = eOps["gated"] /\ op # Editor!Idle
    BY <2>1, <2>2, EditorFacts DEF Editor!Idle
  <2>4. eRaced' = eRaced \cup ((Pool \ {eActive}) \cap {t})
    BY <1>1, <2>3, EditorNames DEF Editor!Unasked
  <2>5. SavedTwice'
    BY <1>1, <2>3, KeysFree, IdleTwice
  <2>6. WorkFits("free")' /\ Consented("free")'
    BY <2>2, <2>3 DEF WorkFits, Consented, SaveKinds
  <2>7. SavesText("free")'
    <3>1. Pool' = Pool
      BY <1>1 DEF Pool
    <3> QED  BY <1>1, <2>2, <2>3, <2>4, <3>1 DEF SavesText, Given
  <2>8. UnseenSpared("free")'
    BY <1>1, <1>3, <2>2, <2>3 DEF UnseenSpared
  <2>9. eDialog' \in Question /\ DialogFits'
    BY <2>1, DialogKept
  <2> QED  BY <1>1, <2>1, <2>2, <2>4, <2>5, <2>6, <2>7, <2>8, <2>9, QuietWork DEF Works, WorkSafe
<1> QED  BY <1>2, <1>3

LEMMA MoveKeeps ==
  ASSUME EditorInv, NEW p \in Path, NEW t \in Path, Editor!Move(p, t)
  PROVE  EditorInv' /\ EditsStep
<1>1. /\ UNCHANGED <<eDisk, eOrder, eMeta, eText, eDirty, eChanged, eActive, eUnseen, eClock, eAgreed>>
      /\ Editor!KeysReachPage /\ p # t /\ eOps["free"] = Editor!Idle
      /\ eRaced' = IF eOps' # eOps THEN eRaced \cup (Pool \cap {t}) ELSE eRaced
  BY EditorNames DEF Editor!Move, Editor!CommandKey, Editor!Key, Editor!poolVars, Editor!viewVars
<1>2. CASE eDisk[t] # Editor!Gone
  <2>1. eDialog' = Editor!Dialog("moveOverwrite", t, p) /\ eOps' = eOps
    BY <1>2 DEF Editor!Move
  <2>2. eDialog' \in Question /\ DialogFits'
    BY <1>1, <2>1 DEF Editor!Dialog, Question, DialogFits
  <2> QED  BY <1>1, <2>1, <2>2, QuietDialog
<1>3. CASE eDisk[t] = Editor!Gone
  <2> DEFINE op == Editor!Op("move", "rename", p, t, 0)
  <2>1. eOps' = [eOps EXCEPT !["free"] = op] /\ eDialog' = eDialog
    BY <1>3 DEF Editor!Move, Editor!SetOp
  <2>2. /\ op \in Work /\ op.content = 0 /\ op.content <= eClock /\ op.path = p /\ op.target = t
        /\ op.kind = "move" /\ op.stage = "rename"
    BY EditorFacts DEF Editor!Op, Work
  <2> HIDE DEF op
  <2>3. eOps'["free"] = op /\ eOps'["gated"] = eOps["gated"] /\ op # Editor!Idle
    BY <2>1, <2>2, EditorFacts DEF Editor!Idle
  <2>4. eRaced' = eRaced \cup (Pool \cap {t}) /\ Pool' = Pool
    BY <1>1, <2>3 DEF Pool
  <2>5. SavedTwice'
    BY <1>1, <2>3, KeysFree, IdleTwice
  <2>6. WorkFits("free")' /\ Consented("free")'
    BY <1>1, <2>2, <2>3, <2>4 DEF WorkFits, Consented, SaveKinds, Given
  <2>7. SavesText("free")' /\ UnseenSpared("free")'
    BY <1>1, <1>3, <2>2, <2>3 DEF SavesText, UnseenSpared
  <2>8. eDialog' \in Question /\ DialogFits'
    BY <2>1, DialogKept
  <2> QED  BY <1>1, <2>1, <2>2, <2>4, <2>5, <2>6, <2>7, <2>8, QuietWork DEF Works, WorkSafe
<1> QED  BY <1>2, <1>3

LEMMA RaiseDialogKeeps ==
  ASSUME EditorInv, Editor!RaiseDialog
  PROVE  EditorInv' /\ EditsStep
<1>1. /\ UNCHANGED <<eDisk, eOrder, eMeta, eText, eDirty, eChanged, eActive, eUnseen, eClock, eAgreed, eOps>>
      /\ eRaced \subseteq eRaced'
  BY DEF Editor!RaiseDialog, Editor!poolVars, Editor!viewVars
<1>2. \E kind \in {"dirty", "overwrite", "saveAsOverwrite", "reload", "delete"}, p \in Path :
        eDialog' = Editor!Dialog(kind, p, NoPath)
  <2>1. Editor!Editing(eActive) => eActive \in Path
    BY EditorFacts DEF Editor!Editing
  <2> QED  BY <2>1 DEF Editor!RaiseDialog
<1> QED  BY <1>1, <1>2, DialogKinds, QuietDialog

LEMMA CancelDialogKeeps ==
  ASSUME EditorInv, Editor!CancelDialog
  PROVE  EditorInv' /\ EditsStep
<1>1. /\ UNCHANGED <<eDisk, eOrder, eMeta, eText, eDirty, eChanged, eActive, eUnseen, eClock, eAgreed, eOps>>
      /\ eRaced \subseteq eRaced' /\ eDialog' = Editor!NoDialog
  BY DEF Editor!CancelDialog, Editor!poolVars, Editor!viewVars, Editor!historyVars
<1> QED  BY <1>1, DialogClosed, QuietDialog

\* The check for external changes touches its own marks only.
LEMMA StatKeeps ==
  ASSUME EditorInv, NEW n \in 1..MaxSwitches, Editor!Stat(n)
  PROVE  EditorInv' /\ EditsStep
<1>1. /\ UNCHANGED <<eDisk, eOrder, eMeta, eText, eDirty, eActive, eUnseen, eClock, eOps, eDialog>>
      /\ UNCHANGED <<eRaced, eAgreed>>
  BY DEF Editor!Stat, Editor!viewVars, Editor!dialogVars, Editor!historyVars
<1>2. eDialog' \in Question /\ DialogFits'
  BY <1>1, DialogKept
<1> QED  BY <1>1, <1>2, QuietDialog

\* What a save-as under way would write is what the active buffer shows.
LEMMA ActiveText ==
  ASSUME EditorInv, eOps["free"].kind = "saveAs", eActive \in Pool, eOps["free"].target = eActive
  PROVE  Given(eActive) \/ eText[eActive] = eOps["free"].content
<1>1. WorkFits("free") /\ SavesText("free")
  BY DEF EditorInv, WorkSafe, Works
<1>2. eOps["free"].stage \in {"write", "stamp"}
  BY <1>1 DEF WorkFits, SaveKinds
<1> QED  BY <1>1, <1>2 DEF SavesText

\* A confirmed question starts work for its path, or for the active buffer,
\* which is then excepted.
LEMMA ConfirmKeeps ==
  ASSUME EditorInv, Editor!Confirm
  PROVE  EditorInv' /\ EditsStep
<1> DEFINE p == eDialog.path
<1>1. /\ UNCHANGED <<eDisk, eOrder, eMeta, eText, eDirty, eChanged, eActive, eUnseen, eClock>>
      /\ Pool' = Pool /\ eDialog' = Editor!NoDialog
      /\ eDialog.kind # "none" => p \in Path
      /\ eRaced' = eRaced \cup (IF eActive = p THEN {} ELSE {eActive})
  BY EditorFacts DEF Editor!Confirm, Editor!poolVars, Editor!viewVars, DialogFits, Editor!Misdirected, Pool
<1>2. eDialog' \in Question /\ DialogFits'
  BY <1>1, DialogClosed
<1>3. ASSUME NEW op \in Work, eOps' = [eOps EXCEPT !["gated"] = op], op.content <= eClock, eAgreed \subseteq eAgreed',
             op = Editor!Idle \/ (WorkFits("gated") /\ SavesText("gated") /\ Consented("gated")
                                    /\ UnseenSpared("gated") /\ SavedTwice)'
      PROVE  EditorInv' /\ EditsStep
  <2>1. eOps'["gated"] = op
    BY <1>3, EditorFacts
  <2>2. WorkSafe("gated")' /\ SavedTwice'
    BY <1>3, <2>1, IdleSafe, IdleTwice DEF WorkSafe, Works
  <2>3. eRaced \subseteq eRaced' /\ "gated" \in Works
    BY <1>1 DEF Works
  <2> QED  BY <1>1, <1>2, <1>3, <2>2, <2>3, QuietWork
<1>4. /\ eOps \in [Editor!Slot -> Work] /\ "gated" \in Editor!Slot /\ eClock \in Nat
      /\ eActive \in Pool => eActive \in Path /\ eText[eActive] \in Nat /\ eText[eActive] <= eClock
      /\ Editor!Idle \in Work /\ Editor!Idle.content = 0 /\ Editor!Resident = Pool /\ eActive \in Pool \cup {NoPath}
  BY EditorFacts DEF EditorTypes, Editor!Idle
<1>5. eActive = p \/ eActive \in eRaced'
  BY <1>1
<1>6. CASE eDialog.kind = "dirty" /\ Editor!StartSave("gated", "saveAndClose") /\ UNCHANGED eAgreed
  <2> DEFINE op == IF eActive \in Pool THEN Editor!Op("saveAndClose", "stat", eActive, eActive, 0) ELSE Editor!Idle
  <2>1. eOps' = [eOps EXCEPT !["gated"] = op]
    BY <1>4, <1>6 DEF Editor!StartSave, Editor!SetOp
  <2>2. op \in Work /\ op.content <= eClock
    BY <1>4 DEF Editor!Op, Work, SaveKinds
  <2>3. op = Editor!Idle \/ (/\ op.kind = "saveAndClose" /\ op.stage = "stat" /\ op.path = eActive /\ op.target = eActive
                            /\ eActive \in Pool)
    BY DEF Editor!Op
  <2> HIDE DEF op
  <2>4. eOps'["gated"] = op /\ eOps'["free"] = eOps["free"]
    BY <1>4, <2>1, EditorFacts
  <2>5. op # Editor!Idle => WorkFits("gated")' /\ SavesText("gated")' /\ Consented("gated")' /\ UnseenSpared("gated")'
    BY <1>4, <2>3, <2>4 DEF WorkFits, SavesText, Consented, UnseenSpared, SaveKinds
  <2>6. op # Editor!Idle => SavedTwice'
    BY <1>1, <1>6, <2>3, <2>4, ActiveText DEF SavedTwice, Given
  <2> QED  BY <1>3, <1>6, <2>1, <2>2, <2>5, <2>6
<1>7. CASE eDialog.kind = "overwrite" /\ eAgreed' = eAgreed \cup {<<"disk", p>>}
           /\ Editor!SetOp("gated", IF eActive \in Editor!Resident
                             THEN Editor!Op("force", "write", eActive, eActive, eText[eActive]) ELSE Editor!Idle)
  <2> DEFINE op == IF eActive \in Pool THEN Editor!Op("force", "write", eActive, eActive, eText[eActive]) ELSE Editor!Idle
  <2>1. eOps' = [eOps EXCEPT !["gated"] = op]
    BY <1>4, <1>7 DEF Editor!SetOp
  <2>2. op \in Work /\ op.content <= eClock
    BY <1>4 DEF Editor!Op, Work, SaveKinds
  <2>3. op = Editor!Idle \/ (/\ op.kind = "force" /\ op.stage = "write" /\ op.path = eActive /\ op.target = eActive
                            /\ eActive \in Pool /\ op.content = eText[eActive])
    BY DEF Editor!Op
  <2> HIDE DEF op
  <2>4. eOps'["gated"] = op /\ eOps'["free"] = eOps["free"]
    BY <1>4, <2>1, EditorFacts
  <2>5. op # Editor!Idle => WorkFits("gated")' /\ SavesText("gated")' /\ Consented("gated")' /\ UnseenSpared("gated")'
    BY <1>1, <1>4, <1>5, <1>7, <2>3, <2>4 DEF WorkFits, SavesText, Consented, UnseenSpared, SaveKinds
  <2>6. op # Editor!Idle => SavedTwice'
    BY <1>1, <1>7, <2>3, <2>4, ActiveText DEF SavedTwice, Given
  <2> QED  BY <1>3, <1>7, <2>1, <2>2, <2>5, <2>6
<1>8. CASE eDialog.kind = "saveAsOverwrite" /\ eAgreed' = eAgreed \cup {<<"disk", p>>, <<"buffer", p>>}
           /\ Editor!SetOp("gated", IF eActive \in Editor!Resident
                             THEN Editor!Op("saveAs", "write", eActive, p, eText[eActive]) ELSE Editor!Idle)
  <2> DEFINE op == IF eActive \in Pool THEN Editor!Op("saveAs", "write", eActive, p, eText[eActive]) ELSE Editor!Idle
  <2>1. eOps' = [eOps EXCEPT !["gated"] = op]
    BY <1>4, <1>8 DEF Editor!SetOp
  <2>2. op \in Work /\ op.content <= eClock
    BY <1>1, <1>4, <1>8 DEF Editor!Op, Work, SaveKinds
  <2>3. op = Editor!Idle \/ (/\ op.kind = "saveAs" /\ op.stage = "write" /\ op.path = eActive /\ op.target = p
                            /\ eActive \in Pool /\ op.content = eText[eActive])
    BY DEF Editor!Op
  <2> HIDE DEF op
  <2>4. eOps'["gated"] = op /\ eOps'["free"] = eOps["free"]
    BY <1>4, <2>1, EditorFacts
  <2>5. op # Editor!Idle => WorkFits("gated")' /\ SavesText("gated")' /\ Consented("gated")' /\ UnseenSpared("gated")'
    BY <1>1, <1>4, <1>5, <1>8, <2>3, <2>4 DEF WorkFits, SavesText, Consented, UnseenSpared, SaveKinds, Given
  <2>6. op # Editor!Idle => SavedTwice'
    BY <1>1, <1>8, <2>3, <2>4, ActiveText DEF SavedTwice, Given
  <2> QED  BY <1>3, <1>8, <2>1, <2>2, <2>5, <2>6
<1>9. CASE eDialog.kind = "reload" /\ eAgreed' = eAgreed \cup {<<"buffer", p>>}
           /\ Editor!SetOp("gated", IF eActive = NoPath THEN Editor!Idle
                                    ELSE Editor!Op("reload", "read", eActive, eActive, 0))
  <2> DEFINE op == IF eActive = NoPath THEN Editor!Idle ELSE Editor!Op("reload", "read", eActive, eActive, 0)
  <2>1. eOps' = [eOps EXCEPT !["gated"] = op]
    BY <1>9 DEF Editor!SetOp
  <2>2. op \in Work /\ op.content <= eClock
    BY <1>4 DEF Editor!Op, Work, SaveKinds
  <2>3. op = Editor!Idle \/ (/\ op.kind = "reload" /\ op.stage = "read" /\ op.path = eActive /\ op.target = eActive
                            /\ eActive \in Pool)
    BY <1>4 DEF Editor!Op
  <2> HIDE DEF op
  <2>4. eOps'["gated"] = op /\ eOps'["free"] = eOps["free"]
    BY <1>4, <2>1, EditorFacts
  <2>5. op # Editor!Idle => WorkFits("gated")' /\ SavesText("gated")' /\ Consented("gated")' /\ UnseenSpared("gated")'
    BY <1>1, <1>4, <1>5, <1>9, <2>3, <2>4 DEF WorkFits, SavesText, Consented, UnseenSpared, SaveKinds, Given
  <2>6. op # Editor!Idle => SavedTwice'
    BY <2>3, <2>4 DEF SavedTwice, SaveKinds
  <2> QED  BY <1>3, <1>9, <2>1, <2>2, <2>5, <2>6
<1>10. CASE /\ eAgreed' = eAgreed \cup {<<"buffer", p>>, <<"disk", p>>}
            /\ \/ eDialog.kind = "delete" /\ Editor!SetOp("gated", Editor!Op("delete", "rename", p, p, 0))
               \/ /\ eDialog.kind = "moveOverwrite"
                  /\ Editor!SetOp("gated", Editor!Op("move", "remove", eDialog.source, p, 0))
  <2> DEFINE op == IF eDialog.kind = "delete" THEN Editor!Op("delete", "rename", p, p, 0)
                   ELSE Editor!Op("move", "remove", eDialog.source, p, 0)
  <2>1. /\ eOps' = [eOps EXCEPT !["gated"] = op] /\ p \in Path
        /\ eDialog.kind # "delete" => eDialog.source \in Path \ {p}
    BY <1>1, <1>10, EditorFacts DEF Editor!SetOp, DialogFits
  <2>2. op \in Work /\ op.content <= eClock
    BY <1>4, <2>1 DEF Editor!Op, Work
  <2>3. /\ op.kind \in {"delete", "move"} /\ op.stage \in {"remove", "rename"} /\ op.target = p /\ op.path \in Path
        /\ op.kind = "delete" => op.path = p
        /\ op.kind = "move" => op.path # p
    BY <2>1 DEF Editor!Op
  <2> HIDE DEF op
  <2>4. eOps'["gated"] = op
    BY <1>4, <2>1, EditorFacts
  <2>5. WorkFits("gated")' /\ SavesText("gated")' /\ Consented("gated")' /\ UnseenSpared("gated")'
    BY <1>1, <1>10, <2>1, <2>3, <2>4 DEF WorkFits, SavesText, Consented, UnseenSpared, SaveKinds, Given
  <2>6. SavedTwice'
    BY <2>3, <2>4 DEF SavedTwice, SaveKinds
  <2> QED  BY <1>3, <1>10, <2>1, <2>2, <2>5, <2>6
<1> QED  BY <1>6, <1>7, <1>8, <1>9, <1>10 DEF Editor!Confirm

\* The disk is compared before a save writes.
LEMMA CompareKeeps ==
  ASSUME EditorInv, NEW s \in Works, Editor!Compare(s)
  PROVE  EditorInv' /\ EditsStep
<1> DEFINE p == eOps[s].path
<1>1. /\ eOps \in [Editor!Slot -> Work] /\ s \in Editor!Slot /\ eOps[s] \in Work /\ eOps[s].stage = "stat"
      /\ WorkFits(s) /\ Consented(s) /\ UnseenDiffers /\ SavedTwice
  BY EditorFacts DEF Editor!Compare, EditorInv, WorkSafe, Works
<1>2. eOps[s].kind \in SaveKinds \ {"saveAs"} /\ p \in Path /\ eOps[s].target = p
  BY <1>1 DEF WorkFits, SaveKinds, Work, Editor!Idle
<1>3. /\ UNCHANGED <<eDisk, eOrder, eMeta, eText, eDirty, eChanged, eActive, eUnseen, eClock, eAgreed, eRaced>>
      /\ Pool' = Pool
  BY DEF Editor!Compare, Editor!poolVars, Editor!viewVars, Editor!historyVars, Pool
<1>4. CASE eDisk[p] # Editor!Gone /\ eDisk[p].stamp # eMeta[p].stamp
  <2>1. eDialog' = Editor!Dialog("overwrite", p, NoPath) /\ eOps' = [eOps EXCEPT ![s] = Editor!Idle]
    BY <1>4 DEF Editor!Compare, Editor!SetOp
  <2>2. eOps'[s] = Editor!Idle /\ Editor!Idle \in Work /\ Editor!Idle.content <= eClock
    BY <1>1, <2>1, EditorFacts DEF Editor!Idle
  <2>3. WorkSafe(s)' /\ SavedTwice'
    BY <2>2, IdleSafe, IdleTwice DEF Works
  <2>4. eDialog' \in Question /\ DialogFits'
    BY <1>2, <2>1, DialogKinds
  <2> QED  BY <1>3, <2>1, <2>2, <2>3, <2>4, QuietWork
<1>5. CASE ~(eDisk[p] # Editor!Gone /\ eDisk[p].stamp # eMeta[p].stamp)
  <2> DEFINE op == [eOps[s] EXCEPT !.stage = "write", !.content = eText[p]]
  <2>1. eDialog' = eDialog /\ eOps' = [eOps EXCEPT ![s] = op]
    BY <1>5 DEF Editor!Compare, Editor!SetOp, Editor!dialogVars
  <2>2. /\ op \in Work /\ op.content <= eClock /\ op.kind = eOps[s].kind /\ op.path = p /\ op.target = p
        /\ op.stage = "write" /\ op.content = eText[p]
    BY <1>1, <1>2, EditorFacts DEF Work, EditorTypes
  <2> HIDE DEF op
  <2>3. eOps'[s] = op /\ \A o \in Works \ {s} : eOps'[o] = eOps[o]
    BY <1>1, <2>1, EditorFacts DEF Works
  <2>4. WorkFits(s)' /\ Consented(s)'
    BY <1>1, <1>2, <2>2, <2>3 DEF WorkFits, Consented, SaveKinds
  <2>5. SavesText(s)' /\ UnseenSpared(s)'
    BY <1>1, <1>2, <1>3, <1>5, <2>2, <2>3 DEF SavesText, UnseenSpared, UnseenDiffers
  <2>6. SavedTwice'
    BY <1>1, <1>2, <1>3, <2>2, <2>3 DEF SavedTwice, Given, Works, SaveKinds
  <2>7. eDialog' \in Question /\ DialogFits'
    BY <2>1, DialogKept
  <2> QED  BY <1>3, <2>1, <2>2, <2>4, <2>5, <2>6, <2>7, QuietWork DEF WorkSafe
<1> QED  BY <1>4, <1>5

LEMMA WriteFailsKeeps ==
  ASSUME EditorInv, NEW s \in Works, Editor!WriteFails(s)
  PROVE  EditorInv' /\ EditsStep
<1>1. /\ UNCHANGED <<eDisk, eOrder, eMeta, eText, eDirty, eChanged, eActive, eUnseen, eClock, eAgreed, eRaced, eDialog>>
      /\ eOps' = [eOps EXCEPT ![s] = Editor!Idle]
  BY DEF Editor!WriteFails, Editor!SetOp, Editor!poolVars, Editor!viewVars, Editor!historyVars
<1>2. eOps'[s] = Editor!Idle /\ Editor!Idle \in Work /\ Editor!Idle.content <= eClock
  BY <1>1, EditorFacts DEF Editor!Idle, Works
<1>3. WorkSafe(s)' /\ SavedTwice'
  BY <1>2, IdleSafe, IdleTwice DEF Works
<1>4. eDialog' \in Question /\ DialogFits'
  BY <1>1, DialogKept
<1> QED  BY <1>1, <1>2, <1>3, <1>4, QuietWork

\* The model's counters.
EditorCounts == eUsed \in [edits : Nat, external : Nat, keys : Nat, switches : Nat]

\* Edits are kept by a step that takes from the pool only clean buffers, and
\* buffers that are excepted, and writes over the text of no other.
LEMMA EditsHold ==
  ASSUME EditorInv,
         \A p \in Pool : eText[p] # eMeta[p].snapshot =>
           \/ p \in Pool' /\ eText'[p] = eText[p]
           \/ \E q \in Pool' : eText'[q] = eText[p]
           \/ Given(p) \/ <<"buffer", p>> \in eAgreed'
           \/ Editor!ClosesAnother(p) \/ Editor!Written(eText[p])
  PROVE  EditsStep
<1> SUFFICES ASSUME NEW p \in Path, NEW lost \in {eText[p]}, Editor!Unsaved(p)
             PROVE  \/ Editor!Somewhere(lost)'
                    \/ <<"buffer", p>> \in eAgreed \/ <<"buffer", p>> \in eAgreed'
                    \/ p \in eRaced \/ Editor!ClosesAnother(p)
  BY Zenon DEF EditsStep
<1>1. p \in Pool /\ eText[p] # eMeta[p].snapshot /\ ~Editor!Written(eText[p])
  BY EditorNames, Zenon DEF Editor!Unsaved
<1>2. \A q \in Pool' : eText'[q] = lost => Editor!Somewhere(lost)'
  BY EditorNamesNext, Zenon DEF Editor!Somewhere
<1> HIDE DEF Editor!Somewhere, Editor!Written, Editor!ClosesAnother
<1> QED  BY <1>1, <1>2 DEF Given

\* The step touches no work, and what it does to paths that are in use is
\* excepted.
LEMMA WorkStays ==
  ASSUME EditorInv, \A s \in Works : eOps'[s] = eOps[s], eRaced \subseteq eRaced',
         \A p \in Path : <<"disk", p>> \in eAgreed => <<"disk", p>> \in eAgreed',
         \A p \in Path, s \in Works : Editor!Uses(s, p) =>
           /\ Given(p) => Given(p)'
           /\ p \in Pool' => (p \in Pool /\ eText'[p] = eText[p]) \/ Given(p)'
           /\ eText'[p] = eText[p] \/ Given(p)'
           /\ p \in eUnseen' => p \in eUnseen
           /\ p \in eUnseen' /\ eDisk'[p] # Editor!Gone => eDisk[p] # Editor!Gone
  PROVE  /\ \A s \in Works : WorkSafe(s)'
         /\ SavedTwice'
<1>1. ASSUME NEW s \in Works, NEW p \in {eOps[s].path, eOps[s].target} \cap Path, eOps[s].kind # "idle"
      PROVE  Editor!Uses(s, p)
  BY <1>1 DEF Editor!Uses, Editor!Idle
<1>2. \A s \in Works : WorkSafe(s)'
  BY <1>1, WorkKept
<1>3. SavedTwice'
  BY <1>1, TwiceKept DEF Works
<1> QED  BY <1>2, <1>3

\* Another program writes or removes a file.
LEMMA ExternalKeeps ==
  ASSUME EditorInv, NEW p \in Path, Editor!External(p)
  PROVE  EditorInv' /\ EditsStep
<1>1. PICK v \in {Editor!Gone, [content |-> eClock + 1, stamp |-> eClock + 1]} : eDisk' = [eDisk EXCEPT ![p] = v]
  BY DEF Editor!External
<1>2. /\ UNCHANGED <<eOps, eDialog, eOrder, eMeta, eText, eDirty, eChanged, eActive, eRaced, eAgreed>>
      /\ eClock' = eClock + 1 /\ Pool' = Pool
      /\ eUnseen' = IF Editor!Busy(p) THEN eUnseen \ {p} ELSE eUnseen \cup {p}
  BY DEF Editor!External, Editor!poolVars, Editor!viewVars, Editor!dialogVars, Pool
<1>3. EditorTypes'
  <2>1. v \in [content : Nat, stamp : Nat] /\ v.content <= eClock + 1 /\ v.stamp <= eClock + 1
    BY <1>1, EditorFacts DEF Editor!Gone
  <2>2. eDisk' \in [Path -> [content : Nat, stamp : Nat]]
        /\ \A q \in Path : eDisk'[q].content <= eClock + 1 /\ eDisk'[q].stamp <= eClock + 1
    BY <1>1, <2>1, EditorFacts DEF EditorTypes
  <2>3. \A q \in Path : /\ eMeta[q].snapshot <= eClock + 1 /\ eMeta[q].stamp <= eClock + 1
                        /\ eMeta[q].initial <= eClock + 1 /\ eText[q] <= eClock + 1
    BY EditorFacts DEF EditorTypes
  <2>4. \A s \in Editor!Slot : eOps[s].content <= eClock + 1
    BY EditorFacts DEF EditorTypes, Work
  <2> QED  BY <1>2, <2>2, <2>3, <2>4, EditorFacts DEF EditorTypes
<1>4. PoolAgrees' /\ DialogFits' /\ OthersFit' /\ MarkedDirty' /\ HandedClean'
  BY <1>2 DEF EditorInv, PoolAgrees, DialogFits, OthersFit, MarkedDirty, HandedClean, Given, Editor!Idle
<1>5. UnseenDiffers'
  BY <1>1, <1>2, EditorFacts DEF EditorInv, UnseenDiffers, EditorTypes, Editor!Gone
<1>6. (\A s \in Works : WorkSafe(s)') /\ SavedTwice'
  <2>1. ASSUME NEW q \in Path, NEW s \in Works, Editor!Uses(s, q)
        PROVE  /\ q \in eUnseen' => q \in eUnseen
               /\ q \in eUnseen' /\ eDisk'[q] # Editor!Gone => eDisk[q] # Editor!Gone
    <3>1. Editor!Busy(q)
      BY <2>1, EditorNames DEF Works, Editor!Busy
    <3> QED  BY <1>1, <1>2, <3>1, EditorFacts DEF EditorTypes
  <2> QED  BY <1>2, <2>1, WorkStays DEF Given
<1>7. EditsStep
  BY <1>2, EditsHold
<1> QED  BY <1>3, <1>4, <1>5, <1>6, <1>7 DEF EditorInv

\* A keystroke.
LEMMA TypeKeeps ==
  ASSUME EditorInv, EditorCounts, NEW p \in Path, Editor!Type(p)
  PROVE  EditorInv' /\ EditsStep
<1>1. PICK new \in {eClock + 1, eMeta[p].snapshot} :
        /\ eText' = [eText EXCEPT ![p] = new]
        /\ eDirty' = IF new # eMeta[p].snapshot THEN eDirty \cup {p} ELSE eDirty \ {p}
  BY DEF Editor!Type
<1>2. /\ UNCHANGED <<eDisk, eOps, eDialog, eOrder, eMeta, eChanged, eActive, eUnseen>>
      /\ eClock' = eClock + 1 /\ Pool' = Pool /\ p \in Pool
      /\ eRaced' = IF Editor!Busy(p) THEN eRaced \cup {p} ELSE eRaced
      /\ eAgreed' = eAgreed \ {<<"buffer", p>>}
      /\ eUsed' = [eUsed EXCEPT !["edits"] = @ + 1]
  BY EditorNames DEF Editor!Type, Editor!Editing, Editor!Spend, Editor!viewVars, Editor!dialogVars, Pool
<1>3. EditorTypes'
  <2>1. new \in Nat /\ new <= eClock + 1
    BY <1>1, EditorFacts DEF EditorTypes
  <2>2. eText' \in [Path -> Nat] /\ \A q \in Path : eText'[q] <= eClock + 1
    BY <1>1, <2>1, EditorFacts DEF EditorTypes
  <2>3. \A q \in Path : /\ eMeta[q].snapshot <= eClock + 1 /\ eMeta[q].stamp <= eClock + 1
                        /\ eMeta[q].initial <= eClock + 1
                        /\ eDisk[q].content <= eClock + 1 /\ eDisk[q].stamp <= eClock + 1
    BY EditorFacts DEF EditorTypes
  <2>4. \A s \in Editor!Slot : eOps[s].content <= eClock + 1
    BY EditorFacts DEF EditorTypes, Work
  <2> QED  BY <1>2, <2>2, <2>3, <2>4, EditorFacts DEF EditorTypes
<1>4. \A q \in Path : /\ q # p \/ Editor!Busy(q) => (Given(q) => Given(q)')
                      /\ q # p => (Given(q)' => Given(q))
                      /\ q # p => eText'[q] = eText[q]
                      /\ q = p /\ Editor!Busy(p) => Given(q)'
  BY <1>1, <1>2, EditorFacts DEF Given, EditorTypes
<1>5. PoolAgrees' /\ DialogFits' /\ OthersFit' /\ UnseenDiffers'
  BY <1>1, <1>2 DEF EditorInv, PoolAgrees, DialogFits, OthersFit, UnseenDiffers, Editor!Idle, Editor!Gone
<1>6. MarkedDirty'
  <2>1. eText'[p] = new
    BY <1>1, EditorFacts DEF EditorTypes
  <2> QED  BY <1>1, <1>2, <1>4, <2>1, EditorFacts DEF EditorInv, MarkedDirty
<1>7. HandedClean'
  <2> SUFFICES ASSUME NEW q \in Path, eOps["handoff"] # Editor!Idle, q = eOps["handoff"].path
               PROVE  q \notin eDirty' \/ Given(q)'
    BY <1>2, EditorFacts DEF HandedClean, Editor!Idle, OthersFit
  <2>1. Editor!Busy(q)
    BY EditorNames DEF Editor!Busy, Editor!Uses
  <2>2. q \notin eDirty \/ Given(q)
    BY DEF EditorInv, HandedClean
  <2> QED  BY <1>1, <1>4, <2>1, <2>2
<1>8. (\A s \in Works : WorkSafe(s)') /\ SavedTwice'
  <2>1. ASSUME NEW q \in Path, NEW s \in Works, Editor!Uses(s, q) PROVE Editor!Busy(q)
    BY <2>1, EditorNames DEF Works, Editor!Busy
  <2>2. \A q \in Path : <<"disk", q>> \in eAgreed => <<"disk", q>> \in eAgreed'
    BY <1>2
  <2> QED  BY <1>2, <1>4, <2>1, <2>2, WorkStays
<1>9. EditsStep
  BY <1>2 DEF EditsStep, EditorCounts
<1> QED  BY <1>3, <1>5, <1>6, <1>7, <1>8, <1>9 DEF EditorInv

\* The page is left and shown again.
LEMMA LeaveAndReturnKeeps ==
  ASSUME EditorInv, EditorCounts, Editor!LeaveAndReturn
  PROVE  EditorInv' /\ EditsStep
<1>1. /\ UNCHANGED <<eDisk, eOps, eDialog, eOrder, eMeta, eDirty, eActive, eUnseen, eClock, eAgreed>> /\ Pool' = Pool
      /\ eText' = [p \in Path |-> IF p \in Pool THEN eMeta[p].initial ELSE eText[p]]
      /\ eRaced' = eRaced \cup {p \in Pool : Editor!Busy(p) \/ eText'[p] # eMeta[p].snapshot}
      /\ eUsed' = [eUsed EXCEPT !["switches"] = @ + 1]
  BY EditorFacts DEF Editor!LeaveAndReturn, Editor!Spend, Editor!viewVars, Editor!dialogVars, Pool, PoolAgrees
<1>2. EditorTypes'
  BY <1>1, EditorFacts DEF EditorTypes
<1>3. PoolAgrees' /\ DialogFits' /\ OthersFit' /\ UnseenDiffers'
  BY <1>1 DEF EditorInv, PoolAgrees, DialogFits, OthersFit, UnseenDiffers, Editor!Idle, Editor!Gone
<1>4. MarkedDirty' /\ HandedClean'
  BY <1>1 DEF EditorInv, MarkedDirty, HandedClean, Given, Editor!Idle
<1>5. (\A s \in Works : WorkSafe(s)') /\ SavedTwice'
  <2>1. ASSUME NEW q \in Path, NEW s \in Works, Editor!Uses(s, q)
        PROVE  /\ Given(q) => Given(q)'
               /\ q \in Pool => Given(q)'
               /\ q \notin Pool => eText'[q] = eText[q]
    <3>1. Editor!Busy(q)
      BY <2>1, EditorNames DEF Works, Editor!Busy
    <3> QED  BY <1>1, <3>1 DEF Given
  <2> QED  BY <1>1, <2>1, WorkStays
<1>6. EditsStep
  BY <1>1 DEF EditsStep, EditorCounts
<1> QED  BY <1>2, <1>3, <1>4, <1>5, <1>6 DEF EditorInv

\* What holds of the types after a step that writes numbers up to the new clock.
LEMMA TypesGrow ==
  ASSUME EditorInv, eClock' \in Nat, eClock <= eClock',
         eDisk' \in [Path -> [content : Nat, stamp : Nat]],
         eMeta' \in [Path -> [snapshot : Nat, stamp : Nat, initial : Nat]],
         eText' \in [Path -> Nat], eOps' \in [Editor!Slot -> Work], eDialog' \in Question,
         \A p \in Path : /\ eDisk'[p] = eDisk[p] \/ (eDisk'[p].content <= eClock' /\ eDisk'[p].stamp <= eClock')
                         /\ eMeta'[p] = eMeta[p] \/ (/\ eMeta'[p].snapshot <= eClock' /\ eMeta'[p].stamp <= eClock'
                                                     /\ eMeta'[p].initial <= eClock')
                         /\ eText'[p] = eText[p] \/ eText'[p] <= eClock',
         \A s \in Editor!Slot : eOps'[s].content <= eClock'
  PROVE  EditorTypes'
<1>1. EditorTypes /\ Editor!Slot' = Editor!Slot
  BY DEF EditorInv, Editor!Slot
<1>2. ASSUME NEW p \in Path
      PROVE  /\ eDisk'[p].content <= eClock' /\ eDisk'[p].stamp <= eClock'
             /\ eMeta'[p].snapshot <= eClock' /\ eMeta'[p].stamp <= eClock' /\ eMeta'[p].initial <= eClock'
             /\ eText'[p] <= eClock'
  <2>1. /\ eDisk[p].content \in Nat /\ eDisk[p].stamp \in Nat /\ eDisk[p].content <= eClock /\ eDisk[p].stamp <= eClock
        /\ eMeta[p].snapshot \in Nat /\ eMeta[p].stamp \in Nat /\ eMeta[p].initial \in Nat
        /\ eMeta[p].snapshot <= eClock /\ eMeta[p].stamp <= eClock /\ eMeta[p].initial <= eClock
        /\ eText[p] \in Nat /\ eText[p] <= eClock /\ eClock \in Nat
    BY <1>1 DEF EditorTypes
  <2>2. eDisk'[p].content <= eClock' /\ eDisk'[p].stamp <= eClock'
    BY <2>1
  <2>3. eMeta'[p].snapshot <= eClock' /\ eMeta'[p].stamp <= eClock' /\ eMeta'[p].initial <= eClock'
    BY <2>1
  <2> QED  BY <2>1, <2>2, <2>3
<1> QED  BY <1>1, <1>2 DEF EditorTypes

\* Buffers closed.
LEMMA Closed ==
  ASSUME EditorInv, NEW S, Editor!CloseBuffers(S)
  PROVE  PoolAgrees' /\ Pool' = Pool \ S /\ eDirty' = eDirty \ S
<1>1. eOrder' = Editor!Without(S) /\ eDirty' = eDirty \ S /\ eChanged' = eChanged \ S
      /\ eActive' = IF eActive \in S THEN NoPath ELSE eActive
  BY Zenon DEF Editor!CloseBuffers
<1>2. Pool' = Pool \ S /\ eOrder' \in Seq(Path) /\ IsInjective(eOrder')
  BY <1>1, EditorFacts, PoolWithout DEF Pool
<1> QED  BY <1>1, <1>2, EditorFacts DEF PoolAgrees

LEMMA DiscardKeeps ==
  ASSUME EditorInv, Editor!Discard
  PROVE  EditorInv' /\ EditsStep
<1>1. /\ UNCHANGED <<eDisk, eOps, eMeta, eText, eUnseen, eClock>> /\ eDialog' = Editor!NoDialog
      /\ Editor!CloseBuffers({eActive})
      /\ eAgreed' = eAgreed \cup {<<"buffer", eDialog.path>>} /\ eRaced \subseteq eRaced'
  BY DEF Editor!Discard
<1>2. PoolAgrees' /\ Pool' = Pool \ {eActive} /\ eDirty' = eDirty \ {eActive}
  BY <1>1, Closed
<1>3. eDialog' \in Question /\ DialogFits'
  BY <1>1, DialogClosed
<1>4. EditorTypes'
  BY <1>1, <1>3, EditorFacts DEF EditorTypes
<1>5. OthersFit' /\ MarkedDirty' /\ HandedClean' /\ UnseenDiffers'
  BY <1>1, <1>2 DEF EditorInv, OthersFit, MarkedDirty, HandedClean, UnseenDiffers, Given, Editor!Idle, Editor!Gone
<1>6. (\A s \in Works : WorkSafe(s)') /\ SavedTwice'
  <2>1. \A q \in Path : (Given(q) => Given(q)') /\ (q \in Pool' => q \in Pool)
    BY <1>1, <1>2 DEF Given
  <2>2. \A q \in Path : <<"disk", q>> \in eAgreed => <<"disk", q>> \in eAgreed'
    BY <1>1
  <2> QED  BY <1>1, <2>1, <2>2, WorkStays
<1>7. EditsStep
  <2>1. eActive # eDialog.path => Editor!ClosesAnother(eActive)
    BY Zenon DEF Editor!ClosesAnother
  <2> QED  BY <1>1, <1>2, <2>1, EditsHold
<1> QED  BY <1>2, <1>3, <1>4, <1>5, <1>6, <1>7 DEF EditorInv

\* The external editor runs.
LEMMA RunEditorKeeps ==
  ASSUME EditorInv, Editor!RunEditor
  PROVE  EditorInv' /\ EditsStep
<1> DEFINE h == eOps["handoff"]  p == h.path
<1>1. h.stage = "settings" /\ p \in Path /\ h \in Work /\ h # Editor!Idle
  BY EditorFacts DEF Editor!RunEditor, OthersFit, Editor!Idle
<1>2. PICK after \in {eDisk[p], Editor!Gone, [content |-> eClock + 1, stamp |-> eClock + 1]} :
        eDisk' = [eDisk EXCEPT ![p] = after]
  BY DEF Editor!RunEditor
<1>3. /\ eClock' = eClock + 1 /\ Pool' = Pool
      /\ eUnseen' = IF eDisk' = eDisk THEN eUnseen ELSE eUnseen \ {p}
      /\ eOps' = [eOps EXCEPT !["handoff"] = [h EXCEPT !.stage = "reconcile"]]
      /\ UNCHANGED <<eOrder, eMeta, eText, eDirty, eChanged, eActive, eDialog, eAgreed, eRaced>>
  BY DEF Editor!RunEditor, Editor!SetOp, Editor!poolVars, Editor!viewVars, Editor!dialogVars, Pool
<1>4. /\ eOps' \in [Editor!Slot -> Work] /\ eOps'["handoff"].stage = "reconcile" /\ eOps'["handoff"].path = p
      /\ eOps'["handoff"].content = h.content
      /\ \A s \in Editor!Slot \ {"handoff"} : eOps'[s] = eOps[s]
  BY <1>1, <1>3, EditorFacts DEF Work
<1>5. EditorTypes'
  <2>1. after \in [content : Nat, stamp : Nat] /\ after.content <= eClock + 1 /\ after.stamp <= eClock + 1
    BY <1>1, EditorFacts DEF Editor!Gone, EditorTypes
  <2>2. eDisk' \in [Path -> [content : Nat, stamp : Nat]]
        /\ \A q \in Path : eDisk'[q] = eDisk[q] \/ (eDisk'[q].content <= eClock + 1 /\ eDisk'[q].stamp <= eClock + 1)
    BY <1>1, <1>2, <2>1, EditorFacts DEF EditorTypes
  <2>3. \A s \in Editor!Slot : eOps'[s].content = eOps[s].content /\ eOps[s].content \in Nat /\ eOps[s].content <= eClock
    BY <1>4, EditorFacts DEF EditorTypes, Work
  <2>4. \A s \in Editor!Slot : eOps'[s].content <= eClock + 1
    BY <2>3, EditorFacts
  <2>5. eClock' \in Nat /\ eClock <= eClock'
    BY <1>3, EditorFacts
  <2> QED  BY <1>3, <1>4, <2>2, <2>4, <2>5, EditorFacts, TypesGrow DEF EditorTypes
<1>6. \A q \in Path : q \in eUnseen' => q \in eUnseen /\ eDisk'[q] = eDisk[q]
  BY <1>1, <1>2, <1>3, EditorFacts DEF EditorTypes
<1>7. PoolAgrees' /\ DialogFits' /\ MarkedDirty'
  BY <1>3 DEF EditorInv, PoolAgrees, DialogFits, MarkedDirty, Given
<1>8. OthersFit' /\ HandedClean'
  BY <1>1, <1>3, <1>4, EditorFacts DEF EditorInv, OthersFit, HandedClean, Given, Editor!Idle
<1>9. UnseenDiffers'
  <2>1. \A q \in eUnseen' : q \in eUnseen /\ eDisk'[q] = eDisk[q]
    BY <1>2, <1>3, EditorFacts DEF EditorTypes
  <2> QED  BY <1>3, <2>1 DEF EditorInv, UnseenDiffers, Editor!Gone
<1>10. (\A s \in Works : WorkSafe(s)') /\ SavedTwice'
  <2>1. \A s \in Works : eOps'[s] = eOps[s]
    BY <1>4, EditorNames DEF Works
  <2> QED  BY <1>3, <1>6, <2>1, WorkStays DEF Given
<1>11. EditsStep
  BY <1>3, EditsHold
<1> QED  BY <1>5, <1>7, <1>8, <1>9, <1>10, <1>11 DEF EditorInv

\* A buffer's table entry after a read of its file.
LEMMA MetaRead ==
  ASSUME EditorInv, NEW p \in Path,
         eMeta' = [eMeta EXCEPT ![p].snapshot = eDisk[p].content, ![p].stamp = eDisk[p].stamp]
  PROVE  /\ eMeta' \in [Path -> [snapshot : Nat, stamp : Nat, initial : Nat]]
         /\ \A q \in Path \ {p} : eMeta'[q] = eMeta[q]
         /\ eMeta'[p].snapshot = eDisk[p].content /\ eMeta'[p].stamp = eDisk[p].stamp
         /\ eMeta'[p].initial = eMeta[p].initial
<1>1. /\ eMeta \in [Path -> [snapshot : Nat, stamp : Nat, initial : Nat]]
      /\ eDisk \in [Path -> [content : Nat, stamp : Nat]]
  BY EditorFacts DEF EditorTypes
<1> QED  BY <1>1

\* A buffer the external editor had, or the work of a reload, takes what the file
\* holds.
LEMMA TakesDisk ==
  ASSUME EditorInv, NEW p \in Path, UNCHANGED <<eDisk, eOrder, eActive, eClock, eDialog, eAgreed>>,
         eText' = [eText EXCEPT ![p] = eDisk[p].content],
         eMeta' \in [Path -> [snapshot : Nat, stamp : Nat, initial : Nat]],
         \A q \in Path \ {p} : eMeta'[q] = eMeta[q],
         eMeta'[p].snapshot = eDisk[p].content, eMeta'[p].stamp = eDisk[p].stamp, eMeta'[p].initial = eMeta[p].initial,
         eDirty' \subseteq eDirty \cup {p}, eDirty \subseteq eDirty' \cup {p}, p \in Pool,
         eChanged' = eChanged \ {p}, eUnseen' = eUnseen \ {p}, eRaced \subseteq eRaced',
         eOps' \in [Editor!Slot -> Work], \A s \in Editor!Slot : eOps'[s].content <= eClock
  PROVE  EditorTypes' /\ PoolAgrees' /\ DialogFits' /\ MarkedDirty' /\ UnseenDiffers' /\ Pool' = Pool
<1>1. /\ eMeta \in [Path -> [snapshot : Nat, stamp : Nat, initial : Nat]] /\ eText \in [Path -> Nat]
      /\ eDisk \in [Path -> [content : Nat, stamp : Nat]] /\ eDialog \in Question /\ eClock \in Nat
  BY EditorFacts DEF EditorTypes
<1>2. /\ \A q \in Path \ {p} : eText'[q] = eText[q] /\ eMeta'[q] = eMeta[q]
      /\ eText'[p] = eDisk[p].content /\ eMeta'[p].snapshot = eDisk[p].content /\ eMeta'[p].stamp = eDisk[p].stamp
      /\ eMeta'[p].initial = eMeta[p].initial
      /\ eText' \in [Path -> Nat] /\ eMeta' \in [Path -> [snapshot : Nat, stamp : Nat, initial : Nat]]
  BY <1>1
<1>3. EditorTypes'
  <2>1. /\ eDisk[p].content <= eClock /\ eDisk[p].stamp <= eClock /\ eMeta[p].initial <= eClock
    BY EditorFacts DEF EditorTypes
  <2>2. \A q \in Path :
          /\ eMeta'[q] = eMeta[q] \/ (/\ eMeta'[q].snapshot <= eClock /\ eMeta'[q].stamp <= eClock
                                     /\ eMeta'[q].initial <= eClock)
          /\ eText'[q] = eText[q] \/ eText'[q] <= eClock
    BY <1>2, <2>1
  <2>3. eDisk' = eDisk /\ eClock' = eClock /\ eDialog' \in Question /\ eClock <= eClock
    BY <1>1
  <2>4. /\ eClock' \in Nat /\ eClock <= eClock' /\ eDisk' \in [Path -> [content : Nat, stamp : Nat]]
        /\ \A s \in Editor!Slot : eOps'[s].content <= eClock'
    BY <1>1, <2>3
  <2>5. \A q \in Path :
          /\ eDisk'[q] = eDisk[q]
          /\ eMeta'[q] = eMeta[q] \/ (/\ eMeta'[q].snapshot <= eClock' /\ eMeta'[q].stamp <= eClock'
                                     /\ eMeta'[q].initial <= eClock')
          /\ eText'[q] = eText[q] \/ eText'[q] <= eClock'
    BY <2>2, <2>3
  <2> QED  BY <1>1, <1>2, <2>3, <2>4, <2>5, TypesGrow
<1>4. Pool' = Pool /\ Pool \subseteq Path
  BY EditorFacts DEF Pool
<1>5. PoolAgrees' /\ DialogFits'
  BY <1>4 DEF EditorInv, PoolAgrees, DialogFits
<1>6. MarkedDirty' /\ UnseenDiffers'
  <2>1. \A q \in Pool \ {p} : eText'[q] # eMeta'[q].snapshot => q \in eDirty' \/ Given(q)'
    BY <1>2, <1>4 DEF EditorInv, MarkedDirty, Given
  <2>2. \A q \in Path \cap eUnseen' : q \in eUnseen /\ eMeta'[q] = eMeta[q]
    BY <1>2
  <2> QED  BY <1>2, <1>4, <2>1, <2>2 DEF EditorInv, MarkedDirty, UnseenDiffers, Editor!Gone
<1> QED  BY <1>3, <1>4, <1>5, <1>6

\* The host takes in what the external editor left.
LEMMA ReconcileKeeps ==
  ASSUME EditorInv, Editor!Reconcile
  PROVE  EditorInv' /\ EditsStep
<1> DEFINE h == eOps["handoff"]
<1>0. h.stage = "reconcile" /\ h.path \in Path /\ h \in Work /\ h # Editor!Idle
  BY EditorFacts DEF Editor!Reconcile, OthersFit, Editor!Idle
<1> PICK p \in Path : p = h.path
  BY <1>0
<1>1. h.stage = "reconcile" /\ h \in Work /\ h # Editor!Idle
  BY <1>0
<1>2. /\ eOps' = [eOps EXCEPT !["handoff"] = Editor!Idle]
      /\ UNCHANGED <<eDisk, eClock, eDialog, eAgreed>>
      /\ eRaced' = IF \E s \in Editor!Slot \ {"handoff"} : Editor!Uses(s, p) THEN eRaced \cup {p} ELSE eRaced
  BY DEF Editor!Reconcile, Editor!SetOp, Editor!dialogVars
<1>3. /\ eOps' \in [Editor!Slot -> Work] /\ eOps'["handoff"] = Editor!Idle
      /\ \A s \in Editor!Slot \ {"handoff"} : eOps'[s] = eOps[s]
      /\ \A s \in Editor!Slot : eOps'[s].content <= eClock
  BY <1>2, EditorFacts DEF EditorTypes, Editor!Idle
<1>4. OthersFit' /\ HandedClean'
  BY <1>3, EditorFacts DEF OthersFit, HandedClean, Editor!Idle
<1>5. /\ \A s \in Works : eOps'[s] = eOps[s] /\ (Editor!Uses(s, p) => Given(p)')
      /\ \A q \in Path : Given(q) => Given(q)'
      /\ eRaced \subseteq eRaced'
  BY <1>2, <1>3, EditorFacts DEF Works, Given
<1>6. CASE UNCHANGED <<eOrder, eMeta, eText, eDirty, eChanged, eActive, eUnseen>>
  <2>1. /\ Pool' = Pool /\ eDialog' \in Question /\ DialogFits' /\ eAgreed \subseteq eAgreed'
    BY <1>2, <1>6, DialogKept DEF Pool
  <2>2. (\A s \in Works : WorkSafe(s)') /\ SavedTwice'
    BY <1>2, <1>5, <1>6, <2>1, WorkStays
  <2> QED  BY <1>2, <1>3, <1>4, <1>5, <1>6, <2>1, <2>2, PoolStays
<1>7. CASE /\ Editor!CloseBuffers({p}) /\ UNCHANGED <<eMeta, eText, eUnseen>>
  <2>1. PoolAgrees' /\ Pool' = Pool \ {p} /\ eDirty' = eDirty \ {p}
    BY <1>7, Closed
  <2>2. EditorTypes' /\ DialogFits'
    BY <1>2, <1>3, <1>7, EditorFacts DEF EditorTypes, DialogFits
  <2>3. MarkedDirty' /\ UnseenDiffers'
    BY <1>2, <1>5, <1>7, <2>1, EditorFacts DEF EditorInv, MarkedDirty, UnseenDiffers, Editor!Gone
  <2>4. (\A s \in Works : WorkSafe(s)') /\ SavedTwice'
    <3>1. \A q \in Path : q \in Pool' => q \in Pool
      BY <2>1
    <3> QED  BY <1>2, <1>5, <1>7, <3>1, WorkStays
  <2>5. EditsStep
    <3>1. p \in Pool /\ eText[p] # eMeta[p].snapshot => Given(p)
      BY <1>1 DEF EditorInv, MarkedDirty, HandedClean
    <3> QED  BY <1>7, <2>1, <3>1, EditsHold
  <2> QED  BY <1>4, <2>1, <2>2, <2>3, <2>4, <2>5 DEF EditorInv
<1>8. CASE /\ p \in Pool
           /\ eText' = [eText EXCEPT ![p] = eDisk[p].content]
           /\ eMeta' = [eMeta EXCEPT ![p].snapshot = eDisk[p].content, ![p].stamp = eDisk[p].stamp]
           /\ eDirty' \in {eDirty \cup {p}, eDirty \ {p}} /\ eChanged' = eChanged \ {p} /\ eUnseen' = eUnseen \ {p}
           /\ UNCHANGED <<eOrder, eActive>>
  <2>1. eDirty' \subseteq eDirty \cup {p} /\ eDirty \subseteq eDirty' \cup {p}
    BY <1>8
  <2>2. EditorTypes' /\ PoolAgrees' /\ DialogFits' /\ MarkedDirty' /\ UnseenDiffers' /\ Pool' = Pool
    BY <1>1, <1>2, <1>3, <1>5, <1>8, <2>1, MetaRead, TakesDisk
  <2>3. (\A s \in Works : WorkSafe(s)') /\ SavedTwice'
    <3>1. /\ \A q \in Path \ {p} : eText'[q] = eText[q]
          /\ \A q \in Path : (q \in eUnseen' => q \in eUnseen)
          /\ \A q \in Path : <<"disk", q>> \in eAgreed => <<"disk", q>> \in eAgreed'
      BY <1>2, <1>8, EditorFacts DEF EditorTypes
    <3> QED  BY <1>2, <1>5, <2>2, <3>1, WorkStays
  <2>4. EditsStep
    <3>1. eText[p] # eMeta[p].snapshot => Given(p)
      BY <1>1, <1>8 DEF EditorInv, MarkedDirty, HandedClean
    <3>2. \A q \in Pool \ {p} : eText'[q] = eText[q]
      BY <1>8, EditorFacts DEF EditorTypes
    <3> QED  BY <2>2, <3>1, <3>2, EditsHold
  <2> QED  BY <1>4, <2>2, <2>3, <2>4 DEF EditorInv
<1> QED
  <2>1. \/ UNCHANGED <<Editor!poolVars, eActive, eViewed, eUnseen>>
        \/ Editor!CloseBuffers({p}) /\ UNCHANGED <<eMeta, eText, eUnseen>>
        \/ /\ p \in Pool
           /\ eText' = [eText EXCEPT ![p] = eDisk[p].content]
           /\ eMeta' = [eMeta EXCEPT ![p].snapshot = eDisk[p].content, ![p].stamp = eDisk[p].stamp]
           /\ eDirty' \in {eDirty \cup {p}, eDirty \ {p}} /\ eChanged' = eChanged \ {p} /\ eUnseen' = eUnseen \ {p}
           /\ UNCHANGED <<eOrder, eActive>>
    BY EditorNames DEF Editor!Reconcile
  <2> QED  BY <1>6, <1>7, <1>8, <2>1 DEF Editor!poolVars

\* What one slot's step leaves of opening and hand-off.
LEMMA OthersStay ==
  ASSUME EditorInv, NEW s \in Works, NEW op \in Work, eOps' = [eOps EXCEPT ![s] = op], op.content <= eClock,
         eDirty' \subseteq eDirty, \A p \in Path : Given(p) => Given(p)'
  PROVE  /\ eOps' \in [Editor!Slot -> Work] /\ eOps'[s] = op /\ \A o \in Works \ {s} : eOps'[o] = eOps[o]
         /\ \A o \in Editor!Slot : eOps'[o].content <= eClock
         /\ OthersFit' /\ HandedClean'
<1>1. s \in Editor!Slot /\ s # "open" /\ s # "handoff"
  BY EditorNames DEF Works
<1>2. /\ eOps' \in [Editor!Slot -> Work] /\ eOps'[s] = op
      /\ \A o \in Editor!Slot \ {s} : eOps'[o] = eOps[o]
      /\ \A o \in Editor!Slot : eOps'[o].content <= eClock
  BY <1>1, SlotSet
<1>3. eOps'["open"] = eOps["open"] /\ eOps'["handoff"] = eOps["handoff"] /\ \A o \in Works \ {s} : eOps'[o] = eOps[o]
  BY <1>1, <1>2, EditorNames DEF Works
<1>4. OthersFit'
  BY <1>3 DEF EditorInv, OthersFit, Editor!Idle
<1>5. HandedClean'
  BY <1>3, EditorFacts DEF EditorInv, HandedClean, OthersFit, Editor!Idle
<1> QED  BY <1>2, <1>3, <1>4, <1>5

LEMMA ReloadedKeeps ==
  ASSUME EditorInv, NEW s \in Works, Editor!Reloaded(s)
  PROVE  EditorInv' /\ EditsStep
<1>0. eOps[s].path \in Path /\ Given(eOps[s].path)
  BY DEF Editor!Reloaded, EditorInv, WorkSafe, WorkFits, Consented
<1> PICK p \in Path : p = eOps[s].path
  BY <1>0
<1>1. Given(p) /\ Pool \subseteq Path
  BY <1>0, EditorFacts
<1>2. /\ eOps' = [eOps EXCEPT ![s] = Editor!Idle]
      /\ UNCHANGED <<eDisk, eActive, eDialog, eAgreed, eRaced, eClock>>
      /\ \A q \in Path : Given(q) => Given(q)'
  BY DEF Editor!Reloaded, Editor!SetOp, Editor!viewVars, Editor!dialogVars, Given
<1>3. Editor!Idle \in Work /\ Editor!Idle.content <= eClock
  BY EditorFacts DEF Editor!Idle
<1>4. CASE UNCHANGED <<Editor!poolVars, eUnseen>>
  <2>1. UNCHANGED <<eDisk, eOrder, eMeta, eText, eDirty, eChanged, eActive, eUnseen, eClock>>
    BY <1>2, <1>4 DEF Editor!poolVars
  <2>2. eOps'[s] = Editor!Idle
    BY <1>2, EditorFacts DEF Works
  <2>3. WorkSafe(s)' /\ SavedTwice'
    BY <2>2, IdleSafe, IdleTwice DEF Works
  <2> QED  BY <1>2, <1>3, <2>1, <2>3, DialogKept, QuietWork
<1>5. CASE /\ p \in Pool
           /\ eText' = [eText EXCEPT ![p] = eDisk[p].content]
           /\ eMeta' = [eMeta EXCEPT ![p].snapshot = eDisk[p].content, ![p].stamp = eDisk[p].stamp]
           /\ eDirty' = eDirty \ {p} /\ eChanged' = eChanged \ {p} /\ eUnseen' = eUnseen \ {p}
           /\ eOrder' = eOrder
  <2>1. eDirty' \subseteq eDirty \cup {p} /\ eDirty \subseteq eDirty' \cup {p} /\ eDirty' \subseteq eDirty
    BY <1>5
  <2>2. /\ eOps' \in [Editor!Slot -> Work] /\ eOps'[s] = Editor!Idle /\ \A o \in Works \ {s} : eOps'[o] = eOps[o]
        /\ \A o \in Editor!Slot : eOps'[o].content <= eClock
        /\ OthersFit' /\ HandedClean'
    BY <1>2, <1>3, <2>1, OthersStay
  <2>3. EditorTypes' /\ PoolAgrees' /\ DialogFits' /\ MarkedDirty' /\ UnseenDiffers' /\ Pool' = Pool
    BY <1>1, <1>2, <1>5, <2>1, <2>2, MetaRead, TakesDisk
  <2>4. \A q \in Path \ {p} : eText'[q] = eText[q]
    BY <1>5, EditorFacts DEF EditorTypes
  <2>5. WorkSafe(s)' /\ SavedTwice'
    BY <2>2, IdleSafe, IdleTwice DEF Works
  <2>6. \A o \in Works : WorkSafe(o)'
    <3>1. /\ \A q \in Path : (q \in eUnseen' => q \in eUnseen)
          /\ \A q \in Path : <<"disk", q>> \in eAgreed => <<"disk", q>> \in eAgreed'
          /\ eRaced \subseteq eRaced'
      BY <1>2, <1>5
    <3>2. ASSUME NEW o \in Works \ {s} PROVE WorkSafe(o)'
      BY <1>1, <1>2, <2>2, <2>3, <2>4, <3>1, WorkKept
    <3> QED  BY <2>5, <3>2
  <2>7. EditsStep
    BY <1>1, <2>3, <2>4, EditsHold
  <2> QED  BY <2>2, <2>3, <2>5, <2>6, <2>7 DEF EditorInv
<1> QED
  <2>1. \/ UNCHANGED <<Editor!poolVars, eUnseen>>
        \/ /\ p \in Pool
           /\ eText' = [eText EXCEPT ![p] = eDisk[p].content]
           /\ eMeta' = [eMeta EXCEPT ![p].snapshot = eDisk[p].content, ![p].stamp = eDisk[p].stamp]
           /\ eDirty' = eDirty \ {p} /\ eChanged' = eChanged \ {p} /\ eUnseen' = eUnseen \ {p}
           /\ eOrder' = eOrder
    BY EditorNames DEF Editor!Reloaded
  <2> QED  BY <1>4, <1>5, <2>1

\* The opening's slot gets its next work, or none.
LEMMA OpenSet ==
  ASSUME EditorInv, NEW op \in Work, eOps' = [eOps EXCEPT !["open"] = op], op.content <= eClock,
         op = Editor!Idle \/ (op.stage \in {"preview", "read"} /\ op.path \in Path),
         eDirty' \subseteq eDirty, \A p \in Path : Given(p) => Given(p)'
  PROVE  /\ eOps' \in [Editor!Slot -> Work] /\ \A s \in Editor!Slot : eOps'[s].content <= eClock
         /\ \A s \in Works : eOps'[s] = eOps[s]
         /\ OthersFit' /\ HandedClean'
<1>1. "open" \in Editor!Slot
  BY EditorNames
<1>2. /\ eOps' \in [Editor!Slot -> Work] /\ eOps'["open"] = op
      /\ \A s \in Editor!Slot \ {"open"} : eOps'[s] = eOps[s]
      /\ \A s \in Editor!Slot : eOps'[s].content <= eClock
  BY <1>1, SlotSet
<1>3. eOps'["handoff"] = eOps["handoff"] /\ \A s \in Works : eOps'[s] = eOps[s]
  BY <1>2, EditorNames DEF Works
<1>4. OthersFit'
  BY <1>2, <1>3 DEF EditorInv, OthersFit, Editor!Idle
<1>5. HandedClean'
  BY <1>3, EditorFacts DEF EditorInv, HandedClean, OthersFit, Editor!Idle
<1> QED  BY <1>2, <1>3, <1>4, <1>5

\* The buffer that makes room has no edits.
LEMMA EvictedClean ==
  ASSUME EditorInv, ~(Len(eOrder) >= PoolCap /\ Editor!Victims = {})
  PROVE  Editor!Evicted \cap eDirty = {}
<1>1. CASE Len(eOrder) >= PoolCap
  <2>1. /\ Editor!Victims # {} /\ Editor!Victims \subseteq 1..Len(eOrder) /\ Len(eOrder) \in Nat
        /\ \A i \in Editor!Victims : eOrder[i] \notin eDirty
    BY <1>1, EditorFacts DEF PoolAgrees, Editor!Victims
  <2>2. Max(Editor!Victims) \in Editor!Victims
    BY <2>1, LastIndex
  <2>3. Editor!Max(Editor!Victims) = Max(Editor!Victims)
    BY Zenon DEF Editor!Max, Max
  <2> QED  BY <1>1, <2>1, <2>2, <2>3 DEF Editor!Evicted
<1>2. CASE ~(Len(eOrder) >= PoolCap)
  BY <1>2 DEF Editor!Evicted
<1> QED  BY <1>1, <1>2

\* Buffers without edits leave the pool, or none; the rest of the tables stays.
LEMMA PoolShrinks ==
  ASSUME EditorInv, NEW op \in Work, eOps' = [eOps EXCEPT !["open"] = op], op.content <= eClock,
         op = Editor!Idle \/ (op.stage \in {"preview", "read"} /\ op.path \in Path),
         UNCHANGED <<eDisk, eMeta, eText, eUnseen, eClock, eDialog, eAgreed, eRaced>>,
         PoolAgrees', Pool' \subseteq Pool, eDirty' = eDirty, \A p \in Pool \ Pool' : p \notin eDirty
  PROVE  EditorInv' /\ EditsStep
<1>1. \A p : Given(p)' <=> Given(p)
  BY DEF Given
<1>2. /\ eOps' \in [Editor!Slot -> Work] /\ \A s \in Editor!Slot : eOps'[s].content <= eClock
      /\ \A s \in Works : eOps'[s] = eOps[s]
      /\ OthersFit' /\ HandedClean'
  BY <1>1, OpenSet
<1>3. EditorTypes' /\ DialogFits'
  BY <1>2, EditorFacts DEF EditorTypes, DialogFits
<1>4. MarkedDirty' /\ UnseenDiffers'
  BY <1>1 DEF EditorInv, MarkedDirty, UnseenDiffers, Editor!Gone
<1>5. (\A s \in Works : WorkSafe(s)') /\ SavedTwice'
  <2>1. /\ \A q \in Path : q \in Pool' => q \in Pool
        /\ \A q \in Path : <<"disk", q>> \in eAgreed => <<"disk", q>> \in eAgreed'
        /\ eRaced \subseteq eRaced'
    OBVIOUS
  <2> QED  BY <1>1, <1>2, <2>1, WorkStays
<1>6. EditsStep
  BY <1>1, EditsHold DEF EditorInv, MarkedDirty
<1> QED  BY <1>2, <1>3, <1>4, <1>5, <1>6 DEF EditorInv

\* A resident path moved to the front.
LEMMA Fronted ==
  ASSUME EditorInv, NEW p \in Path, NEW S, p \in S
  PROVE  /\ <<p>> \o Editor!Without(S) \in Seq(Path) /\ IsInjective(<<p>> \o Editor!Without(S))
         /\ Range(<<p>> \o Editor!Without(S)) = (Pool \ S) \cup {p}
<1> DEFINE s == Editor!Without(S)
<1>1. s \in Seq(Path) /\ Range(s) = Pool \ S /\ IsInjective(s)
  BY EditorFacts, PoolWithout
<1> HIDE DEF s
<1>2. /\ <<p>> \o s \in Seq(Path) /\ IsInjective(<<p>> \o s)
      /\ Range(<<p>> \o s) = Range(s) \cup {p}
  BY <1>1, InFront
<1> QED  BY <1>1, <1>2 DEF s

LEMMA AdmitKeeps ==
  ASSUME EditorInv, NEW p \in Path, Editor!Admit(p)
  PROVE  EditorInv' /\ EditsStep
<1>1. /\ eOps["open"].stage = "preview" /\ eOps["open"].path = p /\ eOps["open"] \in Work
      /\ UNCHANGED <<eDisk, eMeta, eText, eUnseen, eClock, eDialog, eAgreed, eRaced>>
  BY EditorFacts DEF Editor!Admit, Editor!dialogVars, Editor!historyVars, Editor!poolVars
<1>2. Editor!Idle \in Work /\ Editor!Idle.content <= eClock
  BY EditorFacts DEF Editor!Idle
<1>3. PoolAgrees /\ Pool \subseteq Path
  BY EditorFacts
<1>4. CASE eDisk[p] = Editor!Gone
  <2>1. eOps' = [eOps EXCEPT !["open"] = Editor!Idle] /\ UNCHANGED <<eOrder, eDirty, eChanged, eActive>>
    BY <1>4 DEF Editor!Admit, Editor!SetOp, Editor!poolVars, Editor!viewVars
  <2>2. PoolAgrees' /\ Pool' = Pool
    BY <1>3, <2>1 DEF PoolAgrees, Pool
  <2> QED  BY <1>1, <1>2, <2>1, <2>2, PoolShrinks
<1>5. CASE eDisk[p] # Editor!Gone /\ p \in Pool
  <2>1. /\ eOps' = [eOps EXCEPT !["open"] = Editor!Idle] /\ eDirty' = eDirty /\ eChanged' = eChanged \ {p}
        /\ eOrder' = <<p>> \o Editor!Without({p}) /\ eActive' = p
    BY <1>5, EditorNames DEF Editor!Admit, Editor!SetOp
  <2>2. eOrder' \in Seq(Path) /\ IsInjective(eOrder') /\ Pool' = (Pool \ {p}) \cup {p}
    BY <2>1, Fronted DEF Pool
  <2>3. PoolAgrees' /\ Pool' = Pool
    BY <1>3, <1>5, <2>1, <2>2 DEF PoolAgrees
  <2> QED  BY <1>1, <1>2, <2>1, <2>3, PoolShrinks
<1>6. CASE eDisk[p] # Editor!Gone /\ p \notin Pool /\ Len(eOrder) >= PoolCap /\ Editor!Victims = {}
  <2>1. /\ eOps' = [eOps EXCEPT !["open"] = Editor!Idle]
        /\ UNCHANGED <<eOrder, eDirty, eChanged>> /\ eActive' = NoPath
    BY <1>6, EditorNames DEF Editor!Admit, Editor!SetOp
  <2>2. PoolAgrees' /\ Pool' = Pool
    BY <1>3, <2>1 DEF PoolAgrees, Pool
  <2> QED  BY <1>1, <1>2, <2>1, <2>2, PoolShrinks
<1>7. CASE eDisk[p] # Editor!Gone /\ p \notin Pool /\ ~(Len(eOrder) >= PoolCap /\ Editor!Victims = {})
  <2> DEFINE op == [eOps["open"] EXCEPT !.stage = "read"]
  <2>1. /\ eOps' = [eOps EXCEPT !["open"] = op] /\ Editor!CloseBuffers(Editor!Evicted)
    BY <1>7, EditorNames DEF Editor!Admit, Editor!SetOp
  <2>2. /\ op \in Work /\ op.stage = "read" /\ op.path = p /\ op.content = eOps["open"].content
    BY <1>1 DEF Work
  <2> HIDE DEF op
  <2>3. op.content <= eClock
    BY <2>2, EditorFacts DEF EditorTypes
  <2>4. PoolAgrees' /\ Pool' = Pool \ Editor!Evicted /\ eDirty' = eDirty \ Editor!Evicted
    BY <2>1, Closed
  <2>5. eDirty' = eDirty /\ \A q \in Pool \ Pool' : q \notin eDirty
    BY <1>7, <2>4, EvictedClean
  <2> QED  BY <1>1, <2>1, <2>2, <2>3, <2>4, <2>5, PoolShrinks
<1> QED  BY <1>4, <1>5, <1>6, <1>7

LEMMA AdmittedKeeps ==
  ASSUME EditorInv, NEW p \in Path, Editor!Admitted(p)
  PROVE  EditorInv' /\ EditsStep
<1>1. /\ eOps' = [eOps EXCEPT !["open"] = Editor!Idle] /\ eOps["open"].stage = "read"
      /\ UNCHANGED <<eDisk, eClock, eDialog, eAgreed>>
  BY DEF Editor!Admitted, Editor!SetOp, Editor!dialogVars
<1>2. Editor!Idle \in Work /\ Editor!Idle.content <= eClock
  BY EditorFacts DEF Editor!Idle
<1>3. PoolAgrees /\ Pool \subseteq Path
  BY EditorFacts
<1>4. CASE eDisk[p] = Editor!Gone
  <2>1. UNCHANGED <<eOrder, eMeta, eText, eDirty, eChanged, eRaced, eUnseen>> /\ eActive' = NoPath
    BY <1>4 DEF Editor!Admitted, Editor!poolVars
  <2>2. PoolAgrees' /\ Pool' = Pool
    BY <1>3, <2>1 DEF PoolAgrees, Pool
  <2> QED  BY <1>1, <1>2, <2>1, <2>2, PoolShrinks
<1>5. CASE eDisk[p] # Editor!Gone
  <2>1. /\ eMeta' = [eMeta EXCEPT ![p] = [snapshot |-> eDisk[p].content, stamp |-> eDisk[p].stamp,
                                          initial |-> eDisk[p].content]]
        /\ eOrder' = <<p>> \o Editor!Without({p}) /\ eDirty' = eDirty /\ eChanged' = eChanged \ {p} /\ eActive' = p
        /\ eText' = IF p \in Pool THEN eText ELSE [eText EXCEPT ![p] = eDisk[p].content]
        /\ eUnseen' = eUnseen \ {p}
        /\ eRaced' = IF eText'[p] # eDisk[p].content \/ \E s \in Editor!Slot \ {"open"} : Editor!Uses(s, p)
                     THEN eRaced \cup {p} ELSE eRaced
    <3> DEFINE r == Editor!Resident
    <3>1. /\ eMeta' = [eMeta EXCEPT ![p] = [snapshot |-> eDisk[p].content, stamp |-> eDisk[p].stamp,
                                            initial |-> eDisk[p].content]]
          /\ eOrder' = <<p>> \o Editor!Without({p}) /\ eDirty' = eDirty /\ eChanged' = eChanged \ {p} /\ eActive' = p
          /\ eText' = IF p \in r THEN eText ELSE [eText EXCEPT ![p] = eDisk[p].content]
          /\ eUnseen' = eUnseen \ {p}
      BY <1>5, Zenon DEF Editor!Admitted
    <3>2. eRaced' = IF eText'[p] # eDisk[p].content \/ \E s \in Editor!Slot \ {"open"} : Editor!Uses(s, p)
                    THEN eRaced \cup {p} ELSE eRaced
      BY <1>5, Zenon DEF Editor!Admitted
    <3>3. r = Pool
      BY EditorNames
    <3> QED  BY <3>1, <3>2, <3>3
  <2>2. eOrder' \in Seq(Path) /\ IsInjective(eOrder') /\ Pool' = Pool \cup {p}
    <3>1. eOrder' \in Seq(Path) /\ IsInjective(eOrder') /\ Range(eOrder') = (Pool \ {p}) \cup {p}
      BY <2>1, Fronted
    <3> QED  BY <3>1 DEF Pool
  <2>3. PoolAgrees'
    BY <1>3, <2>1, <2>2 DEF PoolAgrees
  <2>4. /\ eMeta \in [Path -> [snapshot : Nat, stamp : Nat, initial : Nat]] /\ eText \in [Path -> Nat]
        /\ eDisk \in [Path -> [content : Nat, stamp : Nat]] /\ eDialog \in Question /\ eClock \in Nat
        /\ eDisk[p].content <= eClock /\ eDisk[p].stamp <= eClock
    BY EditorFacts DEF EditorTypes
  <2>5. /\ \A q \in Path \ {p} : eText'[q] = eText[q] /\ eMeta'[q] = eMeta[q]
        /\ eMeta'[p].snapshot = eDisk[p].content /\ eMeta'[p].stamp = eDisk[p].stamp
        /\ eMeta'[p].initial = eDisk[p].content
        /\ eText'[p] \in {eText[p], eDisk[p].content}
        /\ p \in Pool => eText'[p] = eText[p]
        /\ eText' \in [Path -> Nat] /\ eMeta' \in [Path -> [snapshot : Nat, stamp : Nat, initial : Nat]]
    BY <2>1, <2>4
  <2>6. /\ eRaced \subseteq eRaced' /\ \A q \in Path : Given(q) => Given(q)'
        /\ \A s \in Works : Editor!Uses(s, p) => p \in eRaced'
    BY <1>1, <2>1, EditorNames DEF Given, Works
  <2>7. /\ eOps' \in [Editor!Slot -> Work] /\ \A s \in Editor!Slot : eOps'[s].content <= eClock
        /\ \A s \in Works : eOps'[s] = eOps[s]
        /\ OthersFit' /\ HandedClean'
    BY <1>1, <1>2, <2>1, <2>6, OpenSet
  <2>8. EditorTypes' /\ DialogFits'
    <3>1. \A q \in Path :
            /\ eDisk'[q] = eDisk[q]
            /\ eMeta'[q] = eMeta[q] \/ (/\ eMeta'[q].snapshot <= eClock' /\ eMeta'[q].stamp <= eClock'
                                       /\ eMeta'[q].initial <= eClock')
            /\ eText'[q] = eText[q] \/ eText'[q] <= eClock'
      <4>1. eClock' = eClock /\ eDisk' = eDisk
        BY <1>1
      <4>2. /\ eMeta'[p].snapshot <= eClock /\ eMeta'[p].stamp <= eClock /\ eMeta'[p].initial <= eClock
            /\ eText'[p] = eText[p] \/ eText'[p] <= eClock
        BY <2>4, <2>5
      <4> QED  BY <2>5, <4>1, <4>2
    <3>2. EditorTypes'
      <4>1. eClock' \in Nat /\ eClock <= eClock' /\ \A s \in Editor!Slot : eOps'[s].content <= eClock'
        BY <1>1, <2>4, <2>7
      <4> QED  BY <1>1, <2>4, <2>5, <2>7, <3>1, <4>1, TypesGrow
    <3> QED  BY <1>1, <3>2, EditorFacts DEF DialogFits
  <2>9. MarkedDirty' /\ UnseenDiffers'
    <3>1. eText'[p] # eMeta'[p].snapshot => Given(p)'
      BY <2>1, <2>5 DEF Given
    <3>2. \A q \in Pool \ {p} : eText'[q] # eMeta'[q].snapshot => q \in eDirty' \/ Given(q)'
      BY <1>3, <2>1, <2>5, <2>6 DEF EditorInv, MarkedDirty
    <3>3. \A q \in Path \cap eUnseen' : q \in eUnseen /\ q # p
      BY <2>1
    <3> QED  BY <1>1, <2>2, <2>5, <3>1, <3>2, <3>3 DEF EditorInv, MarkedDirty, UnseenDiffers, Editor!Gone
  <2>10. (\A s \in Works : WorkSafe(s)') /\ SavedTwice'
    <3>1. /\ \A q \in Path : q \in eUnseen' => q \in eUnseen
          /\ \A q \in Path : <<"disk", q>> \in eAgreed => <<"disk", q>> \in eAgreed'
      BY <1>1, <2>1
    <3>2. \A q \in Path, s \in Works : Editor!Uses(s, q) /\ q = p => Given(q)'
      BY <2>6 DEF Given
    <3> QED  BY <1>1, <2>2, <2>5, <2>6, <2>7, <3>1, <3>2, WorkStays
  <2>11. EditsStep
    <3>1. \A q \in Pool : q \in Pool' /\ eText'[q] = eText[q]
      BY <1>3, <2>2, <2>5
    <3> QED  BY <3>1, EditsHold
  <2> QED  BY <2>3, <2>7, <2>8, <2>9, <2>10, <2>11 DEF EditorInv
<1> QED  BY <1>4, <1>5

\* A step of one piece of work: the pieces that hold of the other, and of the rest.
LEMMA WriteLandsKeeps ==
  ASSUME EditorInv, NEW s \in Works, Editor!Write(s)
  PROVE  EditorInv' /\ EditsStep
<1>1. /\ eOps[s] \in Work /\ eOps[s].stage = "write" /\ WorkFits(s) /\ SavesText(s) /\ Consented(s)
  BY EditorFacts DEF Editor!Write, EditorInv, WorkSafe, Works
<1>2. eOps[s].kind \in SaveKinds /\ eOps[s].target \in Path /\ eOps[s].path \in Path
  BY <1>1 DEF WorkFits, Work, SaveKinds, Editor!Idle
<1> PICK t \in Path : t = eOps[s].target
  BY <1>2
<1> DEFINE op == [eOps[s] EXCEPT !.stage = "stamp"]
<1>3. /\ eOps' = [eOps EXCEPT ![s] = op]
      /\ eClock' = eClock + 1 /\ eUnseen' = eUnseen \ {t}
      /\ eDisk' = [eDisk EXCEPT ![t] = [content |-> eOps[s].content, stamp |-> eClock + 1]]
      /\ UNCHANGED <<eOrder, eMeta, eText, eDirty, eChanged, eActive, eDialog, eAgreed, eRaced>>
  BY DEF Editor!Write, Editor!SetOp, Editor!poolVars, Editor!viewVars, Editor!dialogVars
<1>4. /\ op \in Work /\ op.kind = eOps[s].kind /\ op.stage = "stamp" /\ op.path = eOps[s].path
      /\ op.target = t /\ op.content = eOps[s].content
  BY <1>1 DEF Work
<1> HIDE DEF op
<1>5. op.content <= eClock /\ op.content \in Nat
  BY <1>4, EditorFacts DEF EditorTypes, Works, Work
<1>6. Pool' = Pool /\ (\A q : Given(q)' <=> Given(q))
  BY <1>3 DEF Pool, Given
<1>7. /\ eOps' \in [Editor!Slot -> Work] /\ eOps'[s] = op /\ \A o \in Works \ {s} : eOps'[o] = eOps[o]
      /\ \A o \in Editor!Slot : eOps'[o].content <= eClock
      /\ OthersFit' /\ HandedClean'
  BY <1>3, <1>4, <1>5, <1>6, OthersStay
<1>8. /\ eDisk' \in [Path -> [content : Nat, stamp : Nat]] /\ \A q \in Path \ {t} : eDisk'[q] = eDisk[q]
      /\ eDisk'[t].content = op.content /\ eDisk'[t].stamp = eClock + 1
  BY <1>3, <1>4, <1>5, EditorFacts DEF EditorTypes
<1>9. EditorTypes'
  <2>1. eClock \in Nat /\ eClock' \in Nat /\ eClock <= eClock'
    BY <1>3, EditorFacts
  <2>2. \A o \in Editor!Slot : eOps'[o].content <= eClock'
    <3>1. \A o \in Editor!Slot : eOps'[o].content \in Nat
      BY <1>7 DEF Work
    <3> QED  BY <1>3, <1>7, <2>1, <3>1
  <2>3. eDisk'[t].content <= eClock' /\ eDisk'[t].stamp <= eClock'
    BY <1>3, <1>5, <1>8, <2>1
  <2> QED  BY <1>3, <1>7, <1>8, <2>1, <2>2, <2>3, EditorFacts, TypesGrow DEF EditorTypes
<1>10. PoolAgrees' /\ DialogFits' /\ MarkedDirty'
  BY <1>3, <1>6 DEF EditorInv, PoolAgrees, DialogFits, MarkedDirty
<1>11. UnseenDiffers'
  <2>1. \A q \in Path \cap eUnseen' : q \in eUnseen /\ eDisk'[q] = eDisk[q]
    BY <1>3, <1>8
  <2> QED  BY <1>3, <2>1 DEF EditorInv, UnseenDiffers, Editor!Gone
<1>12. WorkSafe(s)'
  <2>1. WorkFits(s)' /\ Consented(s)'
    BY <1>1, <1>2, <1>4, <1>6, <1>7 DEF WorkFits, Consented, SaveKinds
  <2>2. SavesText(s)'
    BY <1>1, <1>3, <1>4, <1>6, <1>7 DEF SavesText
  <2>3. UnseenSpared(s)'
    BY <1>3, <1>4, <1>7 DEF UnseenSpared
  <2> QED  BY <2>1, <2>2, <2>3 DEF WorkSafe
<1>13. \A o \in Works : WorkSafe(o)'
  <2>1. \A q \in Path : q \in eUnseen' => q \in eUnseen /\ eDisk'[q] = eDisk[q]
    BY <1>3, <1>8
  <2>2. eRaced \subseteq eRaced' /\ \A q \in Path : <<"disk", q>> \in eAgreed => <<"disk", q>> \in eAgreed'
    BY <1>3
  <2>3. ASSUME NEW o \in Works \ {s} PROVE WorkSafe(o)'
    BY <1>3, <1>6, <1>7, <2>1, <2>2, WorkKept
  <2> QED  BY <1>12, <2>3
<1>14. SavedTwice'
  BY <1>1, <1>3, <1>4, <1>6, <1>7 DEF EditorInv, SavedTwice, Works
<1>15. EditsStep
  BY <1>3, <1>6, EditsHold
<1> QED  BY <1>7, <1>9, <1>10, <1>11, <1>13, <1>14, <1>15 DEF EditorInv

\* The target of an agreed overwrite is removed.
LEMMA RemoveTargetKeeps ==
  ASSUME EditorInv, NEW s \in Works, Editor!RemoveTarget(s)
  PROVE  EditorInv' /\ EditsStep
<1>1. /\ eOps[s] \in Work /\ eOps[s].stage = "remove" /\ WorkFits(s) /\ Consented(s)
  BY EditorFacts DEF Editor!RemoveTarget, EditorInv, WorkSafe, Works
<1>2. eOps[s].kind \in {"move", "delete"} /\ eOps[s].target \in Path
  BY <1>1 DEF WorkFits, Work, SaveKinds, Editor!Idle
<1> PICK t \in Path : t = eOps[s].target
  BY <1>2
<1> DEFINE op == [eOps[s] EXCEPT !.stage = "rename"]
<1>3. /\ eOps' = [eOps EXCEPT ![s] = op] /\ eUnseen' = eUnseen \ {t}
      /\ eDisk' = [eDisk EXCEPT ![t] = Editor!Gone]
      /\ UNCHANGED <<eOrder, eMeta, eText, eDirty, eActive, eDialog, eAgreed, eRaced, eClock>>
  BY DEF Editor!RemoveTarget, Editor!SetOp, Editor!poolVars, Editor!viewVars, Editor!dialogVars
<1>4. /\ op \in Work /\ op.kind = eOps[s].kind /\ op.stage = "rename" /\ op.path = eOps[s].path
      /\ op.target = t /\ op.content = eOps[s].content
  BY <1>1 DEF Work
<1> HIDE DEF op
<1>5. op.content <= eClock
  BY <1>4, EditorFacts DEF EditorTypes, Works
<1>6. Pool' = Pool /\ (\A q : Given(q)' <=> Given(q))
  BY <1>3 DEF Pool, Given
<1>7. /\ eOps' \in [Editor!Slot -> Work] /\ eOps'[s] = op /\ \A o \in Works \ {s} : eOps'[o] = eOps[o]
      /\ \A o \in Editor!Slot : eOps'[o].content <= eClock
      /\ OthersFit' /\ HandedClean'
  BY <1>3, <1>4, <1>5, <1>6, OthersStay
<1>8. /\ eDisk' \in [Path -> [content : Nat, stamp : Nat]]
      /\ \A q \in Path : eDisk'[q].content <= eClock /\ eDisk'[q].stamp <= eClock
      /\ \A q \in Path \ {t} : eDisk'[q] = eDisk[q]
  <2>1. /\ eDisk \in [Path -> [content : Nat, stamp : Nat]]
        /\ \A q \in Path : eDisk[q].content <= eClock /\ eDisk[q].stamp <= eClock
        /\ eClock \in Nat
    BY EditorFacts DEF EditorTypes
  <2>2. Editor!Gone.content = 0 /\ Editor!Gone.stamp = 0 /\ Editor!Gone \in [content : Nat, stamp : Nat]
    BY DEF Editor!Gone
  <2> QED  BY <1>3, <2>1, <2>2
<1>9. EditorTypes'
  BY <1>3, <1>7, <1>8, EditorFacts DEF EditorTypes
<1>10. PoolAgrees' /\ DialogFits' /\ MarkedDirty'
  BY <1>3, <1>6 DEF EditorInv, PoolAgrees, DialogFits, MarkedDirty
<1>11. \A q \in Path \cap eUnseen' : q \in eUnseen /\ eDisk'[q] = eDisk[q]
  BY <1>3, <1>8
<1>12. UnseenDiffers'
  BY <1>3, <1>11 DEF EditorInv, UnseenDiffers, Editor!Gone
<1>13. \A o \in Works : WorkSafe(o)'
  <2>1. WorkFits(s)' /\ Consented(s)'
    BY <1>1, <1>2, <1>4, <1>6, <1>7 DEF WorkFits, Consented, SaveKinds
  <2>2. SavesText(s)' /\ UnseenSpared(s)'
    BY <1>3, <1>4, <1>7 DEF SavesText, UnseenSpared
  <2>3. eRaced \subseteq eRaced' /\ \A q \in Path : <<"disk", q>> \in eAgreed => <<"disk", q>> \in eAgreed'
    BY <1>3
  <2>4. ASSUME NEW o \in Works \ {s} PROVE WorkSafe(o)'
    BY <1>3, <1>6, <1>7, <1>11, <2>3, WorkKept
  <2> QED  BY <2>1, <2>2, <2>4 DEF WorkSafe
<1>14. SavedTwice'
  BY <1>2, <1>4, <1>7 DEF SavedTwice, Works, SaveKinds
<1>15. EditsStep
  BY <1>3, <1>6, EditsHold
<1> QED  BY <1>7, <1>9, <1>10, <1>12, <1>13, <1>14, <1>15 DEF EditorInv

\* A move or a removal reaches the disk.
LEMMA RenameKeeps ==
  ASSUME EditorInv, NEW s \in Works, Editor!Rename(s)
  PROVE  EditorInv' /\ EditsStep
<1>1. /\ eOps[s] \in Work /\ eOps[s].stage = "rename" /\ WorkFits(s) /\ Consented(s)
  BY EditorFacts DEF Editor!Rename, EditorInv, WorkSafe, Works
<1>2. eOps[s].kind \in {"move", "delete"} /\ eOps[s].target \in Path /\ eOps[s].path \in Path
  BY <1>1 DEF WorkFits, Work, SaveKinds, Editor!Idle
<1> PICK t \in Path : t = eOps[s].target
  BY <1>2
<1> PICK p \in Path : p = eOps[s].path
  BY <1>2
<1>3. UNCHANGED <<eOrder, eMeta, eText, eDirty, eChanged, eActive, eDialog, eAgreed, eRaced, eClock>>
  BY DEF Editor!Rename, Editor!poolVars, Editor!viewVars, Editor!dialogVars
<1>4. Pool' = Pool /\ (\A q : Given(q)' <=> Given(q))
  BY <1>3 DEF Pool, Given
<1>5. CASE eDisk[p] = Editor!Gone
  <2>1. eOps' = [eOps EXCEPT ![s] = Editor!Idle] /\ eDisk' = eDisk /\ eUnseen' = eUnseen
    BY <1>5 DEF Editor!Rename, Editor!SetOp
  <2>2. eOps'[s] = Editor!Idle /\ Editor!Idle \in Work /\ Editor!Idle.content <= eClock
    BY <2>1, EditorFacts DEF Editor!Idle, Works
  <2>3. WorkSafe(s)' /\ SavedTwice'
    BY <2>2, IdleSafe, IdleTwice DEF Works
  <2> QED  BY <1>3, <2>1, <2>2, <2>3, DialogKept, QuietWork
<1>6. CASE eDisk[p] # Editor!Gone
  <2> DEFINE op == [eOps[s] EXCEPT !.stage = "apply"]
  <2>1. /\ eOps' = [eOps EXCEPT ![s] = op] /\ eUnseen' = eUnseen \ {p, t}
        /\ eDisk' = [q \in Path |-> IF q = p THEN Editor!Gone ELSE IF q = t THEN eDisk[p] ELSE eDisk[q]]
    BY <1>6 DEF Editor!Rename, Editor!SetOp
  <2>2. /\ op \in Work /\ op.kind = eOps[s].kind /\ op.stage = "apply" /\ op.path = p
        /\ op.target = t /\ op.content = eOps[s].content
    BY <1>1 DEF Work
  <2> HIDE DEF op
  <2>3. op.content <= eClock /\ op.content \in Nat
    BY <2>2, EditorFacts DEF EditorTypes, Works, Work
  <2>4. /\ eOps' \in [Editor!Slot -> Work] /\ eOps'[s] = op /\ \A o \in Works \ {s} : eOps'[o] = eOps[o]
        /\ \A o \in Editor!Slot : eOps'[o].content <= eClock
        /\ OthersFit' /\ HandedClean'
    BY <1>3, <1>4, <2>1, <2>2, <2>3, OthersStay
  <2>5. EditorTypes'
    <3>1. eDisk \in [Path -> [content : Nat, stamp : Nat]]
          /\ \A q \in Path : eDisk[q].content <= eClock /\ eDisk[q].stamp <= eClock
      BY EditorFacts DEF EditorTypes
    <3>2. Editor!Gone.content = 0 /\ Editor!Gone.stamp = 0 /\ Editor!Gone \in [content : Nat, stamp : Nat]
      BY DEF Editor!Gone
    <3>3. eClock \in Nat
      BY EditorFacts
    <3>4. eDisk' \in [Path -> [content : Nat, stamp : Nat]]
          /\ \A q \in Path : eDisk'[q].content <= eClock /\ eDisk'[q].stamp <= eClock
      BY <2>1, <3>1, <3>2, <3>3
    <3> QED  BY <1>3, <2>4, <3>4, EditorFacts DEF EditorTypes
  <2>6. PoolAgrees' /\ DialogFits' /\ MarkedDirty'
    BY <1>3, <1>4 DEF EditorInv, PoolAgrees, DialogFits, MarkedDirty
  <2>7. \A q \in Path \cap eUnseen' : q \in eUnseen /\ eDisk'[q] = eDisk[q]
    BY <2>1
  <2>8. UnseenDiffers'
    BY <1>3, <2>7 DEF EditorInv, UnseenDiffers, Editor!Gone
  <2>9. WorkSafe(s)'
    <3>1. WorkFits(s)' /\ Consented(s)'
      BY <1>1, <1>2, <1>4, <2>2, <2>4 DEF WorkFits, Consented, SaveKinds
    <3>2. SavesText(s)' /\ UnseenSpared(s)'
      BY <2>1, <2>2, <2>4 DEF SavesText, UnseenSpared
    <3> QED  BY <3>1, <3>2 DEF WorkSafe
  <2>10. \A o \in Works : WorkSafe(o)'
    <3>1. eRaced \subseteq eRaced' /\ \A q \in Path : <<"disk", q>> \in eAgreed => <<"disk", q>> \in eAgreed'
      BY <1>3
    <3>2. ASSUME NEW o \in Works \ {s} PROVE WorkSafe(o)'
      BY <1>3, <1>4, <2>4, <2>7, <3>1, WorkKept
    <3> QED  BY <2>9, <3>2
  <2>11. SavedTwice'
    BY <1>2, <2>2, <2>4 DEF SavedTwice, Works, SaveKinds
  <2>12. EditsStep
    BY <1>3, <1>4, EditsHold
  <2> QED  BY <2>4, <2>5, <2>6, <2>8, <2>10, <2>11, <2>12 DEF EditorInv
<1> QED  BY <1>5, <1>6

\* A buffer takes its new name: order, marks and the active path follow.
LEMMA Rekeys ==
  ASSUME EditorInv, NEW p \in Pool, NEW t \in Path, p # t,
         eOrder' = [i \in DOMAIN Editor!Without({t}) |->
                      IF Editor!Without({t})[i] = p THEN t ELSE Editor!Without({t})[i]],
         eDirty' = Editor!Rekeyed(eDirty, p, t),
         eActive' = (IF eActive = p THEN t ELSE IF eActive = t THEN NoPath ELSE eActive)
  PROVE  /\ PoolAgrees' /\ Pool' = (Pool \ {p, t}) \cup {t}
         /\ \A q \in Pool \ {p, t} : q \in eDirty <=> q \in eDirty'
         /\ t \in eDirty' <=> p \in eDirty
         /\ eDirty' \subseteq eDirty \cup {t}
<1> DEFINE s == Editor!Without({t})
<1>1. s \in Seq(Path) /\ Range(s) = Pool \ {t} /\ IsInjective(s) /\ Pool \subseteq Path
  BY EditorFacts, PoolWithout
<1>2. eOrder' = [i \in DOMAIN s |-> IF s[i] = p THEN t ELSE s[i]]
  OBVIOUS
<1> HIDE DEF s
<1>3. eOrder' \in Seq(Path) /\ Range(eOrder') = (Range(s) \ {p}) \cup {t} /\ IsInjective(eOrder')
  <2>1. s \in Seq(Path) /\ IsInjective(s) /\ p \in Path /\ p \in Range(s) /\ t \notin Range(s)
    BY <1>1
  <2> QED  BY <1>2, <2>1, Renamed
<1>4. Pool' = (Pool \ {p, t}) \cup {t}
  <2>1. (Range(s) \ {p}) \cup {t} = (Pool \ {p, t}) \cup {t}
    BY <1>1
  <2> QED  BY <1>3, <2>1 DEF Pool
<1>5. eDirty \subseteq Pool /\ Editor!Resident = Pool /\ eActive \in Pool \cup {NoPath}
  BY EditorFacts DEF PoolAgrees
<1>6. eDirty' \subseteq Pool' /\ eActive' \in Pool' \cup {NoPath}
  BY <1>4, <1>5 DEF Editor!Rekeyed
<1>7. PoolAgrees'
  BY <1>3, <1>6 DEF PoolAgrees
<1> QED  BY <1>4, <1>5, <1>7 DEF Editor!Rekeyed

\* The move or the removal reaches the buffers.
LEMMA ApplyKeeps ==
  ASSUME EditorInv, NEW s \in Works, Editor!Apply(s)
  PROVE  EditorInv' /\ EditsStep
<1>1. /\ eOps[s] \in Work /\ eOps[s].stage = "apply" /\ WorkFits(s) /\ Consented(s) /\ UnseenSpared(s)
  BY EditorFacts DEF Editor!Apply, EditorInv, WorkSafe, Works
<1>2. eOps[s].kind \in {"move", "delete"} /\ eOps[s].target \in Path /\ eOps[s].path \in Path
  BY <1>1 DEF WorkFits, Work, SaveKinds, Editor!Idle
<1> PICK t \in Path : t = eOps[s].target
  BY <1>2
<1> PICK p \in Path : p = eOps[s].path
  BY <1>2
<1>3. /\ eOps' = [eOps EXCEPT ![s] = Editor!Idle] /\ UNCHANGED <<eDisk, eDialog, eUnseen, eClock>>
      /\ eAgreed' = IF <<"buffer", p>> \in eAgreed THEN eAgreed \cup {<<"buffer", t>>} ELSE eAgreed
      /\ eRaced' = IF p \in eRaced \/ \E o \in Editor!Slot \ {s} : Editor!Uses(o, t)
                   THEN eRaced \cup {t} ELSE eRaced
  BY DEF Editor!Apply, Editor!SetOp, Editor!dialogVars
<1>4. /\ eRaced \subseteq eRaced' /\ eAgreed \subseteq eAgreed' /\ \A q \in Path : Given(q) => Given(q)'
      /\ Given(p) => Given(t)'
      /\ \A o \in Editor!Slot \ {s} : Editor!Uses(o, t) => Given(t)'
  BY <1>3 DEF Given
<1>5. eOps'[s] = Editor!Idle /\ Editor!Idle \in Work /\ Editor!Idle.content <= eClock
  BY <1>3, EditorFacts DEF Editor!Idle, Works
<1>6. WorkSafe(s)' /\ SavedTwice'
  BY <1>5, IdleSafe, IdleTwice DEF Works
<1>7. s \in Editor!Slot /\ \A o \in Editor!Slot \ {s} : eOps'[o] = eOps[o]
  BY <1>3, EditorFacts DEF Works
<1>8. CASE eOps[s].kind = "delete"
  <2>1. Editor!CloseBuffers({p}) /\ UNCHANGED <<eMeta, eText>>
    BY <1>8 DEF Editor!Apply
  <2>2. PoolAgrees' /\ Pool' = Pool \ {p} /\ eDirty' = eDirty \ {p} /\ Given(p)
    BY <1>1, <1>8, <2>1, Closed DEF Consented
  <2>3. /\ eOps' \in [Editor!Slot -> Work] /\ \A o \in Works \ {s} : eOps'[o] = eOps[o]
        /\ \A o \in Editor!Slot : eOps'[o].content <= eClock
        /\ OthersFit' /\ HandedClean'
    <3>1. eDirty' \subseteq eDirty
      BY <2>2
    <3> QED  BY <1>3, <1>4, <1>5, <3>1, OthersStay
  <2>4. EditorTypes' /\ DialogFits'
    BY <1>3, <2>1, <2>3, EditorFacts DEF EditorTypes, DialogFits
  <2>5. MarkedDirty' /\ UnseenDiffers'
    BY <1>3, <1>4, <2>1, <2>2, EditorFacts DEF EditorInv, MarkedDirty, UnseenDiffers, Editor!Gone
  <2>6. \A o \in Works : WorkSafe(o)'
    <3>1. /\ \A q \in Path : q \in Pool' => q \in Pool
          /\ \A q \in Path : <<"disk", q>> \in eAgreed => <<"disk", q>> \in eAgreed'
      BY <1>4, <2>2
    <3>2. ASSUME NEW o \in Works \ {s} PROVE WorkSafe(o)'
      BY <1>3, <1>4, <2>1, <2>3, <3>1, WorkKept
    <3> QED  BY <1>6, <3>2
  <2>7. EditsStep
    BY <2>1, <2>2, EditsHold
  <2> QED  BY <1>6, <2>2, <2>3, <2>4, <2>5, <2>6, <2>7 DEF EditorInv
<1>9. CASE eOps[s].kind = "move" /\ p \notin Pool
  <2>1. UNCHANGED <<eOrder, eMeta, eText, eDirty, eChanged, eActive>>
    BY <1>2, <1>9, EditorNames DEF Editor!Apply, Editor!poolVars
  <2> QED  BY <1>3, <1>4, <1>5, <1>6, <2>1, DialogKept, QuietWork
<1>10. CASE eOps[s].kind = "move" /\ p \in Pool
  <2>1. /\ eOrder' = [i \in DOMAIN Editor!Without({t}) |->
                        IF Editor!Without({t})[i] = p THEN t ELSE Editor!Without({t})[i]]
        /\ eDirty' = Editor!Rekeyed(eDirty, p, t)
        /\ eActive' = (IF eActive = p THEN t ELSE IF eActive = t THEN NoPath ELSE eActive)
        /\ eMeta' = [eMeta EXCEPT ![t] = [eMeta[p] EXCEPT !.initial = eText[p]]]
        /\ eText' = [eText EXCEPT ![t] = eText[p]]
    <3> DEFINE r == Editor!Resident
    <3>1. eOps[s].kind # "delete" /\ p \in r
      BY <1>10, EditorNames
    <3> QED  BY <3>1, Zenon DEF Editor!Apply
  <2>2. p # t /\ t \notin eUnseen /\ (t \in Pool => Given(t))
    BY <1>1, <1>10 DEF WorkFits, UnseenSpared, Consented
  <2>3. /\ PoolAgrees' /\ Pool' = (Pool \ {p, t}) \cup {t}
        /\ \A q \in Pool \ {p, t} : q \in eDirty <=> q \in eDirty'
        /\ t \in eDirty' <=> p \in eDirty
        /\ eDirty' \subseteq eDirty \cup {t}
    BY <1>10, <2>1, <2>2, Rekeys
  <2>4. /\ eMeta \in [Path -> [snapshot : Nat, stamp : Nat, initial : Nat]] /\ eText \in [Path -> Nat]
        /\ eClock \in Nat /\ eText[p] <= eClock /\ eMeta[p].snapshot <= eClock /\ eMeta[p].stamp <= eClock
        /\ Pool \subseteq Path
    BY EditorFacts DEF EditorTypes
  <2>5. /\ \A q \in Path \ {t} : eText'[q] = eText[q] /\ eMeta'[q] = eMeta[q]
        /\ eMeta'[t].snapshot = eMeta[p].snapshot /\ eMeta'[t].stamp = eMeta[p].stamp /\ eMeta'[t].initial = eText[p]
        /\ eText'[t] = eText[p]
        /\ eText' \in [Path -> Nat] /\ eMeta' \in [Path -> [snapshot : Nat, stamp : Nat, initial : Nat]]
    BY <2>1, <2>4
  <2>6. /\ eOps' \in [Editor!Slot -> Work]
        /\ \A o \in Editor!Slot : eOps'[o].content <= eClock
    BY <1>3, <1>5, <1>7, SlotSet
  <2>7. EditorTypes' /\ DialogFits'
    <3>1. \A q \in Path :
            /\ eDisk'[q] = eDisk[q]
            /\ eMeta'[q] = eMeta[q] \/ (/\ eMeta'[q].snapshot <= eClock' /\ eMeta'[q].stamp <= eClock'
                                       /\ eMeta'[q].initial <= eClock')
            /\ eText'[q] = eText[q] \/ eText'[q] <= eClock'
      <4>1. eClock' = eClock /\ eDisk' = eDisk
        BY <1>3
      <4> QED  BY <2>4, <2>5, <4>1
    <3>2. eClock' \in Nat /\ eClock <= eClock' /\ \A o \in Editor!Slot : eOps'[o].content <= eClock'
      BY <1>3, <2>4, <2>6
    <3>3. eDisk' \in [Path -> [content : Nat, stamp : Nat]] /\ eDialog' \in Question
      BY <1>3, EditorFacts DEF EditorTypes
    <3>4. EditorTypes'
      BY <2>5, <2>6, <3>1, <3>2, <3>3, TypesGrow
    <3> QED  BY <1>3, <3>4, EditorFacts DEF DialogFits
  <2>8. OthersFit' /\ HandedClean'
    <3>1. eOps'["open"] = eOps["open"] /\ eOps'["handoff"] = eOps["handoff"]
      BY <1>7, EditorNames DEF Works
    <3>2. OthersFit'
      BY <3>1 DEF EditorInv, OthersFit, Editor!Idle
    <3>3. eOps["handoff"] # Editor!Idle /\ eOps["handoff"].path = t => Given(t)'
      <4>1. "handoff" \in Editor!Slot \ {s}
        BY EditorNames DEF Works
      <4> QED  BY <1>4, <4>1 DEF Editor!Uses
    <3>4. \A q \in Path \ {t} : q \in eDirty' => q \in eDirty
      BY <2>3
    <3>5. \A q \in Path : eOps["handoff"] # Editor!Idle /\ eOps["handoff"].path = q => q \notin eDirty' \/ Given(q)'
      BY <1>4, <3>3, <3>4 DEF EditorInv, HandedClean
    <3> QED  BY <3>1, <3>2, <3>5, EditorFacts DEF HandedClean, OthersFit, Editor!Idle
  <2>9. MarkedDirty' /\ UnseenDiffers'
    <3>1. eText'[t] # eMeta'[t].snapshot => t \in eDirty' \/ Given(t)'
      BY <1>4, <1>10, <2>3, <2>5 DEF EditorInv, MarkedDirty
    <3>2. \A q \in Pool \ {p, t} : eText'[q] # eMeta'[q].snapshot => q \in eDirty' \/ Given(q)'
      BY <1>4, <2>3, <2>4, <2>5 DEF EditorInv, MarkedDirty
    <3>3. \A q \in Path \cap eUnseen' : q \in eUnseen /\ q # t
      BY <1>3, <2>2
    <3> QED  BY <1>3, <2>3, <2>5, <3>1, <3>2, <3>3 DEF EditorInv, MarkedDirty, UnseenDiffers, Editor!Gone
  <2>10. \A o \in Works : WorkSafe(o)'
    <3>1. \A q \in Path : <<"disk", q>> \in eAgreed => <<"disk", q>> \in eAgreed'
      BY <1>4
    <3>2. ASSUME NEW o \in Works \ {s} PROVE WorkSafe(o)'
      <4>1. o \in Editor!Slot \ {s} /\ eOps'[o] = eOps[o]
        BY <1>7, EditorNames DEF Works
      <4>2. \A q \in {eOps[o].path, eOps[o].target} \cap Path : eOps[o].kind # "idle" =>
              (q = t => Given(q)')
        BY <1>4, <4>1 DEF Editor!Uses, Editor!Idle
      <4> QED  BY <1>3, <1>4, <2>3, <2>5, <3>1, <4>1, <4>2, WorkKept
    <3> QED  BY <1>6, <3>2
  <2>11. EditsStep
    BY <1>10, <2>2, <2>3, <2>4, <2>5, EditsHold
  <2> QED  BY <1>6, <2>3, <2>7, <2>8, <2>9, <2>10, <2>11 DEF EditorInv
<1> QED  BY <1>2, <1>8, <1>9, <1>10

\* The table entry of a save's target: what was written, and no number above the clock.
LEMMA SavedMeta ==
  ASSUME EditorInv, NEW t \in Path, NEW c \in Nat, c <= eClock, NEW i \in Nat, i <= eClock, NEW st,
         st = IF eDisk[t] = Editor!Gone THEN eMeta[t].stamp ELSE eDisk[t].stamp,
         eMeta' = [eMeta EXCEPT ![t] = [snapshot |-> c, stamp |-> st, initial |-> i]]
  PROVE  /\ \A q \in Path \ {t} : eMeta'[q] = eMeta[q]
         /\ eMeta'[t].snapshot = c
         /\ eMeta' \in [Path -> [snapshot : Nat, stamp : Nat, initial : Nat]]
         /\ eMeta'[t].snapshot <= eClock /\ eMeta'[t].stamp <= eClock /\ eMeta'[t].initial <= eClock
<1>1. /\ eMeta \in [Path -> [snapshot : Nat, stamp : Nat, initial : Nat]]
      /\ eDisk \in [Path -> [content : Nat, stamp : Nat]]
      /\ eMeta[t].stamp <= eClock /\ eDisk[t].stamp <= eClock
  BY EditorFacts DEF EditorTypes
<1>2. st \in Nat /\ st <= eClock
  BY <1>1
<1> QED  BY <1>1, <1>2

\* The other work, when a save-as puts its target into the pool.
LEMMA OtherSaved ==
  ASSUME EditorInv, NEW s \in Works, NEW o \in Works \ {s}, NEW t \in Path, t = eOps[s].target,
         eOps[s].kind = "saveAs", eOps[s].stage = "stamp", eOps'[o] = eOps[o],
         UNCHANGED <<eDisk, eUnseen, eAgreed, eRaced>>,
         Pool' \subseteq Pool \cup {t}, \A q \in Path \ {t} : eText'[q] = eText[q],
         eText'[t] = eText[t] \/ eText'[t] = eOps[s].content
  PROVE  WorkSafe(o)'
<1>1. \A q : Given(q)' <=> Given(q)
  BY DEF Given
<1>2. /\ eRaced \subseteq eRaced'
      /\ \A q \in Path : <<"disk", q>> \in eAgreed => <<"disk", q>> \in eAgreed'
  OBVIOUS
<1>3. CASE Given(t)
  BY <1>1, <1>2, <1>3, WorkKept
<1>4. CASE ~Given(t)
  <2>1. s = "free" /\ o = "gated"
    BY <1>4 DEF EditorInv, WorkSafe, Consented, Works
  <2>2. /\ WorkFits(o) /\ SavesText(o) /\ Consented(o) /\ UnseenSpared(o) /\ SavedTwice /\ eOps[o] \in Work
    BY EditorFacts DEF EditorInv, WorkSafe, Works
  <2>3. /\ eOps[o].kind \in SaveKinds /\ eOps[o].path = t =>
             /\ eText[t] = eOps[s].content
             /\ eOps[o].stage \in {"write", "stamp"} => eOps[o].content = eOps[s].content
    BY <1>4, <2>1, <2>2 DEF SavedTwice
  <2>4. eOps[o].stage \in {"write", "stamp"} => eOps[o].kind \in SaveKinds
    BY <2>2 DEF WorkFits, Work, SaveKinds, Editor!Idle
  <2>5. eOps[o].kind \in SaveKinds /\ eOps[o].target = t => eOps[o].path = t
    BY <1>4, <2>1, <2>2 DEF WorkFits, Consented, SaveKinds
  <2>6. WorkFits(o)' /\ UnseenSpared(o)'
    BY <2>2 DEF WorkFits, UnseenSpared, Editor!Idle
  <2>7. Consented(o)'
    BY <1>1, <1>4, <2>1, <2>2 DEF Consented, WorkFits
  <2>8. SavesText(o)'
    <3> SUFFICES ASSUME eOps[o].stage \in {"write", "stamp"},
                        NEW q \in {eOps[o].path, eOps[o].target} \cap Pool', eText'[q] # eOps[o].content
                 PROVE  Given(q)
      BY <1>1 DEF SavesText
    <3>1. q \in Path
      BY <2>2, <2>4 DEF WorkFits
    <3>2. CASE q = t
      BY <2>3, <2>4, <2>5, <3>2
    <3>3. CASE q # t
      BY <2>2, <3>1, <3>3 DEF SavesText
    <3> QED  BY <3>2, <3>3
  <2> QED  BY <2>6, <2>7, <2>8 DEF WorkSafe
<1> QED  BY <1>3, <1>4

\* A save has landed.
LEMMA SavedKeeps ==
  ASSUME EditorInv, NEW s \in Works, Editor!Saved(s)
  PROVE  EditorInv' /\ EditsStep
<1>1. /\ eOps[s] \in Work /\ eOps[s].stage = "stamp" /\ WorkFits(s) /\ SavesText(s) /\ Consented(s) /\ UnseenSpared(s)
  BY EditorFacts DEF Editor!Saved, EditorInv, WorkSafe, Works
<1>2. eOps[s].kind \in SaveKinds /\ eOps[s].target \in Path /\ eOps[s].path \in Path
  BY <1>1 DEF WorkFits, Work, SaveKinds, Editor!Idle
<1> PICK t \in Path : t = eOps[s].target
  BY <1>2
<1> PICK p \in Path : p = eOps[s].path
  BY <1>2
<1> PICK c \in Nat : c = eOps[s].content
  BY <1>1 DEF Work
<1> DEFINE st == IF eDisk[t] = Editor!Gone THEN eMeta[t].stamp ELSE eDisk[t].stamp
<1>3. /\ eOps' = [eOps EXCEPT ![s] = Editor!Idle]
      /\ UNCHANGED <<eDisk, eDialog, eUnseen, eClock, eAgreed, eRaced>>
  BY DEF Editor!Saved, Editor!SetOp, Editor!historyVars
<1>4. \A q : Given(q)' <=> Given(q)
  BY <1>3 DEF Given
<1>5. eOps'[s] = Editor!Idle /\ Editor!Idle \in Work /\ Editor!Idle.content <= eClock
  BY <1>3, EditorFacts DEF Editor!Idle, Works
<1>6. WorkSafe(s)' /\ SavedTwice' /\ DialogFits'
  BY <1>3, <1>5, IdleSafe, IdleTwice, EditorFacts DEF Works, DialogFits
<1>7. /\ \A q \in {p, t} \cap Pool : eText[q] # c => Given(q)
      /\ t \notin eUnseen /\ Editor!Written(c)
  <2>1. s \in Editor!Slot
    BY EditorNames DEF Works
  <2> QED  BY <1>1, <2>1 DEF SavesText, UnseenSpared, Editor!Written
<1>8. /\ c <= eClock /\ eClock \in Nat /\ eMeta[t].initial \in Nat /\ eMeta[t].initial <= eClock
      /\ eText \in [Path -> Nat] /\ eDisk \in [Path -> [content : Nat, stamp : Nat]] /\ eDialog \in Question
      /\ eMeta \in [Path -> [snapshot : Nat, stamp : Nat, initial : Nat]]
      /\ PoolAgrees /\ Pool \subseteq Path
  BY EditorFacts DEF EditorTypes, Works
\* What the rest of the invariant needs of the pool and the tables.
<1>9. ASSUME PoolAgrees', eDirty' \subseteq eDirty, \A o \in Works \ {s} : WorkSafe(o)',
             eMeta' \in [Path -> [snapshot : Nat, stamp : Nat, initial : Nat]],
             \A q \in Path \ {t} : eMeta'[q] = eMeta[q],
             eMeta'[t] = eMeta[t] \/ (/\ eMeta'[t].snapshot <= eClock /\ eMeta'[t].stamp <= eClock
                                      /\ eMeta'[t].initial <= eClock),
             eText' \in [Path -> Nat], \A q \in Path \ {t} : eText'[q] = eText[q], eText'[t] \in {eText[t], c},
             MarkedDirty'
      PROVE  EditorInv'
  <2>1. /\ eOps' \in [Editor!Slot -> Work] /\ \A o \in Editor!Slot : eOps'[o].content <= eClock
        /\ OthersFit' /\ HandedClean'
    BY <1>3, <1>4, <1>5, <1>9, OthersStay
  <2>2. EditorTypes'
    <3>1. \A q \in Path :
            /\ eDisk'[q] = eDisk[q]
            /\ eMeta'[q] = eMeta[q] \/ (/\ eMeta'[q].snapshot <= eClock' /\ eMeta'[q].stamp <= eClock'
                                       /\ eMeta'[q].initial <= eClock')
            /\ eText'[q] = eText[q] \/ eText'[q] <= eClock'
      <4>1. eClock' = eClock /\ eDisk' = eDisk
        BY <1>3
      <4> QED  BY <1>8, <1>9, <4>1
    <3>2. eClock' \in Nat /\ eClock <= eClock' /\ \A o \in Editor!Slot : eOps'[o].content <= eClock'
      BY <1>3, <1>8, <2>1
    <3>3. eDisk' \in [Path -> [content : Nat, stamp : Nat]] /\ eDialog' \in Question
      BY <1>3, <1>8
    <3> QED  BY <1>9, <2>1, <3>1, <3>2, <3>3, TypesGrow
  <2>3. UnseenDiffers'
    BY <1>3, <1>7, <1>9 DEF EditorInv, UnseenDiffers, Editor!Gone
  <2> QED  BY <1>6, <1>9, <2>1, <2>2, <2>3 DEF EditorInv
<1>10. CASE eOps[s].kind = "saveAs"
  <2>1. /\ eMeta' = [eMeta EXCEPT ![t] = [snapshot |-> c, stamp |-> st, initial |-> c]]
        /\ eOrder' = <<t>> \o Editor!Without({t, p})
        /\ eDirty' = eDirty \ {t, p} /\ eChanged' = eChanged \ {t, p} /\ eActive' = t
        /\ eText' = IF t \in Pool \ {p} THEN eText ELSE [eText EXCEPT ![t] = c]
    <3>1. Editor!Resident = Pool
      BY EditorNames
    <3> QED  BY <1>10, <3>1 DEF Editor!Saved
  <2>2. /\ \A q \in Path \ {t} : eMeta'[q] = eMeta[q]
        /\ eMeta'[t].snapshot = c
        /\ eMeta' \in [Path -> [snapshot : Nat, stamp : Nat, initial : Nat]]
        /\ eMeta'[t].snapshot <= eClock /\ eMeta'[t].stamp <= eClock /\ eMeta'[t].initial <= eClock
    BY <1>8, <2>1, SavedMeta
  <2>3. eOrder' \in Seq(Path) /\ IsInjective(eOrder') /\ Pool' = (Pool \ {t, p}) \cup {t}
    <3>1. eOrder' \in Seq(Path) /\ IsInjective(eOrder') /\ Range(eOrder') = (Pool \ {t, p}) \cup {t}
      BY <2>1, Fronted
    <3> QED  BY <3>1 DEF Pool
  <2>4. PoolAgrees'
    BY <1>8, <2>1, <2>3 DEF PoolAgrees
  <2>5. /\ eText' \in [Path -> Nat] /\ \A q \in Path \ {t} : eText'[q] = eText[q]
        /\ eText'[t] \in {eText[t], c}
        /\ t \in Pool \ {p} \/ eText'[t] = c
    BY <1>8, <2>1
  <2>6. MarkedDirty'
    <3>1. eText'[t] # eMeta'[t].snapshot => Given(t)
      BY <1>7, <2>2, <2>5
    <3>2. \A q \in Pool' \ {t} : q \in Pool /\ q \in Path /\ (q \in eDirty => q \in eDirty')
      BY <1>8, <2>1, <2>3
    <3> QED  BY <1>4, <2>2, <2>3, <2>5, <3>1, <3>2 DEF EditorInv, MarkedDirty
  <2>7. \A o \in Works \ {s} : WorkSafe(o)'
    <3>1. ASSUME NEW o \in Works \ {s} PROVE eOps'[o] = eOps[o]
      BY <1>3, EditorFacts DEF Works
    <3>2. Pool' \subseteq Pool \cup {t}
      BY <2>3
    <3> QED  BY <1>1, <1>3, <1>10, <2>5, <3>1, <3>2, OtherSaved
  <2>8. EditorInv'
    <3>1. eDirty' \subseteq eDirty
      BY <2>1
    <3> QED  BY <1>9, <2>2, <2>4, <2>5, <2>6, <2>7, <3>1
  <2>9. EditsStep
    <3>1. ASSUME NEW q \in Pool
          PROVE  (q \in Pool' /\ eText'[q] = eText[q]) \/ Given(q) \/ Editor!Written(eText[q])
      <4>1. q \in Path
        BY <1>8
      <4>2. CASE q \notin {p, t}
        BY <2>3, <2>5, <4>1, <4>2
      <4>3. CASE q \in {p, t}
        BY <1>7, <4>3
      <4> QED  BY <4>2, <4>3
    <3> QED  BY <3>1, EditsHold
  <2> QED  BY <2>8, <2>9
<1>11. CASE eOps[s].kind # "saveAs"
  <2>1. /\ eMeta' = IF t \in Pool
                    THEN [eMeta EXCEPT ![t] = [snapshot |-> c, stamp |-> st, initial |-> eMeta[t].initial]]
                    ELSE eMeta
        /\ eText' = eText
        /\ \/ /\ eOrder' = Editor!Without({eActive})
              /\ eDirty' = eDirty \ {t, eActive} /\ eChanged' = eChanged \ {t, eActive} /\ eActive' = NoPath
           \/ /\ eDirty' = eDirty \ {t} /\ eChanged' = eChanged \ {t} /\ UNCHANGED <<eOrder, eActive>>
    <3>1. Editor!Resident = Pool
      BY EditorNames
    <3> QED  BY <1>11, <3>1 DEF Editor!Saved
  <2>2. /\ \A q \in Path \ {t} : eMeta'[q] = eMeta[q]
        /\ t \in Pool => eMeta'[t].snapshot = c
        /\ eMeta' \in [Path -> [snapshot : Nat, stamp : Nat, initial : Nat]]
        /\ eMeta'[t] = eMeta[t] \/ (/\ eMeta'[t].snapshot <= eClock /\ eMeta'[t].stamp <= eClock
                                    /\ eMeta'[t].initial <= eClock)
    BY <1>8, <2>1, SavedMeta
  <2>3. /\ PoolAgrees' /\ Pool' \subseteq Pool /\ Pool \subseteq Pool' \cup {eActive}
        /\ \A q \in Pool' : q \in eDirty => q \in eDirty' \/ q = t
        /\ eDirty' \subseteq eDirty
    <3>1. CASE /\ eOrder' = Editor!Without({eActive})
               /\ eDirty' = eDirty \ {t, eActive} /\ eChanged' = eChanged \ {t, eActive} /\ eActive' = NoPath
      <4>1. eOrder' \in Seq(Path) /\ IsInjective(eOrder') /\ Pool' = Pool \ {eActive}
        BY <1>8, <3>1, PoolWithout DEF Pool
      <4> QED  BY <1>8, <3>1, <4>1 DEF PoolAgrees
    <3>2. CASE eDirty' = eDirty \ {t} /\ eChanged' = eChanged \ {t} /\ UNCHANGED <<eOrder, eActive>>
      <4>1. Pool' = Pool
        BY <3>2 DEF Pool
      <4> QED  BY <1>8, <3>2, <4>1 DEF PoolAgrees
    <3> QED  BY <2>1, <3>1, <3>2
  <2>4. MarkedDirty'
    <3>1. t \in Pool' /\ eText'[t] # eMeta'[t].snapshot => Given(t)
      BY <1>7, <2>1, <2>2, <2>3
    <3>2. \A q \in Pool' \ {t} : q \in Pool /\ q \in Path /\ (q \in eDirty => q \in eDirty')
      BY <1>8, <2>3
    <3> QED  BY <1>4, <2>1, <2>2, <2>3, <3>1, <3>2 DEF EditorInv, MarkedDirty
  <2>5. \A o \in Works \ {s} : WorkSafe(o)'
    <3>1. ASSUME NEW o \in Works \ {s} PROVE WorkSafe(o)'
      <4>1. eOps'[o] = eOps[o]
        BY <1>3, EditorFacts DEF Works
      <4>2. /\ eRaced \subseteq eRaced' /\ \A q \in Path : <<"disk", q>> \in eAgreed => <<"disk", q>> \in eAgreed'
            /\ \A q \in Path : q \in Pool' => q \in Pool
        BY <1>3, <2>3
      <4> QED  BY <1>3, <1>4, <2>1, <4>1, <4>2, WorkKept
    <3> QED  BY <3>1
  <2>6. EditorInv'
    BY <1>8, <1>9, <2>1, <2>2, <2>3, <2>4, <2>5
  <2>7. EditsStep
    <3>1. ASSUME NEW q \in Pool
          PROVE  \/ q \in Pool' /\ eText'[q] = eText[q]
                 \/ Given(q) \/ Editor!Written(eText[q]) \/ Editor!ClosesAnother(q)
      <4>1. CASE q = eActive /\ q # t
        <5>1. Editor!ClosesAnother(q)
          BY <1>11, <4>1, Zenon DEF Editor!ClosesAnother, Works
        <5> QED  BY <5>1
      <4>2. CASE q = t
        BY <1>7, <4>2
      <4>3. CASE q # eActive
        BY <2>1, <2>3, <4>3
      <4> QED  BY <4>1, <4>2, <4>3
    <3> QED  BY <3>1, EditsHold
  <2> QED  BY <2>6, <2>7
<1> QED  BY <1>10, <1>11

\* Init.
LEMMA EditorStart == Editor!Init => EditorInv /\ EditorCounts
<1> SUFFICES ASSUME Editor!Init PROVE EditorInv /\ EditorCounts
  OBVIOUS
<1>1. /\ eDisk = [p \in Path |-> [content |-> 1, stamp |-> 1]] /\ eOrder = <<>>
      /\ eMeta = [p \in Path |-> [snapshot |-> 0, stamp |-> 0, initial |-> 0]] /\ eText = [p \in Path |-> 0]
      /\ eDirty = {} /\ eChanged = {} /\ eActive = NoPath /\ eDialog = Editor!NoDialog
      /\ eOps = [s \in Editor!Slot |-> Editor!Idle] /\ eUnseen = {} /\ eClock = 1
      /\ eUsed = [edits |-> 0, external |-> 0, keys |-> 0, switches |-> 0]
  BY DEF Editor!Init
<1>2. Pool = {}
  BY <1>1 DEF Pool, Range
<1>3. Editor!Idle \in Work /\ Editor!Idle.content = 0 /\ Editor!NoDialog \in Question
  BY DEF Editor!Idle, Work, Editor!NoDialog, Question
<1>4. EditorTypes
  BY <1>1, <1>3 DEF EditorTypes
<1>5. PoolAgrees
  BY <1>1, <1>2 DEF PoolAgrees, IsInjective
<1>6. \A s \in Editor!Slot : eOps[s] = Editor!Idle
  BY <1>1
<1>7. OthersFit /\ HandedClean /\ SavedTwice
  BY <1>6, EditorNames DEF OthersFit, HandedClean, SavedTwice, SaveKinds
<1>8. DialogFits /\ MarkedDirty /\ UnseenDiffers
  BY <1>1, <1>2 DEF DialogFits, MarkedDirty, UnseenDiffers, Editor!NoDialog
<1>9. ASSUME NEW s \in Works PROVE WorkSafe(s)
  <2>1. eOps[s] = Editor!Idle
    BY <1>6, EditorNames DEF Works
  <2> QED  BY <2>1 DEF WorkSafe, WorkFits, SavesText, Consented, UnseenSpared, SaveKinds, Editor!Idle
<1> QED  BY <1>1, <1>4, <1>5, <1>7, <1>8, <1>9 DEF EditorInv, EditorCounts

\* The model's counters stay numbers.
LEMMA CountsKept == EditorCounts /\ Editor!Next => EditorCounts'
<1> SUFFICES ASSUME EditorCounts, Editor!Next PROVE EditorCounts'
  OBVIOUS
<1>1. SUFFICES eUsed' = eUsed \/ \E bound \in {"edits", "external", "keys", "switches"} : Editor!Spend(bound)
  BY <1>1 DEF EditorCounts, Editor!Spend
<1>2. ASSUME NEW p \in Path, Editor!External(p) \/ Editor!Type(p) \/ Editor!StartOpen(p) \/ Editor!SaveAs(p)
                             \/ Editor!HandOff(p) \/ Editor!Admit(p) \/ Editor!Admitted(p)
      PROVE  eUsed' = eUsed \/ \E bound \in {"edits", "external", "keys", "switches"} : Editor!Spend(bound)
  BY <1>2 DEF Editor!External, Editor!Type, Editor!StartOpen, Editor!SaveAs, Editor!HandOff, Editor!Admit,
              Editor!Admitted, Editor!CommandKey, Editor!Key
<1>3. ASSUME NEW p \in Path, NEW t \in Path, Editor!Move(p, t) PROVE Editor!Spend("keys")
  BY <1>3 DEF Editor!Move, Editor!CommandKey, Editor!Key
<1>4. ASSUME Editor!LeaveAndReturn PROVE Editor!Spend("switches")
  BY <1>4 DEF Editor!LeaveAndReturn
<1>5. ASSUME Editor!PressSave \/ Editor!RaiseDialog PROVE Editor!Spend("keys")
  BY <1>5 DEF Editor!PressSave, Editor!RaiseDialog, Editor!CommandKey, Editor!Key
<1>6. ASSUME Editor!CancelDialog \/ Editor!Discard \/ Editor!Confirm \/ Editor!RunEditor \/ Editor!Reconcile
      PROVE  eUsed' = eUsed
  BY <1>6 DEF Editor!CancelDialog, Editor!Discard, Editor!Confirm, Editor!RunEditor, Editor!Reconcile
<1>8. ASSUME NEW n \in 1..MaxSwitches, Editor!Stat(n) PROVE eUsed' = eUsed
  BY <1>8 DEF Editor!Stat
<1>7. ASSUME NEW s \in {"gated", "free"},
             Editor!Compare(s) \/ Editor!Write(s) \/ Editor!WriteFails(s) \/ Editor!Saved(s)
             \/ Editor!Reloaded(s) \/ Editor!RemoveTarget(s) \/ Editor!Rename(s) \/ Editor!Apply(s)
      PROVE  eUsed' = eUsed
  BY <1>7 DEF Editor!Compare, Editor!Write, Editor!WriteFails, Editor!Saved, Editor!Reloaded,
              Editor!RemoveTarget, Editor!Rename, Editor!Apply
<1> QED  BY <1>2, <1>3, <1>4, <1>5, <1>6, <1>7, <1>8 DEF Editor!Next, Editor!OpStep

\* Every step of the editor keeps the invariant, and the unsaved edits.
LEMMA EditorStep ==
  ASSUME EditorInv, EditorCounts, Editor!Next
  PROVE  EditorInv' /\ EditsStep
<1>1. ASSUME NEW s \in Works,
             Editor!Compare(s) \/ Editor!Write(s) \/ Editor!WriteFails(s) \/ Editor!Saved(s)
             \/ Editor!Reloaded(s) \/ Editor!RemoveTarget(s) \/ Editor!Rename(s) \/ Editor!Apply(s)
      PROVE  EditorInv' /\ EditsStep
  BY <1>1, CompareKeeps, WriteLandsKeeps, WriteFailsKeeps, SavedKeeps, ReloadedKeeps,
     RemoveTargetKeeps, RenameKeeps, ApplyKeeps
<1>2. ASSUME Editor!OpStep PROVE EditorInv' /\ EditsStep
  BY <1>1, <1>2, AdmitKeeps, AdmittedKeeps, RunEditorKeeps, ReconcileKeeps, StatKeeps DEF Editor!OpStep, Works
<1> QED  BY <1>2, ExternalKeeps, TypeKeeps, StartOpenKeeps, SaveAsKeeps, HandOffKeeps, MoveKeeps, LeaveAndReturnKeeps,
            PressSaveKeeps, RaiseDialogKeeps, CancelDialogKeeps, DiscardKeeps, ConfirmKeeps DEF Editor!Next

LEMMA EditorStutter ==
  ASSUME EditorInv, UNCHANGED editorVars
  PROVE  EditorInv'
<1>1. UNCHANGED <<eDisk, eOrder, eMeta, eText, eDirty, eActive, eUnseen, eClock, eOps, eDialog,
                  eRaced, eAgreed>>
  BY DEF editorVars
<1> QED  BY <1>1, DialogKept, QuietDialog

\* The invariant while the editor is the part that moves.
EditorHolds == part = "editor" => EditorInv /\ EditorCounts

\* No unsaved edit is lost and no foreign version of a file is written over behind
\* the user's back, whatever the files, the size of the pool and the number of
\* keys, edits and outside writes (tui/workspace: controller.ts, buffer-owner.ts,
\* file-operation-owner.ts): a save under way writes what its buffer shows, a
\* buffer that differs from its snapshot is marked dirty, and work that replaces
\* a buffer or the file below it has compared the stamps or was agreed to, unless
\* one of the excepted races has reached the buffer.
THEOREM EditingSafety == Spec => EditsSafe
<1>1. Init => EditorHolds
  BY EditorStart DEF Init, EditorHolds
<1>2. EditorHolds /\ [Next]_vars => EditorHolds' /\ (UNCHANGED editorVars \/ (EditorInv /\ EditsStep))
  <2> SUFFICES ASSUME EditorHolds, [Next]_vars
               PROVE  EditorHolds' /\ (UNCHANGED editorVars \/ (EditorInv /\ EditsStep))
    OBVIOUS
  <2>1. CASE UNCHANGED <<part, editorVars>>
    <3>1. EditorCounts => EditorCounts'
      BY <2>1 DEF editorVars, EditorCounts
    <3> QED  BY <2>1, <3>1, EditorStutter DEF EditorHolds
  <2>2. CASE part = "editor" /\ Editor!Next
    BY <2>2, EditorStep, CountsKept DEF EditorHolds
  <2>3. UNCHANGED <<part, editorVars>> \/ (part = "editor" /\ Editor!Next)
        \/ (part' = part /\ part # "editor" /\ UNCHANGED editorVars)
    BY DEF Next, vars
  <2> QED  BY <2>1, <2>2, <2>3 DEF EditorHolds
<1>3. UNCHANGED editorVars \/ (EditorInv /\ EditsStep)
        => [ \A p \in Path : \A lost \in {eText[p]} : Editor!Unsaved(p) =>
               \/ Editor!Somewhere(lost)' \/ eUsed'.edits # eUsed.edits \/ eUsed'.switches # eUsed.switches
               \/ <<"buffer", p>> \in eAgreed \/ <<"buffer", p>> \in eAgreed'
               \/ p \in eRaced \/ Editor!ClosesAnother(p) ]_(Editor!vars)
  BY Zenon DEF EditsStep, editorVars, Editor!vars, Editor!poolVars, Editor!viewVars, Editor!dialogVars,
               Editor!historyVars
<1>4. UNCHANGED editorVars \/ (EditorInv /\ EditsStep)
        => [ \A s \in {"gated", "free"} : Editor!Write(s) \/ Editor!RemoveTarget(s) \/ Editor!Rename(s) =>
               LET t == eOps[s].target
               IN  t \in eUnseen /\ eDisk[t] # Editor!Gone =>
                     <<"disk", t>> \in eAgreed \/ t \in eRaced \/ (eOps[s].kind = "saveAs" /\ eOps[s].path = t)
           ]_(Editor!vars)
  <2>1. ASSUME EditorInv, NEW s \in {"gated", "free"},
               Editor!Write(s) \/ Editor!RemoveTarget(s) \/ Editor!Rename(s),
               eOps[s].target \in eUnseen, eDisk[eOps[s].target] # Editor!Gone
        PROVE  \/ <<"disk", eOps[s].target>> \in eAgreed \/ eOps[s].target \in eRaced
               \/ (eOps[s].kind = "saveAs" /\ eOps[s].path = eOps[s].target)
    BY <2>1 DEF EditorInv, WorkSafe, UnseenSpared, Works, Editor!Write, Editor!RemoveTarget,
              Editor!Rename
  <2>2. UNCHANGED editorVars => UNCHANGED Editor!vars
    BY DEF editorVars, Editor!vars, Editor!poolVars, Editor!viewVars, Editor!dialogVars, Editor!historyVars
  <2> QED  BY <2>1, <2>2
<1> QED  BY <1>1, <1>2, <1>3, <1>4, PTL DEF Spec, EditsSafe, Editor!EditsKept, Editor!NoSilentOverwrite
=============================================================================
