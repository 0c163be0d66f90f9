---------------------------- MODULE Session_proof ----------------------------
(***************************************************************************)
(* Proofs about the two parts of MCHost that live in the session file: the *)
(* background shell completions (ProcessDelivery) and the writers of the   *)
(* session (SessionLog).                                                   *)
(*                                                                         *)
(* Both argue from what one append does to the history projected for each  *)
(* head (DataLemmas).  A completion flagged as notified is in that history, *)
(* in the request of the turn that runs, answered or excepted; and a       *)
(* message that was said is in the history of its branch as long as every  *)
(* checkpoint was made from the head it is appended to.                    *)
(***************************************************************************)
EXTENDS MCHost, DataLemmas, FiniteSetTheorems

-----------------------------------------------------------------------------
(* Background shell completions: what the session file shows of them.        *)

\* The operators of the session file are one and the same in both modules.
LEMMA ProcessNames ==
  ASSUME NEW r, NEW h, NEW U, NEW H
  PROVE  /\ Process!Project(r, h, U, H) = Project(r, h, U, H)
         /\ Process!Branch(r, h) = Branch(r, h)
         /\ Process!Range(r) = Range(r) /\ Process!Max(U) = Max(U)
<1>1. Process!Range(r) = Range(r)
  BY DEF Process!Range, Range
<1>2. Process!Max(U) = Max(U)
  BY Zenon DEF Process!Max, Max
<1>3. Process!Project(r, h, U, H) = Project(r, h, U, H)
  BY Zenon DEF Process!Project, Project, Process!DropTrailing, DropTrailing, Process!Max, Max
<1>4. Process!Branch(r, h) = Branch(r, h)
  BY Zenon DEF Process!Branch, Branch
<1> QED  BY <1>1, <1>2, <1>3, <1>4

\* What a request built from the branch to h is made of, and the tasks in it.
Shell(r, h) == Project(r, h, {"prompt", "packet"}, {"snapshot", "completed"})
PacketsOf(r, h) == {i \in Range(Shell(r, h)) : r[i].kind = "packet"}
TasksShown(r, h) == UNION {r[i].ids : i \in PacketsOf(r, h)}
ShellRecords == [kind : {"prompt", "packet", "snapshot", "completed", "tool", "reply", "failed"},
                 ids : SUBSET Task, parent : Nat]

LEMMA ShellNames ==
  ASSUME NEW r, NEW h
  PROVE  Process!VisiblePackets(r, h) = PacketsOf(r, h) /\ Process!Visible(r) = TasksShown(r, Len(r))
<1>1. Process!Project(r, h, {"prompt", "packet"}, {"snapshot", "completed"}) = Shell(r, h)
  BY ProcessNames, Zenon DEF Shell
<1>2. \A k : Process!Project(r, k, {"prompt", "packet"}, {"snapshot", "completed"}) = Shell(r, k)
  BY ProcessNames, Zenon DEF Shell
<1>3. \A k : Process!Range(Shell(r, k)) = Range(Shell(r, k))
  BY ProcessNames, Zenon
<1>4. \A k : Process!VisiblePackets(r, k) = PacketsOf(r, k)
  BY <1>2, <1>3, Zenon DEF Process!VisiblePackets, PacketsOf, Process!UserKinds, Process!HostKinds
<1> QED
  BY <1>4, Zenon DEF Process!Visible, TasksShown

LEMMA PacketsWithin ==
  ASSUME NEW r, Tree(r), NEW h \in 0..Len(r)
  PROVE  PacketsOf(r, h) \subseteq 1..h /\ PacketsOf(r, 0) = {} /\ Shell(r, h) \in Seq(Nat)
<1>1. /\ Shell(r, h) \in Seq(Nat) /\ Range(Shell(r, h)) \subseteq 1..h /\ Shell(r, 0) = <<>>
  <2>1. \A U, H : /\ Project(r, 0, U, H) = <<>>
                   /\ Project(r, h, U, H) \in Seq(Nat) /\ Range(Project(r, h, U, H)) \subseteq 1..h
    BY ProjectSteps
  <2> QED  BY <2>1, Zenon DEF Shell
<1> QED  BY <1>1 DEF PacketsOf, Range

\* How often a request carries each task, as a set of tasks.
LEMMA CarriedShows ==
  ASSUME NEW r, Tree(r), \A i \in 1..Len(r) : r[i].ids \subseteq Task, NEW h \in 0..Len(r)
  PROVE  /\ Process!Carried(r, h) \in [Task -> Nat]
         /\ Process!CarriedBy(Process!Carried(r, h)) = TasksShown(r, h)
         /\ TasksShown(r, h) \subseteq Task
<1>1. PICK P : P = PacketsOf(r, h)
  OBVIOUS
<1>2. P \subseteq 1..Len(r) /\ h \in Nat /\ Len(r) \in Nat
  BY <1>1, PacketsWithin DEF Tree
<1>3. Process!Carried(r, h) = [t \in Task |-> Cardinality({i \in P : t \in r[i].ids})]
  <2>1. \A S : Process!Cardinality(S) = Cardinality(S)
    BY Zenon DEF Process!Cardinality, Cardinality
  <2>2. Process!VisiblePackets(r, h) = P
    BY <1>1, ShellNames
  <2> QED  BY <2>1, <2>2, Zenon DEF Process!Carried
<1>4. ASSUME NEW t \in Task
      PROVE  /\ Cardinality({i \in P : t \in r[i].ids}) \in Nat
             /\ (Cardinality({i \in P : t \in r[i].ids}) > 0) <=> \E i \in P : t \in r[i].ids
  <2>. DEFINE S == {i \in P : t \in r[i].ids}
  <2>1. IsFiniteSet(S)
    <3>1. S \subseteq 1..Len(r) /\ IsFiniteSet(1..Len(r))
      BY <1>2, FS_Interval
    <3> QED  BY <3>1, FS_Subset
  <2>2. Cardinality(S) \in Nat /\ (Cardinality(S) = 0 <=> S = {})
    BY <2>1, FS_CardinalityType, FS_EmptySet
  <2> QED  BY <2>2
<1>5. Process!CarriedBy(Process!Carried(r, h)) = {t \in Task : \E i \in P : t \in r[i].ids}
  BY <1>3, <1>4 DEF Process!CarriedBy
<1>6. TasksShown(r, h) = {t \in Task : \E i \in P : t \in r[i].ids}
  BY <1>1, <1>2 DEF TasksShown
<1>7. Process!Carried(r, h) \in [Task -> Nat]
  BY <1>3, <1>4
<1> QED  BY <1>5, <1>6, <1>7

LEMMA AddCarries ==
  ASSUME NEW c \in [Task -> Nat], NEW ids \in SUBSET Task
  PROVE  /\ Process!Add(c, ids) \in [Task -> Nat]
         /\ Process!CarriedBy(Process!Add(c, ids)) = Process!CarriedBy(c) \cup ids
         /\ Process!CarriedBy(c) \subseteq Task
BY DEF Process!Add, Process!CarriedBy

\* A record is appended: what every branch so far shows stays, and the new branch
\* shows what the parent's showed, a packet's tasks too, and after a failed turn's
\* marker perhaps less.
LEMMA GrownShows ==
  ASSUME NEW r, Tree(r), NEW more \in Seq(ShellRecords), OneMore(r, more),
         NEW n, n = Len(r) + 1, NEW kind, kind = more[n].kind, NEW ids, ids = more[n].ids,
         NEW k, k = more[n].parent
  PROVE  /\ \A h \in 0..Len(r) : TasksShown(more, h) = TasksShown(r, h)
         /\ kind # "failed" =>
              TasksShown(more, n) = TasksShown(r, k) \cup (IF kind = "packet" THEN ids ELSE {})
         /\ TasksShown(more, n) \subseteq TasksShown(r, k) \cup ids
<1>. DEFINE v == Shell(r, k)
            Then == MessagesWith(more, v, n, {"prompt", "packet"}, {"snapshot", "completed"})
<1>1. /\ Tree(more) /\ Len(more) = n /\ Len(r) \in Nat /\ n \in 1..n
      /\ \A i \in 1..Len(r) : more[i] = r[i]
  BY DEF OneMore, Tree
<1>2. k \in 0..Len(r)
  <2>1. k \in 0..(n - 1)
    BY <1>1 DEF Tree
  <2> QED  BY <1>1, <2>1
<1>3. kind \in {"prompt", "packet", "snapshot", "completed", "tool", "reply", "failed"}
  <2>1. more[n] \in ShellRecords
    BY <1>1
  <2> QED  BY <2>1 DEF ShellRecords
<1>4. /\ \A h \in 0..Len(r) : Shell(more, h) = Shell(r, h)
      /\ Shell(more, n) = Then
  <2>1. ASSUME NEW U, NEW H
        PROVE  /\ \A h \in 0..Len(r) : Project(more, h, U, H) = Project(r, h, U, H)
               /\ Project(more, n, U, H) = MessagesWith(more, Project(r, k, U, H), n, U, H)
    <3>1. ProjectsOn(r, more, U, H)
      BY ProjectAppends
    <3> QED  BY <1>1, <3>1, Zenon DEF ProjectsOn
  <2>2. /\ \A h \in 0..Len(r) : \A U, H : Project(more, h, U, H) = Project(r, h, U, H)
        /\ \A U, H : Project(more, n, U, H) = MessagesWith(more, Project(r, k, U, H), n, U, H)
    BY <2>1, Zenon
  <2> QED  BY <2>2, Zenon DEF Shell
<1>5. \A h \in 0..Len(r) : PacketsOf(r, h) \subseteq 1..Len(r) /\ Shell(r, h) \in Seq(Nat)
  <2>1. \A h \in 0..Len(r) : PacketsOf(r, h) \subseteq 1..h /\ Shell(r, h) \in Seq(Nat)
    BY PacketsWithin
  <2> QED  BY <1>1, <1>2, <2>1
<1>6. ASSUME NEW h \in 0..Len(r) PROVE TasksShown(more, h) = TasksShown(r, h)
  <2>1. PacketsOf(more, h) = PacketsOf(r, h)
    <3>1. Shell(more, h) = Shell(r, h) /\ \A i \in Range(Shell(r, h)) : i \in 1..Len(r)
      <4>1. Range(Shell(r, h)) \subseteq 1..h
        <5>1. \A U, H : Range(Project(r, h, U, H)) \subseteq 1..h
          BY ProjectSteps
        <5> QED  BY <5>1, Zenon DEF Shell
      <4> QED  BY <1>1, <1>2, <1>4, <4>1
    <3> QED  BY <1>1, <1>2, <3>1 DEF PacketsOf
  <2> QED  BY <1>1, <1>2, <1>5, <2>1 DEF TasksShown
<1>7. v \in Seq(Nat) /\ n \in Nat /\ Range(v) \subseteq 1..Len(r)
  <2>1. \A U, H : Range(Project(r, k, U, H)) \subseteq 1..k
    BY <1>2, ProjectSteps
  <2>2. Range(v) \subseteq 1..k
    BY <2>1, Zenon DEF Shell
  <2> QED  BY <1>1, <1>2, <1>5, <2>2
<1>8. Range(Append(v, n)) = Range(v) \cup {n}
  <2>. HIDE DEF v
  <2> QED  BY <1>7, AppendRange
<1>9. /\ DropTrailing(more, v, {"prompt", "packet"}) \in Seq(Nat)
      /\ Range(DropTrailing(more, v, {"prompt", "packet"})) \subseteq Range(v)
  <2>. HIDE DEF v
  <2> QED  BY <1>7, DropWithin
<1>. HIDE DEF v
<1>10. kind \in {"snapshot", "completed"} => Shell(more, n) = v
  BY <1>4 DEF MessagesWith
<1>11. kind = "failed" => Range(Shell(more, n)) \subseteq Range(v)
  BY <1>4, <1>9 DEF MessagesWith
<1>12. kind \notin {"snapshot", "completed", "failed"} => Range(Shell(more, n)) = Range(v) \cup {n}
  <2>1. kind # "checkpoint"
    BY <1>3
  <2> QED  BY <1>4, <1>8, <2>1 DEF MessagesWith
<1>13. PacketsOf(r, k) = {i \in Range(v) : more[i].kind = "packet"}
       /\ \A i \in Range(v) : more[i] = r[i] /\ i # n
  BY <1>1, <1>2, <1>7 DEF PacketsOf, v
<1>14. TasksShown(r, k) = UNION {more[i].ids : i \in {j \in Range(v) : more[j].kind = "packet"}}
  BY <1>13 DEF TasksShown
<1>15. TasksShown(more, n) = UNION {more[i].ids : i \in {j \in Range(Shell(more, n)) : more[j].kind = "packet"}}
  BY DEF TasksShown, PacketsOf
<1>16. kind # "failed" => TasksShown(more, n) = TasksShown(r, k) \cup (IF kind = "packet" THEN ids ELSE {})
  <2>1. CASE kind \in {"snapshot", "completed"}
    BY <1>10, <1>14, <1>15, <2>1
  <2>2. CASE kind = "packet"
    <3>1. \A i \in Range(v) \cup {n} : i = n => more[i].ids = ids /\ more[i].kind = "packet"
      BY <2>2
    <3>2. Range(Shell(more, n)) = Range(v) \cup {n}
      BY <1>12, <2>2
    <3>3. {j \in Range(Shell(more, n)) : more[j].kind = "packet"}
            = {j \in Range(v) : more[j].kind = "packet"} \cup {n}
      BY <3>1, <3>2
    <3>4. more[n].ids = ids
      OBVIOUS
    <3>5. TasksShown(more, n) = TasksShown(r, k) \cup ids
      BY <1>14, <1>15, <3>3, <3>4
    <3> QED  BY <2>2, <3>5
  <2>3. CASE kind \notin {"snapshot", "completed", "packet", "failed"}
    <3>1. more[n].kind # "packet"
      BY <2>3
    <3>2. Range(Shell(more, n)) = Range(v) \cup {n}
      BY <1>12, <2>3
    <3>3. {j \in Range(Shell(more, n)) : more[j].kind = "packet"}
            = {j \in Range(v) : more[j].kind = "packet"}
      BY <3>1, <3>2
    <3>4. TasksShown(more, n) = TasksShown(r, k)
      BY <1>14, <1>15, <3>3
    <3> QED  BY <2>3, <3>4
  <2> QED  BY <2>1, <2>2, <2>3
<1>17. TasksShown(more, n) \subseteq TasksShown(r, k) \cup ids
  <2>1. CASE kind = "failed"
    BY <1>11, <1>14, <1>15, <2>1
  <2> QED  BY <1>16, <2>1
<1> QED  BY <1>6, <1>16, <1>17

\* The same for a record that a step appends.
ShellGrows(r, more, kind, ids, k) ==
  /\ more \in Seq(ShellRecords) /\ Tree(more) /\ Len(more) = Len(r) + 1
  /\ more[Len(r) + 1].parent = k /\ \A i \in 1..Len(r) : more[i] = r[i]
  /\ \A h \in 0..Len(r) : TasksShown(more, h) = TasksShown(r, h)
  /\ kind # "failed" =>
       TasksShown(more, Len(more)) = TasksShown(r, k) \cup (IF kind = "packet" THEN ids ELSE {})
  /\ TasksShown(more, Len(more)) \subseteq TasksShown(r, k) \cup ids

LEMMA AppendShows ==
  ASSUME NEW r \in Seq(ShellRecords), Tree(r), NEW ids \in SUBSET Task, NEW k \in 0..Len(r),
         NEW kind \in {"prompt", "packet", "snapshot", "completed", "tool", "reply", "failed"}
  PROVE  ShellGrows(r, Append(r, Process!Record(kind, ids, k)), kind, ids, k)
<1>. DEFINE e == Process!Record(kind, ids, k)
            more == Append(r, e)
<1>1. Len(r) \in Nat
  BY DEF Tree
<1>2. e \in ShellRecords /\ e.kind = kind /\ e.ids = ids /\ e.parent = k
  BY <1>1 DEF Process!Record, ShellRecords
<1>. HIDE DEF e
<1>3. more \in Seq(ShellRecords) /\ OneMore(r, more) /\ more[Len(r) + 1] = e
  BY <1>2, TreeAppends
<1>. HIDE DEF more
<1>4. /\ \A h \in 0..Len(r) : TasksShown(more, h) = TasksShown(r, h)
      /\ kind # "failed" =>
           TasksShown(more, Len(r) + 1) = TasksShown(r, k) \cup (IF kind = "packet" THEN ids ELSE {})
      /\ TasksShown(more, Len(r) + 1) \subseteq TasksShown(r, k) \cup ids
  BY <1>2, <1>3, GrownShows
<1>5. Tree(more) /\ Len(more) = Len(r) + 1 /\ \A i \in 1..Len(r) : more[i] = r[i]
  BY <1>3 DEF OneMore
<1>6. ShellGrows(r, more, kind, ids, k)
  BY <1>2, <1>3, <1>4, <1>5 DEF ShellGrows
<1> QED  BY <1>6 DEF more, e

-----------------------------------------------------------------------------
(* Background shell completions: the inductive invariant.                    *)

ShellTurns ==
  [kind : {"none", "prompt", "delivery"},
   stage : {"none", "input", "snapshot", "boundary", "marking", "provider", "rearming"},
   parent : SUBSET Nat, input : Nat, saw : BOOLEAN, batch : SUBSET Task, marks : SUBSET Task,
   carries : [Task -> Nat]]

ShellTypes ==
  /\ pTask \in [Task -> Process!TaskState] /\ pFile \in [Task -> Process!TaskState]
  /\ pSettling \subseteq Task /\ pTracked \subseteq Task
  /\ pDrain \in {"idle", "sleeping", "collecting", "delivering", "delivered"}
  /\ pRerun \in BOOLEAN /\ pBatch \subseteq Task /\ pPaused \in BOOLEAN
  /\ pLog \in Seq(ShellRecords) /\ Tree(pLog)
  /\ pTurn \in ShellTurns /\ pConversation \in [Task -> Nat]
  /\ pRewindPoint \subseteq 0..Len(pLog) /\ pTurn.parent \subseteq 0..Len(pLog)

\* A delivery runs while its drain awaits it; only it has a batch, and re-arms it.
ShellTurn ==
  /\ (pDrain = "delivered") <=> (pTurn.kind = "delivery")
  /\ pTurn.stage = "none" \/ pTurn.kind = "none" => pTurn = Process!NoTurn
  /\ pTurn.stage = "rearming" => pTurn.kind = "delivery"
  /\ pTurn.kind # "delivery" => pTurn.batch = {}
  /\ pTurn.kind = "delivery" => pTurn.parent = {}

\* Memory and disk: a file lags behind its task by the end alone.
ShellFlags ==
  /\ \A t \in Task : pTask[t].notified => pTask[t].status = "ended"
  /\ \A t \in Task : pFile[t].notified => pTask[t].notified /\ pFile[t].status = "ended"
  /\ \A t \in Task \ pSettling : pFile[t] = pTask[t]
  /\ \A t \in pSettling : pTask[t].status = "ended"

\* What a drain collects, a boundary marks or a delivery carries has ended.
ShellEnded ==
  \A t \in pBatch \cup pTurn.batch \cup pTurn.marks : pTask[t].status = "ended"

Notified == {t \in Task : pTask[t].notified}
Told == TasksShown(pLog, Len(pLog)) \cup pAnswered \cup pOrphaned
InRequest == Process!CarriedBy(pTurn.carries)

\* Where a notified completion is: shown, answered, excepted, or in the request
\* of the turn that runs, from which the flags of a boundary and of a delivery
\* are drawn.
ShellTold ==
  /\ Notified \subseteq Told \cup InRequest
  /\ pTurn.stage = "rearming" => Notified \subseteq Told \cup pTurn.marks
  /\ pTurn.stage = "marking" => pTurn.marks \subseteq Told \cup InRequest
  /\ pTurn.batch \subseteq InRequest
  /\ pTurn.kind = "prompt" /\ pTurn.stage # "input" =>
       /\ pTurn.input \in 1..Len(pLog)
       /\ TasksShown(pLog, pLog[pTurn.input].parent) \subseteq TasksShown(pLog, Len(pLog))

ShellInv == ShellTypes /\ ShellTurn /\ ShellFlags /\ ShellEnded /\ ShellTold

\* What the types say of the session file and the requests.
LEMMA ShellFacts ==
  ASSUME ShellTypes
  PROVE  /\ Len(pLog) \in Nat /\ Len(pLog) \in 0..Len(pLog) /\ DOMAIN pLog = 1..Len(pLog)
         /\ \A i \in 1..Len(pLog) : pLog[i].parent \in 0..Len(pLog) /\ pLog[i].ids \subseteq Task
         /\ \A h \in 0..Len(pLog) :
              /\ Process!Carried(pLog, h) \in [Task -> Nat]
              /\ Process!CarriedBy(Process!Carried(pLog, h)) = TasksShown(pLog, h)
              /\ TasksShown(pLog, h) \subseteq Task
         /\ Process!Visible(pLog) = TasksShown(pLog, Len(pLog))
         /\ Process!NoTurn \in ShellTurns /\ Process!CarriedBy(Process!NoTurn.carries) = {}
         /\ InRequest \subseteq Task
<1>1. pLog \in Seq(ShellRecords) /\ Tree(pLog) /\ pTurn \in ShellTurns
  BY DEF ShellTypes
<1>2. Len(pLog) \in Nat /\ Len(pLog) \in 0..Len(pLog) /\ DOMAIN pLog = 1..Len(pLog)
  BY <1>1 DEF Tree
<1>3. \A i \in 1..Len(pLog) : pLog[i].parent \in 0..Len(pLog) /\ pLog[i].ids \subseteq Task
  <2>1. ASSUME NEW i \in 1..Len(pLog) PROVE pLog[i].parent \in 0..Len(pLog) /\ pLog[i].ids \subseteq Task
    <3>1. pLog[i] \in ShellRecords
      BY <1>1
    <3>2. pLog[i].parent \in 0..(i - 1)
      BY <1>1 DEF Tree
    <3> QED  BY <1>2, <3>1, <3>2 DEF ShellRecords
  <2> QED  BY <2>1
<1>4. \A h \in 0..Len(pLog) :
        /\ Process!Carried(pLog, h) \in [Task -> Nat]
        /\ Process!CarriedBy(Process!Carried(pLog, h)) = TasksShown(pLog, h)
        /\ TasksShown(pLog, h) \subseteq Task
  BY <1>1, <1>3, CarriedShows
<1>5. Process!Visible(pLog) = TasksShown(pLog, Len(pLog))
  BY ShellNames
<1>6. Process!NoTurn \in ShellTurns /\ Process!CarriedBy(Process!NoTurn.carries) = {}
  BY DEF Process!NoTurn, ShellTurns, Process!CarriedBy
<1>7. InRequest \subseteq Task
  BY DEF InRequest, Process!CarriedBy
<1> QED  BY <1>2, <1>3, <1>4, <1>5, <1>6, <1>7

\* What the ends of a drain and the notices to it leave.
LEMMA DrainFacts ==
  ASSUME ShellTypes
  PROVE  /\ Process!NotifyAt(pDrain) =>
              /\ pDrain' \in {"idle", "sleeping", "collecting", "delivering", "delivered"}
              /\ pRerun' \in BOOLEAN /\ pBatch' = pBatch
              /\ (pDrain' = "delivered") <=> (pDrain = "delivered")
         /\ \A again \in BOOLEAN : Process!EndDrain(again) =>
              /\ pDrain' \in {"idle", "sleeping"} /\ pRerun' \in BOOLEAN /\ pBatch' = {}
BY DEF ShellTypes, Process!NotifyAt, Process!EndDrain

\* While the file and the turn rest, a completion stays told.
LEMMA ToldStays ==
  ASSUME ShellInv, pLog' = pLog, pTurn' = pTurn, pAnswered' = pAnswered, pOrphaned' = pOrphaned,
         Notified' \subseteq Notified
  PROVE  ShellTold'
BY DEF ShellInv, ShellTold, Told, InRequest

\* A task ends.
LEMMA FinishKeeps ==
  ASSUME ShellInv, NEW t \in Task, Process!Finish(t)
  PROVE  ShellInv'
<1> USE DEF Process!Finish, Process!drainVars, Process!turnVars, Process!historyVars, ShellInv
<1>1. /\ pTask[t].status = "running" /\ pTask' = [pTask EXCEPT ![t].status = "ended"]
      /\ pTask \in [Task -> Process!TaskState] /\ pSettling' = pSettling \cup {t}
      /\ pFile' = pFile /\ pTurn' = pTurn /\ pDrain' = pDrain /\ pLog' = pLog
  BY DEF ShellTypes
<1>2. /\ pTask' \in [Task -> Process!TaskState] /\ pTask'[t].status = "ended"
      /\ \A u \in Task : pTask'[u].notified = pTask[u].notified
      /\ \A u \in Task \ {t} : pTask'[u] = pTask[u]
  BY <1>1 DEF Process!TaskState
<1>3. ShellTypes'
  BY <1>1, <1>2 DEF ShellTypes
<1>4. ShellTurn'
  BY <1>1 DEF ShellTurn
<1>5. ShellFlags' /\ ShellEnded'
  <2>1. pBatch' = pBatch
    OBVIOUS
  <2>2. pBatch \cup pTurn.batch \cup pTurn.marks \subseteq Task
    BY DEF ShellTypes, ShellTurns
  <2> QED  BY <1>1, <1>2, <2>1, <2>2 DEF ShellFlags, ShellEnded
<1>6. ShellTold'
  <2>1. Notified' = Notified
    BY <1>2 DEF Notified
  <2> QED  BY <2>1, ToldStays
<1> QED  BY <1>3, <1>4, <1>5, <1>6

\* Its end is on disk.
LEMMA SettleKeeps ==
  ASSUME ShellInv, NEW t \in Task, Process!Settle(t)
  PROVE  ShellInv'
<1> USE DEF Process!Settle, Process!turnVars, Process!historyVars, ShellInv
<1>1. /\ pTask' = pTask /\ pFile' = [pFile EXCEPT ![t] = pTask[t]] /\ pSettling' = pSettling \ {t}
      /\ pTurn' = pTurn /\ pLog' = pLog
  OBVIOUS
<1>2. /\ pDrain' \in {"idle", "sleeping", "collecting", "delivering", "delivered"}
      /\ pRerun' \in BOOLEAN /\ pBatch' = pBatch
      /\ (pDrain' = "delivered") <=> (pDrain = "delivered")
  BY DrainFacts DEF Process!drainVars, ShellTypes
<1>3. ShellTypes'
  BY <1>1, <1>2 DEF ShellTypes
<1>4. ShellTurn'
  BY <1>1, <1>2 DEF ShellTurn
<1>5. ShellFlags' /\ ShellEnded'
  BY <1>1, <1>2 DEF ShellFlags, ShellEnded, ShellTypes
<1>6. ShellTold'
  BY <1>1, ToldStays DEF Notified
<1> QED  BY <1>3, <1>4, <1>5, <1>6

\* A record at the tail.
LEMMA TailGrows ==
  ASSUME ShellTypes, NEW ids \in SUBSET Task,
         NEW kind \in {"prompt", "packet", "snapshot", "completed", "tool", "reply", "failed"},
         pLog' = Process!Appended(kind, ids)
  PROVE  ShellGrows(pLog, pLog', kind, ids, Len(pLog))
<1>1. pLog' = Append(pLog, Process!Record(kind, ids, Len(pLog)))
  BY DEF Process!Appended
<1>2. pLog \in Seq(ShellRecords) /\ Tree(pLog) /\ Len(pLog) \in 0..Len(pLog)
  BY ShellFacts DEF ShellTypes
<1>3. ShellGrows(pLog, Append(pLog, Process!Record(kind, ids, Len(pLog))), kind, ids, Len(pLog))
  BY <1>2, AppendShows
<1> QED  BY <1>1, <1>3

\* The file has grown by a record below k.
LEMMA GrownFacts ==
  ASSUME ShellTypes, NEW ids \in SUBSET Task, NEW k \in 0..Len(pLog), NEW kind,
         ShellGrows(pLog, pLog', kind, ids, k)
  PROVE  /\ pLog' \in Seq(ShellRecords) /\ Tree(pLog') /\ Len(pLog') = Len(pLog) + 1
         /\ 0..Len(pLog) \subseteq 0..Len(pLog') /\ 1..Len(pLog) \subseteq 1..Len(pLog')
         /\ pRewindPoint \subseteq 0..Len(pLog') /\ pTurn.parent \subseteq 0..Len(pLog')
         /\ \A i \in 1..Len(pLog) : pLog'[i] = pLog[i]
         /\ \A h \in 0..Len(pLog) : TasksShown(pLog', h) = TasksShown(pLog, h)
         /\ pLog'[Len(pLog) + 1].parent = k
         /\ kind # "failed" =>
              TasksShown(pLog', Len(pLog')) = TasksShown(pLog, k) \cup (IF kind = "packet" THEN ids ELSE {})
         /\ Process!Visible(pLog') = TasksShown(pLog', Len(pLog'))
<1>1. Len(pLog) \in Nat /\ pRewindPoint \subseteq 0..Len(pLog) /\ pTurn.parent \subseteq 0..Len(pLog)
  BY ShellFacts DEF ShellTypes
<1>2. Process!Visible(pLog') = TasksShown(pLog', Len(pLog'))
  BY ShellNames
<1> QED  BY <1>1, <1>2 DEF ShellGrows

\* A record at the tail, not a marker: nothing told is lost by it, nor is what the
\* turn's input was below.
LEMMA ToldGrows ==
  ASSUME ShellInv, NEW ids \in SUBSET Task, NEW kind, kind # "failed",
         ShellGrows(pLog, pLog', kind, ids, Len(pLog)), pAnswered \subseteq pAnswered', pOrphaned \subseteq pOrphaned'
  PROVE  /\ TasksShown(pLog, Len(pLog)) \subseteq TasksShown(pLog', Len(pLog'))
         /\ Told \subseteq Told'
         /\ pTurn.kind = "prompt" /\ pTurn.stage # "input" =>
              /\ pTurn.input \in 1..Len(pLog')
              /\ TasksShown(pLog', pLog'[pTurn.input].parent) \subseteq TasksShown(pLog', Len(pLog'))
<1>1. ShellTypes /\ ShellTold /\ Len(pLog) \in 0..Len(pLog)
      /\ \A i \in 1..Len(pLog) : pLog[i].parent \in 0..Len(pLog)
  BY ShellFacts DEF ShellInv
<1>2. TasksShown(pLog, Len(pLog)) \subseteq TasksShown(pLog', Len(pLog'))
  <2>1. TasksShown(pLog', Len(pLog')) = TasksShown(pLog, Len(pLog)) \cup (IF kind = "packet" THEN ids ELSE {})
    BY DEF ShellGrows
  <2> QED  BY <2>1
<1>3. /\ \A i \in 1..Len(pLog) : pLog'[i] = pLog[i]
      /\ \A h \in 0..Len(pLog) : TasksShown(pLog', h) = TasksShown(pLog, h)
      /\ 1..Len(pLog) \subseteq 1..Len(pLog')
  BY <1>1, GrownFacts
<1>4. ASSUME pTurn.kind = "prompt" /\ pTurn.stage # "input"
      PROVE  /\ pTurn.input \in 1..Len(pLog')
             /\ TasksShown(pLog', pLog'[pTurn.input].parent) \subseteq TasksShown(pLog', Len(pLog'))
  <2>1. /\ pTurn.input \in 1..Len(pLog)
        /\ TasksShown(pLog, pLog[pTurn.input].parent) \subseteq TasksShown(pLog, Len(pLog))
    BY <1>1, <1>4 DEF ShellTold
  <2>2. pLog'[pTurn.input].parent = pLog[pTurn.input].parent /\ pLog[pTurn.input].parent \in 0..Len(pLog)
    BY <1>1, <1>3, <2>1
  <2> QED  BY <1>2, <1>3, <2>1, <2>2
<1> QED  BY <1>2, <1>4 DEF Told

\* The record that a task has ended.
LEMMA AppendCompletedKeeps ==
  ASSUME ShellInv, NEW t \in Task, Process!AppendCompleted(t)
  PROVE  ShellInv'
<1>1. /\ ShellTypes /\ pLog' = Process!Appended("completed", {t}) /\ pTracked' = pTracked \ {t}
      /\ pTask' = pTask /\ pFile' = pFile /\ pSettling' = pSettling /\ pTurn' = pTurn
      /\ pDrain' = pDrain /\ pRerun' = pRerun /\ pBatch' = pBatch /\ pPaused' = pPaused
      /\ pRewindPoint' = pRewindPoint /\ pConversation' = pConversation
      /\ pAnswered' = pAnswered /\ pOrphaned' = pOrphaned
  BY DEF Process!AppendCompleted, Process!drainVars, Process!turnVars, Process!historyVars, ShellInv
<1>2. ShellGrows(pLog, pLog', "completed", {t}, Len(pLog))
  BY <1>1, TailGrows
<1>3. ShellTypes'
  BY <1>1, <1>2, GrownFacts, ShellFacts DEF ShellTypes
<1>4. ShellTurn' /\ ShellFlags' /\ ShellEnded'
  BY <1>1 DEF ShellInv, ShellTurn, ShellFlags, ShellEnded
<1>5. ShellTold'
  BY <1>1, <1>2, ToldGrows DEF ShellInv, ShellTold, Notified, InRequest
<1> QED  BY <1>3, <1>4, <1>5 DEF ShellInv

\* The scheduler's own steps.
LEMMA DrainKeeps ==
  ASSUME ShellInv, Process!Wake \/ Process!Collect
  PROVE  ShellInv'
<1>1. /\ pTask' = pTask /\ pFile' = pFile /\ pSettling' = pSettling /\ pTracked' = pTracked
      /\ pTurn' = pTurn /\ pPaused' = pPaused /\ pRewindPoint' = pRewindPoint
      /\ pConversation' = pConversation /\ pLog' = pLog /\ pAnswered' = pAnswered /\ pOrphaned' = pOrphaned
  BY DEF Process!Wake, Process!Collect, Process!taskVars, Process!turnVars, Process!historyVars
<1>2. /\ pDrain # "delivered"
      /\ pDrain' \in {"idle", "sleeping", "collecting", "delivering"} /\ pRerun' \in BOOLEAN
      /\ pBatch' \subseteq Task /\ \A t \in pBatch' : t \in pBatch \/ pTask[t].status = "ended"
  <2>1. ShellTypes
    BY DEF ShellInv
  <2>2. pRerun \in BOOLEAN /\ pBatch \subseteq Task
    BY <2>1 DEF ShellTypes
  <2>3. Process!Owed \subseteq Task /\ \A t \in Process!Owed : pTask[t].status = "ended"
    BY DEF Process!Owed
  <2>4. Process!EndDrain(pRerun) => pDrain' \in {"idle", "sleeping"} /\ pRerun' \in BOOLEAN /\ pBatch' = {}
    BY <2>1, <2>2, DrainFacts
  <2> QED  BY <2>2, <2>3, <2>4 DEF Process!Wake, Process!Collect
<1>3. ShellTypes' /\ ShellTurn' /\ ShellFlags' /\ ShellEnded'
  BY <1>1, <1>2 DEF ShellInv, ShellTypes, ShellTurn, ShellFlags, ShellEnded
<1>4. ShellTold'
  BY <1>1, ToldStays DEF Notified
<1> QED  BY <1>3, <1>4 DEF ShellInv

\* A delivery takes busy, or is put off.
LEMMA DeliverKeeps ==
  ASSUME ShellInv, Process!Deliver
  PROVE  ShellInv'
<1>1. /\ pTask' = pTask /\ pFile' = pFile /\ pSettling' = pSettling /\ pTracked' = pTracked
      /\ pPaused' = pPaused /\ pRewindPoint' = pRewindPoint /\ pDrain = "delivering"
      /\ pConversation' = pConversation /\ pLog' = pLog /\ pAnswered' = pAnswered /\ pOrphaned' = pOrphaned
  BY DEF Process!Deliver, Process!taskVars, Process!historyVars
<1>2. ShellTypes /\ ShellTold /\ pTurn.kind # "delivery" /\ pRerun \in BOOLEAN /\ pBatch \in SUBSET Task
  BY <1>1 DEF ShellInv, ShellTypes, ShellTurn
<1>3. CASE Process!Busy
  <2>1. pTurn' = pTurn /\ pDrain' \in {"idle", "sleeping"} /\ pRerun' \in BOOLEAN /\ pBatch' = {}
    BY <1>2, <1>3, DrainFacts DEF Process!Deliver
  <2>2. ShellTypes' /\ ShellTurn' /\ ShellFlags' /\ ShellEnded'
    BY <1>1, <1>2, <2>1 DEF ShellInv, ShellTypes, ShellTurn, ShellFlags, ShellEnded
  <2>3. ShellTold'
    BY <1>1, <2>1, ToldStays DEF Notified
  <2> QED  BY <2>2, <2>3 DEF ShellInv
<1>4. CASE ~Process!Busy
  <2>1. pTurn = Process!NoTurn
    BY <1>4 DEF Process!Busy
  <2>2. /\ pTurn' = [Process!NoTurn EXCEPT !.kind = "delivery", !.stage = "input", !.batch = pBatch,
                                          !.carries = Process!Add(pConversation, pBatch)]
        /\ pDrain' = "delivered" /\ pRerun' = pRerun /\ pBatch' = pBatch
    BY <1>4 DEF Process!Deliver
  <2>3. /\ Process!Add(pConversation, pBatch) \in [Task -> Nat]
        /\ pBatch \subseteq Process!CarriedBy(Process!Add(pConversation, pBatch))
    BY <1>2, AddCarries DEF ShellTypes
  <2>4. /\ pTurn' \in ShellTurns /\ pTurn'.kind = "delivery" /\ pTurn'.stage = "input"
        /\ pTurn'.batch = pBatch /\ pTurn'.marks = {} /\ pTurn'.parent = {}
        /\ pTurn'.carries = Process!Add(pConversation, pBatch)
    BY <1>2, <2>2, <2>3 DEF ShellTurns, Process!NoTurn
  <2>5. ShellTypes'
    BY <1>1, <1>2, <2>2, <2>4 DEF ShellTypes
  <2>6. ShellTurn' /\ ShellFlags' /\ ShellEnded'
    BY <1>1, <2>2, <2>4 DEF ShellInv, ShellTurn, ShellFlags, ShellEnded
  <2>7. ShellTold'
    <3>1. Notified' = Notified /\ Notified \subseteq Told /\ Told' = Told
      BY <1>1, <1>2, <2>1, ShellFacts DEF ShellTold, InRequest, Notified, Told
    <3> QED  BY <2>3, <2>4, <3>1 DEF ShellTold, InRequest
  <2> QED  BY <2>5, <2>6, <2>7 DEF ShellInv
<1> QED  BY <1>3, <1>4

\* The user's prompt takes busy.
LEMMA SubmitPromptKeeps ==
  ASSUME ShellInv, Process!SubmitPrompt
  PROVE  ShellInv'
<1>1. /\ pTask' = pTask /\ pFile' = pFile /\ pSettling' = pSettling /\ pTracked' = pTracked
      /\ pPaused' = FALSE /\ pRewindPoint' = {} /\ pDrain' = pDrain /\ pRerun' = pRerun /\ pBatch' = pBatch
      /\ pConversation' = pConversation /\ pLog' = pLog /\ pAnswered' = pAnswered /\ pOrphaned' = pOrphaned
      /\ pTurn = Process!NoTurn
      /\ pTurn' = [Process!NoTurn EXCEPT !.kind = "prompt", !.stage = "input", !.parent = pRewindPoint,
                                         !.carries = pConversation]
  BY DEF Process!SubmitPrompt, Process!taskVars, Process!historyVars, Process!drainVars, Process!Busy
<1>2. ShellTypes /\ ShellTold
  BY DEF ShellInv
<1>3. /\ pTurn' \in ShellTurns /\ pTurn'.kind = "prompt" /\ pTurn'.stage = "input"
      /\ pTurn'.batch = {} /\ pTurn'.marks = {} /\ pTurn'.parent = pRewindPoint /\ pTurn'.carries = pConversation
      /\ pTurn.kind = "none"
  <2>1. pRewindPoint \in SUBSET Nat /\ pConversation \in [Task -> Nat]
    BY <1>2, ShellFacts DEF ShellTypes
  <2> QED  BY <1>1, <2>1 DEF ShellTurns, Process!NoTurn
<1>4. ShellTypes'
  BY <1>1, <1>2, <1>3 DEF ShellTypes
<1>5. ShellTurn' /\ ShellFlags' /\ ShellEnded'
  BY <1>1, <1>3 DEF ShellInv, ShellTurn, ShellFlags, ShellEnded
<1>6. ShellTold'
  <2>1. Notified' = Notified /\ Notified \subseteq Told /\ Told' = Told
    BY <1>1, <1>2, ShellFacts DEF ShellTold, InRequest, Notified, Told
  <2> QED  BY <1>3, <2>1 DEF ShellTold, InRequest
<1> QED  BY <1>4, <1>5, <1>6 DEF ShellInv

\* The input of a turn, a prompt or a packet, is appended, or found.
LEMMA ExactWithin ==
  ASSUME ShellTypes, NEW ids
  PROVE  /\ Process!ExactPackets(ids) \subseteq 1..Len(pLog)
         /\ Process!ExactPackets(ids) # {} => Process!Max(Process!ExactPackets(ids)) \in 1..Len(pLog)
<1>1. Tree(pLog) /\ Len(pLog) \in 0..Len(pLog) /\ Len(pLog) \in Nat
  BY ShellFacts DEF ShellTypes
<1>2. Range(Branch(pLog, Len(pLog))) \subseteq 1..Len(pLog)
  BY <1>1, BranchSteps
<1>3. Process!Range(Process!ActiveBranch(pLog)) = Range(Branch(pLog, Len(pLog)))
  BY ProcessNames, Zenon DEF Process!ActiveBranch
<1>4. Process!ExactPackets(ids) \subseteq 1..Len(pLog)
  BY <1>2, <1>3 DEF Process!ExactPackets, Process!ActivePackets
<1>5. ASSUME Process!ExactPackets(ids) # {} PROVE Process!Max(Process!ExactPackets(ids)) \in 1..Len(pLog)
  <2>1. PICK S : S = Process!ExactPackets(ids)
    OBVIOUS
  <2>2. S \subseteq 0..Len(pLog) /\ S # {} /\ S \subseteq 1..Len(pLog)
    BY <1>1, <1>4, <1>5, <2>1
  <2>3. Max(S) \in S
    BY <1>1, <2>2, MaxWithin
  <2> QED  BY <2>1, <2>2, <2>3, ProcessNames
<1> QED  BY <1>4, <1>5

LEMMA AppendInputKeeps ==
  ASSUME ShellInv, Process!AppendInput
  PROVE  ShellInv'
<1>. DEFINE exact == IF pTurn.kind = "delivery" THEN Process!ExactPackets(pTurn.batch) ELSE {}
            kind == IF pTurn.kind = "delivery" THEN "packet" ELSE "prompt"
            k == IF pTurn.parent = {} THEN Len(pLog) ELSE Process!Max(pTurn.parent)
            input == IF exact = {} THEN Len(pLog) + 1 ELSE Process!Max(exact)
<1>1. /\ pTask' = pTask /\ pFile' = pFile /\ pSettling' = pSettling /\ pTracked' = pTracked
      /\ pPaused' = pPaused /\ pRewindPoint' = pRewindPoint
      /\ pDrain' = pDrain /\ pRerun' = pRerun /\ pBatch' = pBatch
      /\ pConversation' = pConversation /\ pAnswered' = pAnswered
      /\ pTurn.stage = "input"
      /\ pOrphaned' = pOrphaned \cup ((Process!Visible(pLog) \ pAnswered) \ Process!Visible(pLog'))
  BY DEF Process!AppendInput, Process!taskVars, Process!drainVars
<1>2. /\ pLog' = IF exact = {} THEN Append(pLog, Process!Record(kind, pTurn.batch, k)) ELSE pLog
      /\ pTurn' = [pTurn EXCEPT !.stage = "snapshot", !.parent = {}, !.input = input]
  BY Zenon DEF Process!AppendInput
<1>3. ShellTypes /\ ShellTurn /\ ShellTold /\ pTurn \in ShellTurns /\ pTurn.kind \in {"prompt", "delivery"}
  BY <1>1 DEF ShellInv, ShellTypes, ShellTurn, ShellTurns, Process!NoTurn
<1>4. Len(pLog) \in Nat /\ k \in 0..Len(pLog)
  <2>1. Len(pLog) \in Nat /\ pTurn.parent \subseteq 0..Len(pLog)
    BY <1>3, ShellFacts DEF ShellTypes
  <2>2. ASSUME pTurn.parent # {} PROVE Process!Max(pTurn.parent) \in 0..Len(pLog)
    <3>1. Max(pTurn.parent) \in pTurn.parent
      BY <2>1, <2>2, MaxWithin
    <3> QED  BY <2>1, <3>1, ProcessNames
  <2> QED  BY <2>1, <2>2
<1>5. exact # {} => input \in 1..Len(pLog) /\ pTurn.kind = "delivery"
  BY <1>3, ExactWithin
<1>. HIDE DEF exact, k
<1>6. input \in Nat
  BY <1>4, <1>5
<1>7. /\ pTurn' \in ShellTurns /\ pTurn'.stage = "snapshot" /\ pTurn'.parent = {} /\ pTurn'.input = input
      /\ pTurn'.kind = pTurn.kind /\ pTurn'.batch = pTurn.batch /\ pTurn'.marks = pTurn.marks
      /\ pTurn'.carries = pTurn.carries
  <2>. HIDE DEF input
  <2> QED  BY <1>2, <1>3, <1>6 DEF ShellTurns
<1>8. exact = {} => ShellGrows(pLog, pLog', kind, pTurn.batch, k)
  <2>1. pTurn.batch \in SUBSET Task /\ pLog \in Seq(ShellRecords) /\ Tree(pLog)
    BY <1>3 DEF ShellTypes, ShellTurns
  <2>2. kind \in {"prompt", "packet", "snapshot", "completed", "tool", "reply", "failed"}
    OBVIOUS
  <2>. HIDE DEF kind
  <2>3. ShellGrows(pLog, Append(pLog, Process!Record(kind, pTurn.batch, k)), kind, pTurn.batch, k)
    BY <1>4, <2>1, <2>2, AppendShows
  <2> QED  BY <1>2, <2>3
<1>9. /\ exact = {} => pLog' \in Seq(ShellRecords) /\ Tree(pLog') /\ pRewindPoint \subseteq 0..Len(pLog')
      /\ Process!Visible(pLog) = TasksShown(pLog, Len(pLog))
      /\ Process!Visible(pLog') = TasksShown(pLog', Len(pLog'))
  <2>1. pTurn.batch \in SUBSET Task
    BY <1>3 DEF ShellTurns
  <2> QED  BY <1>3, <1>4, <1>8, <2>1, GrownFacts, ShellNames
<1>10. ShellTypes'
  <2>1. CASE exact = {}
    BY <1>1, <1>3, <1>7, <1>9, <2>1 DEF ShellTypes
  <2>2. CASE exact # {}
    BY <1>1, <1>2, <1>3, <1>7, <2>2 DEF ShellTypes
  <2> QED  BY <2>1, <2>2
<1>11. ShellTurn' /\ ShellFlags' /\ ShellEnded'
  BY <1>1, <1>3, <1>7 DEF ShellInv, ShellTurn, ShellFlags, ShellEnded
<1>12. Told \subseteq Told'
  BY <1>1, <1>9 DEF Told
<1>13. ASSUME pTurn.kind = "prompt"
       PROVE  /\ input \in 1..Len(pLog')
              /\ TasksShown(pLog', pLog'[input].parent) \subseteq TasksShown(pLog', Len(pLog'))
  <2>1. exact = {} /\ input = Len(pLog) + 1 /\ kind = "prompt" /\ pTurn.batch = {}
    BY <1>3, <1>13 DEF exact, ShellTurn
  <2>2. ShellGrows(pLog, pLog', "prompt", {}, k)
    BY <1>8, <2>1
  <2>3. /\ Len(pLog') = Len(pLog) + 1 /\ pLog'[Len(pLog) + 1].parent = k
        /\ TasksShown(pLog', k) = TasksShown(pLog, k)
        /\ TasksShown(pLog', Len(pLog')) = TasksShown(pLog, k)
    BY <1>4, <2>2 DEF ShellGrows
  <2> QED  BY <1>4, <2>1, <2>3
<1>14. ShellTold'
  <2>1. Notified' = Notified /\ InRequest' = InRequest /\ pTurn.stage = "input"
    BY <1>1, <1>7 DEF Notified, InRequest
  <2>2. Notified \subseteq Told' \cup InRequest
    BY <1>3, <1>12 DEF ShellTold
  <2> QED  BY <1>3, <1>7, <1>13, <2>1, <2>2 DEF ShellTold
<1> QED  BY <1>10, <1>11, <1>14 DEF ShellInv

\* The file checkpoint of the turn.
LEMMA SnapshotKeeps ==
  ASSUME ShellInv, Process!Snapshot
  PROVE  ShellInv'
<1>1. /\ pTask' = pTask /\ pFile' = pFile /\ pSettling' = pSettling /\ pTracked' = pTracked
      /\ pPaused' = pPaused /\ pRewindPoint' = pRewindPoint
      /\ pDrain' = pDrain /\ pRerun' = pRerun /\ pBatch' = pBatch
      /\ pConversation' = pConversation /\ pAnswered' = pAnswered /\ pOrphaned' = pOrphaned
      /\ pTurn.stage = "snapshot" /\ pTurn' = [pTurn EXCEPT !.stage = "boundary"]
      /\ pLog' = IF Checkpointing THEN Process!Appended("snapshot", {}) ELSE pLog
  BY DEF Process!Snapshot, Process!taskVars, Process!drainVars, Process!historyVars
<1>2. ShellTypes /\ ShellTurn /\ ShellTold /\ pTurn \in ShellTurns /\ pTurn.kind # "none"
  BY <1>1 DEF ShellInv, ShellTypes, ShellTurn, Process!NoTurn
<1>3. /\ pTurn' \in ShellTurns /\ pTurn'.stage = "boundary" /\ pTurn'.parent = pTurn.parent
      /\ pTurn'.input = pTurn.input
      /\ pTurn'.kind = pTurn.kind /\ pTurn'.batch = pTurn.batch /\ pTurn'.marks = pTurn.marks
      /\ pTurn'.carries = pTurn.carries
  BY <1>1, <1>2 DEF ShellTurns
<1>4. ShellTurn' /\ ShellFlags' /\ ShellEnded'
  BY <1>1, <1>2, <1>3 DEF ShellInv, ShellTurn, ShellFlags, ShellEnded
<1>5. Notified' = Notified /\ InRequest' = InRequest
  BY <1>1, <1>3 DEF Notified, InRequest
<1>6. CASE Checkpointing
  <2>1. ShellGrows(pLog, pLog', "snapshot", {}, Len(pLog))
    BY <1>1, <1>2, <1>6, TailGrows
  <2>2. ShellTypes'
    BY <1>1, <1>2, <1>3, <2>1, GrownFacts, ShellFacts DEF ShellTypes
  <2>3. ShellTold'
    BY <1>1, <1>2, <1>3, <1>5, <2>1, ToldGrows DEF ShellTold
  <2> QED  BY <1>4, <2>2, <2>3 DEF ShellInv
<1>7. CASE ~Checkpointing
  <2>1. ShellTypes' /\ Told' = Told
    BY <1>1, <1>2, <1>3, <1>7 DEF ShellTypes, Told
  <2>2. ShellTold'
    BY <1>1, <1>2, <1>3, <1>5, <1>7, <2>1 DEF ShellTold
  <2> QED  BY <1>4, <2>1, <2>2 DEF ShellInv
<1> QED  BY <1>6, <1>7

\* The boundary before a request: what is owed goes into the file and the request.
LEMMA MaterializeKeeps ==
  ASSUME ShellInv, Process!Materialize
  PROVE  ShellInv'
<1>. DEFINE undelivered == Process!Owed \ Process!Covered
            needsWire == undelivered \cup (Process!Owed \ Process!Visible(pLog))
<1>1. /\ pTask' = pTask /\ pFile' = pFile /\ pSettling' = pSettling /\ pTracked' = pTracked
      /\ pPaused' = pPaused /\ pRewindPoint' = pRewindPoint
      /\ pDrain' = pDrain /\ pRerun' = pRerun /\ pBatch' = pBatch
      /\ pConversation' = pConversation /\ pAnswered' = pAnswered /\ pOrphaned' = pOrphaned
      /\ pTurn.stage = "boundary"
      /\ pTurn' = [pTurn EXCEPT !.stage = IF Process!Owed = {} THEN "provider" ELSE "marking",
                                !.marks = Process!Owed, !.carries = Process!Add(@, needsWire)]
      /\ pLog' = IF undelivered = {} THEN pLog ELSE Process!Appended("packet", needsWire)
  BY DEF Process!Materialize, Process!taskVars, Process!drainVars, Process!historyVars
<1>2. /\ ShellTypes /\ ShellTurn /\ ShellTold /\ pTurn \in ShellTurns /\ pTurn.kind # "none"
      /\ Process!Visible(pLog) = TasksShown(pLog, Len(pLog))
  BY <1>1, ShellFacts DEF ShellInv, ShellTypes, ShellTurn, Process!NoTurn
<1>3. Process!Owed \in SUBSET Task /\ needsWire \in SUBSET Task
      /\ Process!Owed \subseteq needsWire \cup TasksShown(pLog, Len(pLog))
  BY <1>2 DEF Process!Owed
<1>. HIDE DEF undelivered, needsWire
<1>4. /\ Process!Add(pTurn.carries, needsWire) \in [Task -> Nat]
      /\ Process!CarriedBy(Process!Add(pTurn.carries, needsWire)) = InRequest \cup needsWire
  BY <1>2, <1>3, AddCarries DEF ShellTurns, InRequest
<1>5. /\ pTurn' \in ShellTurns /\ pTurn'.stage \in {"provider", "marking"} /\ pTurn'.parent = pTurn.parent
      /\ pTurn'.input = pTurn.input /\ pTurn'.marks = Process!Owed
      /\ pTurn'.kind = pTurn.kind /\ pTurn'.batch = pTurn.batch
      /\ pTurn'.carries = Process!Add(pTurn.carries, needsWire)
  BY <1>1, <1>2, <1>3, <1>4 DEF ShellTurns
<1>6. ShellTurn' /\ ShellFlags' /\ ShellEnded'
  BY <1>1, <1>2, <1>5 DEF ShellInv, ShellTurn, ShellFlags, ShellEnded, Process!Owed
<1>7. Notified' = Notified /\ InRequest' = InRequest \cup needsWire
  BY <1>1, <1>4, <1>5 DEF Notified, InRequest
<1>8. ASSUME undelivered # {} PROVE ShellGrows(pLog, pLog', "packet", needsWire, Len(pLog))
  BY <1>1, <1>2, <1>3, <1>8, TailGrows
<1>9. ShellTypes'
  <2>1. CASE undelivered = {}
    BY <1>1, <1>2, <1>5, <2>1 DEF ShellTypes
  <2>2. CASE undelivered # {}
    BY <1>1, <1>2, <1>3, <1>5, <1>8, <2>2, GrownFacts, ShellFacts DEF ShellTypes
  <2> QED  BY <2>1, <2>2
<1>10. /\ TasksShown(pLog, Len(pLog)) \subseteq TasksShown(pLog', Len(pLog')) /\ Told \subseteq Told'
       /\ pTurn.kind = "prompt" /\ pTurn.stage # "input" =>
            /\ pTurn.input \in 1..Len(pLog')
            /\ TasksShown(pLog', pLog'[pTurn.input].parent) \subseteq TasksShown(pLog', Len(pLog'))
  <2>1. CASE undelivered = {}
    BY <1>1, <1>2, <2>1 DEF ShellTold, Told
  <2>2. CASE undelivered # {}
    BY <1>1, <1>3, <1>8, <2>2, ToldGrows
  <2> QED  BY <2>1, <2>2
<1>11. ShellTold'
  <2>1. Process!Owed \subseteq Told' \cup InRequest'
    BY <1>3, <1>7, <1>10 DEF Told
  <2> QED  BY <1>1, <1>2, <1>5, <1>7, <1>10, <2>1 DEF ShellTold
<1> QED  BY <1>6, <1>9, <1>11 DEF ShellInv

\* A flag, in memory and on disk.
LEMMA FlagFacts ==
  ASSUME ShellInv, NEW t \in Task, NEW value \in BOOLEAN, Process!SetNotified(t, value), pSettling' = pSettling,
         value => pTask[t].status = "ended"
  PROVE  /\ pTask' \in [Task -> Process!TaskState] /\ pFile' \in [Task -> Process!TaskState]
         /\ ShellFlags' /\ \A u \in Task : pTask'[u].status = pTask[u].status
         /\ Notified' = IF value THEN Notified \cup {t} ELSE Notified \ {t}
<1>1. /\ pTask \in [Task -> Process!TaskState] /\ pFile \in [Task -> Process!TaskState] /\ ShellFlags
      /\ pTask' = [pTask EXCEPT ![t].notified = value] /\ pFile' = [pFile EXCEPT ![t] = pTask'[t]]
  BY DEF ShellInv, ShellTypes, Process!SetNotified
<1>2. /\ pTask' \in [Task -> Process!TaskState] /\ pTask'[t].notified = value /\ pTask'[t].status = pTask[t].status
      /\ \A u \in Task \ {t} : pTask'[u] = pTask[u]
      /\ pTask'[t] \in Process!TaskState
  BY <1>1 DEF Process!TaskState
<1>3. /\ pFile' \in [Task -> Process!TaskState] /\ pFile'[t] = pTask'[t]
      /\ \A u \in Task \ {t} : pFile'[u] = pFile[u]
  BY <1>1, <1>2
<1>4. ShellFlags'
  BY <1>1, <1>2, <1>3 DEF ShellFlags
<1>5. Notified' = IF value THEN Notified \cup {t} ELSE Notified \ {t}
  BY <1>2 DEF Notified
<1> QED  BY <1>2, <1>3, <1>4, <1>5

\* The boundary marks what its request carries.
LEMMA MarkNotifiedKeeps ==
  ASSUME ShellInv, NEW t \in Task, Process!MarkNotified(t)
  PROVE  ShellInv'
<1>1. /\ pSettling' = pSettling /\ pTracked' = pTracked
      /\ pPaused' = pPaused /\ pRewindPoint' = pRewindPoint
      /\ pDrain' = pDrain /\ pRerun' = pRerun /\ pBatch' = pBatch
      /\ pConversation' = pConversation /\ pAnswered' = pAnswered /\ pOrphaned' = pOrphaned
      /\ pLog' = pLog /\ pTurn.stage = "marking" /\ t \in pTurn.marks /\ Process!SetNotified(t, TRUE)
      /\ pTurn' = [pTurn EXCEPT !.stage = IF pTurn.marks = {t} THEN "provider" ELSE @, !.marks = @ \ {t}]
  BY DEF Process!MarkNotified, Process!drainVars, Process!historyVars
<1>2. ShellTypes /\ ShellTurn /\ ShellTold /\ pTurn \in ShellTurns /\ pTurn.kind # "none"
  BY <1>1 DEF ShellInv, ShellTypes, ShellTurn, Process!NoTurn
<1>3. /\ pTask' \in [Task -> Process!TaskState] /\ pFile' \in [Task -> Process!TaskState]
      /\ ShellFlags' /\ Notified' = Notified \cup {t} /\ \A u \in Task : pTask'[u].status = pTask[u].status
  <2>1. pTask[t].status = "ended"
    BY <1>1 DEF ShellInv, ShellEnded
  <2> QED  BY <1>1, <2>1, FlagFacts
<1>4. /\ pTurn' \in ShellTurns /\ pTurn'.stage \in {"marking", "provider"} /\ pTurn'.parent = pTurn.parent
      /\ pTurn'.input = pTurn.input /\ pTurn'.marks = pTurn.marks \ {t}
      /\ pTurn'.kind = pTurn.kind /\ pTurn'.batch = pTurn.batch /\ pTurn'.carries = pTurn.carries
  BY <1>1, <1>2 DEF ShellTurns
<1>5. ShellTypes'
  BY <1>1, <1>2, <1>3, <1>4 DEF ShellTypes
<1>6. ShellTurn' /\ ShellEnded'
  BY <1>1, <1>2, <1>3, <1>4 DEF ShellInv, ShellTypes, ShellTurns, ShellTurn, ShellEnded
<1>7. Told' = Told /\ InRequest' = InRequest
  BY <1>1, <1>4 DEF Told, InRequest
<1>8. ShellTold'
  BY <1>1, <1>2, <1>3, <1>4, <1>7 DEF ShellTold
<1> QED  BY <1>3, <1>5, <1>6, <1>8 DEF ShellInv

\* A response with tool calls, some of which start tasks.
LEMMA ToolRoundKeeps ==
  ASSUME ShellInv, NEW started \in SUBSET {t \in Task : pTask[t] = Process!Absent}, Process!ToolRound(started)
  PROVE  ShellInv'
<1>1. /\ pSettling' = pSettling /\ pTracked' = pTracked \cup started
      /\ pTask' = [t \in Task |-> IF t \in started THEN [Process!Absent EXCEPT !.status = "running"] ELSE pTask[t]]
      /\ pFile' = [t \in Task |-> IF t \in started THEN pTask'[t] ELSE pFile[t]]
      /\ pPaused' = pPaused /\ pRewindPoint' = pRewindPoint
      /\ pDrain' = pDrain /\ pRerun' = pRerun /\ pBatch' = pBatch
      /\ pConversation' = pConversation /\ pOrphaned' = pOrphaned
      /\ pAnswered' = pAnswered \cup InRequest
      /\ pLog' = Process!Appended("tool", {}) /\ pTurn.stage = "provider"
      /\ pTurn' = [pTurn EXCEPT !.stage = "boundary", !.saw = TRUE]
  BY DEF Process!ToolRound, Process!drainVars, InRequest
<1>2. /\ ShellTypes /\ ShellTurn /\ ShellFlags /\ ShellTold /\ ShellEnded /\ pTurn \in ShellTurns
      /\ pTurn.kind # "none"
  BY <1>1 DEF ShellInv, ShellTypes, ShellTurn, Process!NoTurn
<1>3. /\ pTurn' \in ShellTurns /\ pTurn'.stage = "boundary" /\ pTurn'.parent = pTurn.parent
      /\ pTurn'.input = pTurn.input /\ pTurn'.marks = pTurn.marks
      /\ pTurn'.kind = pTurn.kind /\ pTurn'.batch = pTurn.batch /\ pTurn'.carries = pTurn.carries
  BY <1>1, <1>2 DEF ShellTurns
<1>4. /\ started \subseteq Task
      /\ \A t \in started : /\ pTask[t].status = "absent" /\ ~pTask[t].notified
                            /\ pTask'[t].status = "running" /\ ~pTask'[t].notified
                            /\ pTask'[t] \in Process!TaskState /\ pFile'[t] = pTask'[t]
      /\ \A t \in Task \ started : pTask'[t] = pTask[t] /\ pFile'[t] = pFile[t]
  <2>1. started \subseteq Task /\ \A t \in started : pTask[t] = Process!Absent
    OBVIOUS
  <2>2. Process!Absent.status = "absent" /\ Process!Absent.notified = FALSE
    BY DEF Process!Absent
  <2>3. \A t \in started : pTask'[t] = [status |-> "running", notified |-> FALSE] /\ pFile'[t] = pTask'[t]
    BY <1>1, <2>1 DEF Process!Absent
  <2>4. \A t \in started : /\ pTask'[t].status = "running" /\ ~pTask'[t].notified
                            /\ pTask'[t] \in Process!TaskState
    <3>1. PICK running : running = [status |-> "running", notified |-> FALSE]
      OBVIOUS
    <3>2. running.status = "running" /\ ~running.notified /\ running \in Process!TaskState
      BY <3>1 DEF Process!TaskState
    <3> QED  BY <2>3, <3>1, <3>2
  <2>5. \A t \in Task \ started : pTask'[t] = pTask[t] /\ pFile'[t] = pFile[t]
    BY <1>1
  <2> QED  BY <2>1, <2>2, <2>3, <2>4, <2>5
<1>5. pTask' \in [Task -> Process!TaskState] /\ pFile' \in [Task -> Process!TaskState]
  BY <1>1, <1>2, <1>4 DEF ShellTypes
<1>6. ShellGrows(pLog, pLog', "tool", {}, Len(pLog))
  BY <1>1, <1>2, TailGrows
<1>7. ShellTypes'
  BY <1>1, <1>2, <1>3, <1>4, <1>5, <1>6, GrownFacts, ShellFacts DEF ShellTypes
<1>8. ShellTurn' /\ ShellFlags'
  <2>1. ShellTurn'
    BY <1>1, <1>2, <1>3 DEF ShellTurn
  <2>2. pSettling \subseteq Task \ started
    BY <1>2, <1>4 DEF ShellFlags, ShellTypes
  <2>3. ShellFlags'
    BY <1>1, <1>2, <1>4, <2>2 DEF ShellFlags
  <2> QED  BY <2>1, <2>3
<1>9. ShellEnded'
  <2>1. pBatch \cup pTurn.batch \cup pTurn.marks \subseteq Task
    BY <1>2 DEF ShellTypes, ShellTurns
  <2> QED  BY <1>1, <1>2, <1>3, <1>4, <2>1 DEF ShellEnded
<1>10. Notified' = Notified /\ InRequest' = InRequest
  BY <1>3, <1>4 DEF Notified, InRequest
<1>11. ShellTold'
  <2>1. /\ Told \subseteq Told'
        /\ pTurn.kind = "prompt" /\ pTurn.stage # "input" =>
             /\ pTurn.input \in 1..Len(pLog')
             /\ TasksShown(pLog', pLog'[pTurn.input].parent) \subseteq TasksShown(pLog', Len(pLog'))
    BY <1>1, <1>6, ToldGrows
  <2> QED  BY <1>1, <1>2, <1>3, <1>10, <2>1 DEF ShellTold
<1> QED  BY <1>7, <1>8, <1>9, <1>11 DEF ShellInv

\* The final reply; a delivery marks its batch.
LEMMA ReplyKeeps ==
  ASSUME ShellInv, Process!Reply
  PROVE  ShellInv'
<1>1. /\ pSettling' = pSettling /\ pTracked' = pTracked
      /\ pTask' = [t \in Task |-> IF t \in pTurn.batch THEN [pTask[t] EXCEPT !.notified = TRUE] ELSE pTask[t]]
      /\ pFile' = [t \in Task |-> IF t \in pTurn.batch THEN pTask'[t] ELSE pFile[t]]
      /\ pPaused' = pPaused /\ pRewindPoint' = pRewindPoint
      /\ pConversation' = pTurn.carries /\ pOrphaned' = pOrphaned
      /\ pAnswered' = pAnswered \cup InRequest
      /\ pLog' = Process!Appended("reply", {}) /\ pTurn.stage = "provider"
      /\ pTurn' = Process!NoTurn
      /\ IF pTurn.kind = "delivery" THEN Process!EndDrain(TRUE) ELSE Process!NotifyAt(pDrain)
  BY DEF Process!Reply, InRequest
<1>2. /\ ShellTypes /\ ShellTurn /\ ShellFlags /\ ShellTold /\ ShellEnded /\ pTurn \in ShellTurns
      /\ pTurn.kind # "none"
  BY <1>1 DEF ShellInv, ShellTypes, ShellTurn, Process!NoTurn
<1>3. /\ pTurn' \in ShellTurns /\ pTurn'.stage = "none" /\ pTurn'.parent = {} /\ pTurn'.kind = "none"
      /\ pTurn'.marks = {} /\ pTurn'.batch = {} /\ pTurn.carries \in [Task -> Nat]
  BY <1>1, <1>2, ShellFacts DEF Process!NoTurn, ShellTurns
<1>4. /\ pTurn.batch \subseteq Task
      /\ \A t \in pTurn.batch : /\ pTask[t].status = "ended" /\ pTask'[t].status = "ended" /\ pTask'[t].notified
                                /\ pTask'[t] \in Process!TaskState /\ pFile'[t] = pTask'[t]
      /\ \A t \in Task \ pTurn.batch : pTask'[t] = pTask[t] /\ pFile'[t] = pFile[t]
  <2>1. pTurn.batch \subseteq Task /\ pTask \in [Task -> Process!TaskState]
    BY <1>2 DEF ShellTypes, ShellTurns
  <2>2. \A t \in pTurn.batch : pTask[t].status = "ended"
    BY <1>2 DEF ShellEnded
  <2> QED  BY <1>1, <2>1, <2>2 DEF Process!TaskState
<1>5. pTask' \in [Task -> Process!TaskState] /\ pFile' \in [Task -> Process!TaskState]
  BY <1>1, <1>2, <1>4 DEF ShellTypes
<1>6. /\ pDrain' \in {"idle", "sleeping", "collecting", "delivering"} /\ pRerun' \in BOOLEAN
      /\ pBatch' \in {{}, pBatch}
  BY <1>1, <1>2, DrainFacts DEF ShellTurn
<1>7. ShellGrows(pLog, pLog', "reply", {}, Len(pLog))
  BY <1>1, <1>2, TailGrows
<1>8. ShellTypes'
  BY <1>1, <1>2, <1>3, <1>5, <1>6, <1>7, GrownFacts, ShellFacts DEF ShellTypes
<1>9. ShellTurn' /\ ShellFlags'
  <2>1. ShellTurn'
    BY <1>1, <1>3, <1>6 DEF ShellTurn
  <2>2. pSettling \subseteq Task
    BY <1>2 DEF ShellTypes
  <2>3. ShellFlags'
    BY <1>1, <1>2, <1>4, <2>2 DEF ShellFlags
  <2> QED  BY <2>1, <2>3
<1>10. ShellEnded'
  BY <1>2, <1>3, <1>4, <1>6 DEF ShellEnded, ShellTypes
<1>11. ShellTold'
  <2>1. Told \subseteq Told' /\ InRequest \subseteq Told'
    BY <1>1, <1>7, ToldGrows DEF Told
  <2>2. Notified' = Notified \cup pTurn.batch /\ pTurn.batch \subseteq InRequest
    BY <1>2, <1>4 DEF Notified, ShellTold
  <2> QED  BY <1>2, <1>3, <2>1, <2>2 DEF ShellTold
<1> QED  BY <1>8, <1>9, <1>10, <1>11 DEF ShellInv

\* The failed turn's marker, or none.
LEMMA MarkedFacts ==
  ASSUME ShellTypes, pLog' = Process!MarkedFailed
  PROVE  /\ pLog' \in Seq(ShellRecords) /\ Tree(pLog')
         /\ pRewindPoint \subseteq 0..Len(pLog') /\ pTurn.parent \subseteq 0..Len(pLog')
         /\ Process!Carried(pLog', Len(pLog')) \in [Task -> Nat]
         /\ Process!LostWith(pLog', Len(pLog'))
              = ((InRequest \cup TasksShown(pLog, Len(pLog))) \ pAnswered) \ TasksShown(pLog', Len(pLog'))
<1>1. pLog' \in Seq(ShellRecords) /\ Tree(pLog')
      /\ pRewindPoint \subseteq 0..Len(pLog') /\ pTurn.parent \subseteq 0..Len(pLog')
  <2>1. CASE pLog' = pLog
    BY <2>1 DEF ShellTypes
  <2>2. CASE pLog' = Process!Appended("failed", {})
    <3>1. ShellGrows(pLog, pLog', "failed", {}, Len(pLog))
      BY <2>2, TailGrows
    <3> QED  BY <3>1, GrownFacts, ShellFacts
  <2> QED  BY <2>1, <2>2 DEF Process!MarkedFailed
<1>2. Len(pLog') \in 0..Len(pLog')
  BY <1>1 DEF Tree
<1>3. \A i \in 1..Len(pLog') : pLog'[i].ids \subseteq Task
  <2>1. \A i \in 1..Len(pLog') : pLog'[i] \in ShellRecords
    BY <1>1
  <2> QED  BY <2>1 DEF ShellRecords
<1>4. /\ Process!Carried(pLog', Len(pLog')) \in [Task -> Nat]
      /\ Process!CarriedBy(Process!Carried(pLog', Len(pLog'))) = TasksShown(pLog', Len(pLog'))
  BY <1>1, <1>2, <1>3, CarriedShows
<1>5. Process!Visible(pLog) = TasksShown(pLog, Len(pLog))
  BY ShellFacts
<1> QED  BY <1>1, <1>4, <1>5 DEF Process!LostWith, InRequest

\* A prompt's turn fails.
LEMMA FailPromptKeeps ==
  ASSUME ShellInv, Process!FailPrompt
  PROVE  ShellInv'
<1>1. /\ pTask' = pTask /\ pFile' = pFile /\ pSettling' = pSettling /\ pTracked' = pTracked
      /\ pPaused' = pPaused /\ pRewindPoint' = pRewindPoint /\ pAnswered' = pAnswered
      /\ pTurn.kind = "prompt" /\ pTurn' = Process!NoTurn /\ Process!NotifyAt(pDrain)
      /\ pLog' = Process!MarkedFailed /\ pConversation' = Process!Carried(pLog', Len(pLog'))
      /\ pOrphaned' = pOrphaned \cup Process!LostWith(pLog', Len(pLog'))
  BY DEF Process!FailPrompt, Process!taskVars
<1>2. ShellTypes /\ ShellTurn /\ ShellFlags /\ ShellTold /\ ShellEnded
  BY DEF ShellInv
<1>3. /\ pTurn' \in ShellTurns /\ pTurn'.stage = "none" /\ pTurn'.parent = {} /\ pTurn'.kind = "none"
      /\ pTurn'.marks = {} /\ pTurn'.batch = {}
  BY <1>1, <1>2, ShellFacts DEF Process!NoTurn
<1>4. /\ pDrain' \in {"idle", "sleeping", "collecting", "delivering", "delivered"} /\ pRerun' \in BOOLEAN
      /\ pBatch' = pBatch /\ pDrain' # "delivered"
  BY <1>1, <1>2, DrainFacts DEF ShellTurn
<1>5. ShellTypes'
  BY <1>1, <1>2, <1>3, <1>4, MarkedFacts DEF ShellTypes
<1>6. ShellTurn' /\ ShellFlags' /\ ShellEnded'
  BY <1>1, <1>2, <1>3, <1>4 DEF ShellTurn, ShellFlags, ShellEnded
<1>7. ShellTold'
  <2>1. pOrphaned' = pOrphaned \cup
          (((InRequest \cup TasksShown(pLog, Len(pLog))) \ pAnswered) \ TasksShown(pLog', Len(pLog')))
    BY <1>1, <1>2, MarkedFacts
  <2>2. Told \cup InRequest \subseteq Told' /\ Notified' = Notified
    BY <1>1, <2>1 DEF Told, Notified
  <2> QED  BY <1>2, <1>3, <2>2 DEF ShellTold
<1> QED  BY <1>5, <1>6, <1>7 DEF ShellInv

\* Escape ends a prompt's turn, and rewinds it if no response was seen.
LEMMA InterruptPromptKeeps ==
  ASSUME ShellInv, Process!InterruptPrompt
  PROVE  ShellInv'
<1>. DEFINE head == IF pTurn.saw THEN Len(pLog) ELSE pLog[pTurn.input].parent
<1>1. /\ pTask' = pTask /\ pFile' = pFile /\ pSettling' = pSettling /\ pTracked' = pTracked
      /\ pPaused' = pPaused /\ pAnswered' = pAnswered /\ pLog' = pLog
      /\ pTurn.stage = "provider" /\ pTurn.kind = "prompt" /\ pTurn' = Process!NoTurn /\ Process!NotifyAt(pDrain)
      /\ pRewindPoint' = IF pTurn.saw THEN pRewindPoint ELSE {head}
      /\ pConversation' = IF pTurn.saw THEN pConversation ELSE Process!Carried(pLog, head)
      /\ pOrphaned' = pOrphaned \cup Process!LostWith(pLog, head)
  BY DEF Process!InterruptPrompt, Process!taskVars
<1>2. ShellTypes /\ ShellTurn /\ ShellFlags /\ ShellTold /\ ShellEnded
  BY DEF ShellInv
<1>3. /\ pTurn' \in ShellTurns /\ pTurn'.stage = "none" /\ pTurn'.parent = {} /\ pTurn'.kind = "none"
      /\ pTurn'.marks = {} /\ pTurn'.batch = {}
  BY <1>1, <1>2, ShellFacts DEF Process!NoTurn
<1>4. /\ pDrain' \in {"idle", "sleeping", "collecting", "delivering", "delivered"} /\ pRerun' \in BOOLEAN
      /\ pBatch' = pBatch /\ pDrain' # "delivered"
  BY <1>1, <1>2, DrainFacts DEF ShellTurn
<1>5. head \in 0..Len(pLog) /\ TasksShown(pLog, head) \subseteq TasksShown(pLog, Len(pLog))
  <2>1. /\ pTurn.input \in 1..Len(pLog)
        /\ TasksShown(pLog, pLog[pTurn.input].parent) \subseteq TasksShown(pLog, Len(pLog))
    BY <1>1, <1>2 DEF ShellTold
  <2> QED  BY <1>2, <2>1, ShellFacts
<1>. HIDE DEF head
<1>6. /\ Process!Carried(pLog, head) \in [Task -> Nat]
      /\ Process!LostWith(pLog, head)
           = ((InRequest \cup TasksShown(pLog, Len(pLog))) \ pAnswered) \ TasksShown(pLog, head)
  BY <1>2, <1>5, ShellFacts DEF Process!LostWith, InRequest
<1>7. ShellTypes'
  <2>1. pRewindPoint' \subseteq 0..Len(pLog) /\ pConversation' \in [Task -> Nat]
    BY <1>1, <1>2, <1>5, <1>6 DEF ShellTypes
  <2> QED  BY <1>1, <1>2, <1>3, <1>4, <2>1 DEF ShellTypes
<1>8. ShellTurn' /\ ShellFlags' /\ ShellEnded'
  BY <1>1, <1>2, <1>3, <1>4 DEF ShellTurn, ShellFlags, ShellEnded
<1>9. ShellTold'
  <2>1. Told \cup InRequest \subseteq Told' /\ Notified' = Notified
    BY <1>1, <1>5, <1>6 DEF Told, Notified
  <2> QED  BY <1>2, <1>3, <2>1 DEF ShellTold
<1> QED  BY <1>7, <1>8, <1>9 DEF ShellInv

\* A delivery fails or is interrupted: its batch is to be re-armed.
LEMMA FailDeliveryKeeps ==
  ASSUME ShellInv, Process!FailDelivery
  PROVE  ShellInv'
<1>1. /\ pTask' = pTask /\ pFile' = pFile /\ pSettling' = pSettling /\ pTracked' = pTracked
      /\ pDrain' = pDrain /\ pRerun' = pRerun /\ pBatch' = pBatch
      /\ pPaused' = TRUE /\ pRewindPoint' = pRewindPoint /\ pAnswered' = pAnswered
      /\ pTurn.kind = "delivery" /\ pTurn' = [pTurn EXCEPT !.stage = "rearming", !.marks = pTurn.batch]
      /\ pLog' = Process!MarkedFailed /\ pConversation' = Process!Carried(pLog', Len(pLog'))
      /\ pOrphaned' = pOrphaned \cup (Process!LostWith(pLog', Len(pLog')) \ pTurn.batch)
  BY DEF Process!FailDelivery, Process!taskVars, Process!drainVars
<1>2. ShellTypes /\ ShellTurn /\ ShellFlags /\ ShellTold /\ ShellEnded /\ pTurn \in ShellTurns
  BY DEF ShellInv, ShellTypes
<1>3. /\ pTurn' \in ShellTurns /\ pTurn'.stage = "rearming" /\ pTurn'.parent = pTurn.parent
      /\ pTurn'.kind = "delivery" /\ pTurn'.marks = pTurn.batch /\ pTurn'.batch = pTurn.batch
      /\ pTurn'.carries = pTurn.carries
  BY <1>1, <1>2 DEF ShellTurns
<1>4. ShellTypes'
  BY <1>1, <1>2, <1>3, MarkedFacts DEF ShellTypes
<1>5. ShellTurn' /\ ShellFlags' /\ ShellEnded'
  BY <1>1, <1>2, <1>3 DEF ShellTurn, ShellFlags, ShellEnded
<1>6. ShellTold'
  <2>1. pOrphaned' = pOrphaned \cup
          ((((InRequest \cup TasksShown(pLog, Len(pLog))) \ pAnswered) \ TasksShown(pLog', Len(pLog')))
             \ pTurn.batch)
    BY <1>1, <1>2, MarkedFacts
  <2>2. Told \cup InRequest \subseteq Told' \cup pTurn.batch /\ Notified' = Notified /\ InRequest' = InRequest
    BY <1>1, <1>3, <2>1 DEF Told, Notified, InRequest
  <2> QED  BY <1>2, <1>3, <2>2 DEF ShellTold
<1> QED  BY <1>4, <1>5, <1>6 DEF ShellInv

\* Its flags are taken back, one by one.
LEMMA RearmKeeps ==
  ASSUME ShellInv, NEW t \in Task, Process!Rearm(t)
  PROVE  ShellInv'
<1>1. /\ pSettling' = pSettling /\ pTracked' = pTracked
      /\ pPaused' = pPaused /\ pRewindPoint' = pRewindPoint
      /\ pDrain' = pDrain /\ pRerun' = pRerun /\ pBatch' = pBatch
      /\ pConversation' = pConversation /\ pAnswered' = pAnswered /\ pOrphaned' = pOrphaned
      /\ pLog' = pLog /\ pTurn.stage = "rearming" /\ t \in pTurn.marks /\ Process!SetNotified(t, FALSE)
      /\ pTurn' = [pTurn EXCEPT !.marks = @ \ {t}]
  BY DEF Process!Rearm, Process!drainVars, Process!historyVars
<1>2. ShellTypes /\ ShellTurn /\ ShellTold /\ pTurn \in ShellTurns /\ pTurn.kind = "delivery"
  BY <1>1 DEF ShellInv, ShellTypes, ShellTurn
<1>3. /\ pTask' \in [Task -> Process!TaskState] /\ pFile' \in [Task -> Process!TaskState]
      /\ ShellFlags' /\ Notified' = Notified \ {t} /\ \A u \in Task : pTask'[u].status = pTask[u].status
  BY <1>1, FlagFacts
<1>4. /\ pTurn' \in ShellTurns /\ pTurn'.stage = "rearming" /\ pTurn'.parent = pTurn.parent
      /\ pTurn'.input = pTurn.input /\ pTurn'.marks = pTurn.marks \ {t}
      /\ pTurn'.kind = "delivery" /\ pTurn'.batch = pTurn.batch /\ pTurn'.carries = pTurn.carries
  BY <1>1, <1>2 DEF ShellTurns
<1>5. ShellTypes'
  BY <1>1, <1>2, <1>3, <1>4 DEF ShellTypes
<1>6. ShellTurn' /\ ShellEnded'
  BY <1>1, <1>2, <1>3, <1>4 DEF ShellInv, ShellTypes, ShellTurns, ShellTurn, ShellEnded
<1>7. Told' = Told /\ InRequest' = InRequest
  BY <1>1, <1>4 DEF Told, InRequest
<1>8. ShellTold'
  BY <1>1, <1>2, <1>3, <1>4, <1>7 DEF ShellTold
<1> QED  BY <1>3, <1>5, <1>6, <1>8 DEF ShellInv

\* The failed delivery lets go of busy.
LEMMA RearmedKeeps ==
  ASSUME ShellInv, NEW interrupted \in BOOLEAN, Process!Rearmed(interrupted)
  PROVE  ShellInv'
<1>1. /\ pTask' = pTask /\ pFile' = pFile /\ pSettling' = pSettling /\ pTracked' = pTracked
      /\ pPaused' = pPaused /\ pRewindPoint' = pRewindPoint /\ pConversation' = pConversation
      /\ pAnswered' = pAnswered /\ pOrphaned' = pOrphaned /\ pLog' = pLog
      /\ pTurn.stage = "rearming" /\ pTurn.marks = {} /\ pTurn' = Process!NoTurn
      /\ Process!EndDrain(interrupted)
  BY DEF Process!Rearmed, Process!taskVars, Process!historyVars
<1>2. ShellTypes /\ ShellTurn /\ ShellFlags /\ ShellTold /\ ShellEnded
  BY DEF ShellInv
<1>3. /\ pTurn' \in ShellTurns /\ pTurn'.stage = "none" /\ pTurn'.parent = {} /\ pTurn'.kind = "none"
      /\ pTurn'.marks = {} /\ pTurn'.batch = {}
  BY <1>1, <1>2, ShellFacts DEF Process!NoTurn
<1>4. pDrain' \in {"idle", "sleeping"} /\ pRerun' \in BOOLEAN /\ pBatch' = {}
  BY <1>1, <1>2, DrainFacts
<1>5. ShellTypes' /\ ShellTurn' /\ ShellFlags' /\ ShellEnded'
  BY <1>1, <1>2, <1>3, <1>4 DEF ShellTypes, ShellTurn, ShellFlags, ShellEnded
<1>6. ShellTold'
  BY <1>1, <1>2, <1>3 DEF ShellTold, Told, Notified
<1> QED  BY <1>5, <1>6 DEF ShellInv

\* The host dies, and the next one resumes from what is on disk.
LEMMA ShellRestartKeeps ==
  ASSUME ShellInv, Process!Restart
  PROVE  ShellInv'
<1>1. /\ pTask' = [t \in Task |-> IF pFile[t].status = "running"
                                    THEN [status |-> "ended", notified |-> FALSE] ELSE pFile[t]]
      /\ pFile' = pTask' /\ pSettling' = {} /\ pTracked' = {}
      /\ pPaused' = FALSE /\ pRewindPoint' = {} /\ pAnswered' = pAnswered /\ pLog' = pLog
      /\ Process!EndDrain(TRUE) /\ pTurn' = Process!NoTurn
      /\ pConversation' = Process!Carried(pLog, Len(pLog))
      /\ pOrphaned' = pOrphaned \cup Process!LostWith(pLog, Len(pLog))
  BY DEF Process!Restart
<1>2. ShellTypes /\ ShellTurn /\ ShellFlags /\ ShellTold /\ ShellEnded
  BY DEF ShellInv
<1>3. /\ pTurn' \in ShellTurns /\ pTurn'.stage = "none" /\ pTurn'.parent = {} /\ pTurn'.kind = "none"
      /\ pTurn'.marks = {} /\ pTurn'.batch = {}
  BY <1>1, <1>2, ShellFacts DEF Process!NoTurn
<1>4. pDrain' \in {"idle", "sleeping"} /\ pRerun' \in BOOLEAN /\ pBatch' = {}
  BY <1>1, <1>2, DrainFacts
<1>5. /\ pTask' \in [Task -> Process!TaskState]
      /\ \A t \in Task : pTask'[t].notified => pTask'[t].status = "ended" /\ pTask[t].notified
  <2>1. ASSUME NEW t \in Task
        PROVE  /\ pTask'[t] \in Process!TaskState
               /\ pTask'[t].notified => pTask'[t].status = "ended" /\ pTask[t].notified
    <3>1. PICK ended : ended = [status |-> "ended", notified |-> FALSE]
      OBVIOUS
    <3>2. ended \in Process!TaskState /\ ended.notified = FALSE
      BY <3>1 DEF Process!TaskState
    <3>3. pFile[t] \in Process!TaskState
      BY <1>2 DEF ShellTypes
    <3>4. CASE pFile[t].status = "running"
      BY <1>1, <3>1, <3>2, <3>4
    <3>5. CASE pFile[t].status # "running"
      <4>1. pTask'[t] = pFile[t]
        BY <1>1, <3>5
      <4>2. pFile[t].notified => pFile[t].status = "ended" /\ pTask[t].notified
        BY <1>2 DEF ShellFlags
      <4> QED  BY <3>3, <4>1, <4>2
    <3> QED  BY <3>4, <3>5
  <2>2. pTask' = [t \in Task |-> pTask'[t]]
    BY <1>1
  <2> QED  BY <2>1, <2>2
<1>6. /\ Process!Carried(pLog, Len(pLog)) \in [Task -> Nat]
      /\ Process!LostWith(pLog, Len(pLog))
           = ((InRequest \cup TasksShown(pLog, Len(pLog))) \ pAnswered) \ TasksShown(pLog, Len(pLog))
  BY <1>2, ShellFacts DEF Process!LostWith, InRequest
<1>7. ShellTypes'
  BY <1>1, <1>2, <1>3, <1>4, <1>5, <1>6 DEF ShellTypes
<1>8. ShellTurn' /\ ShellFlags' /\ ShellEnded'
  BY <1>1, <1>3, <1>4, <1>5 DEF ShellTurn, ShellFlags, ShellEnded
<1>9. ShellTold'
  <2>1. Told \cup InRequest \subseteq Told'
    BY <1>1, <1>6 DEF Told
  <2>2. Notified' \subseteq Notified
    BY <1>5 DEF Notified
  <2> QED  BY <1>2, <1>3, <2>1, <2>2 DEF ShellTold
<1> QED  BY <1>7, <1>8, <1>9 DEF ShellInv

LEMMA ShellStarts ==
  ASSUME Process!Init
  PROVE  ShellInv
<1>1. /\ pTask = [t \in Task |-> Process!Absent] /\ pFile = pTask /\ pSettling = {} /\ pTracked = {}
      /\ pDrain = "idle" /\ pRerun = FALSE /\ pBatch = {} /\ pPaused = FALSE
      /\ pTurn = Process!NoTurn /\ pRewindPoint = {} /\ pConversation = [t \in Task |-> 0]
      /\ pLog = <<>> /\ pAnswered = {} /\ pOrphaned = {}
  BY DEF Process!Init
<1>2. Process!Absent \in Process!TaskState /\ ~Process!Absent.notified
  BY DEF Process!Absent, Process!TaskState
<1>3. /\ pTurn \in ShellTurns /\ pTurn.stage = "none" /\ pTurn.parent = {} /\ pTurn.kind = "none"
      /\ pTurn.marks = {} /\ pTurn.batch = {}
  BY <1>1 DEF Process!NoTurn, ShellTurns
<1>4. pLog \in Seq(ShellRecords) /\ Tree(pLog) /\ Len(pLog) = 0
  BY <1>1 DEF Tree
<1>5. ShellTypes
  BY <1>1, <1>2, <1>3, <1>4 DEF ShellTypes
<1>6. ShellTurn /\ ShellFlags /\ ShellEnded
  BY <1>1, <1>2, <1>3 DEF ShellTurn, ShellFlags, ShellEnded
<1>7. ShellTold
  BY <1>1, <1>2, <1>3 DEF ShellTold, Notified
<1> QED  BY <1>5, <1>6, <1>7 DEF ShellInv

LEMMA ShellStep ==
  ASSUME ShellInv, Process!Next
  PROVE  ShellInv'
<1>1. ASSUME NEW t \in Task, Process!Finish(t) \/ Process!Settle(t) \/ Process!AppendCompleted(t)
      PROVE  ShellInv'
  BY <1>1, FinishKeeps, SettleKeeps, AppendCompletedKeeps
<1>2. CASE Process!Wake \/ Process!Collect \/ Process!Deliver \/ Process!SubmitPrompt
  BY <1>2, DrainKeeps, DeliverKeeps, SubmitPromptKeeps
<1>3. CASE Process!TurnStep
  <2>1. CASE Process!AppendInput \/ Process!Snapshot \/ Process!Materialize \/ Process!Reply
    BY <2>1, AppendInputKeeps, SnapshotKeeps, MaterializeKeeps, ReplyKeeps
  <2>2. ASSUME NEW t \in Task, Process!MarkNotified(t) \/ Process!Rearm(t)
        PROVE  ShellInv'
    BY <2>2, MarkNotifiedKeeps, RearmKeeps
  <2>3. ASSUME NEW interrupted \in BOOLEAN, Process!Rearmed(interrupted)
        PROVE  ShellInv'
    BY <2>3, RearmedKeeps
  <2> QED  BY <1>3, <2>1, <2>2, <2>3 DEF Process!TurnStep
<1>4. ASSUME NEW started \in SUBSET {t \in Task : pTask[t] = Process!Absent}, Process!ToolRound(started)
      PROVE  ShellInv'
  BY <1>4, ToolRoundKeeps
<1>5. CASE Process!FailPrompt \/ Process!InterruptPrompt \/ Process!FailDelivery \/ Process!Restart
  BY <1>5, FailPromptKeeps, InterruptPromptKeeps, FailDeliveryKeeps, ShellRestartKeeps
<1> QED  BY <1>1, <1>2, <1>3, <1>4, <1>5 DEF Process!Next

LEMMA ShellStutter ==
  ASSUME ShellInv, UNCHANGED processVars
  PROVE  ShellInv'
BY DEF processVars, ShellInv, ShellTypes, ShellTurn, ShellFlags, ShellEnded, ShellTold, Told, Notified, InRequest

\* What is notified and in no turn's hands is in the file, answered or excepted.
LEMMA ShellSafe ==
  ASSUME ShellInv
  PROVE  Process!NoCompletionLost /\ Process!TypeOK
<1>1. ASSUME pTurn = Process!NoTurn
      PROVE  Notified \subseteq Process!Visible(pLog) \cup pAnswered \cup pOrphaned
  <2>1. InRequest = {} /\ Process!Visible(pLog) = TasksShown(pLog, Len(pLog))
    BY <1>1, ShellFacts DEF ShellInv, InRequest
  <2> QED  BY <2>1 DEF ShellInv, ShellTold, Told
<1>2. Process!NoCompletionLost
  BY <1>1 DEF Process!NoCompletionLost, Notified
<1>3. \A i \in DOMAIN pLog : pLog[i].parent < i
  BY DEF ShellInv, ShellTypes, Tree
<1>4. pTurn.stage \in {"none", "input", "snapshot", "boundary", "marking", "provider", "rearming"}
  BY DEF ShellInv, ShellTypes, ShellTurns
<1>5. Process!TypeOK
  BY <1>3, <1>4 DEF ShellInv, ShellTypes, ShellTurn, ShellFlags, Process!TypeOK
<1> QED  BY <1>2, <1>5

ShellHold == part = "process" => ShellInv

\* The invariant holds as long as the shell tasks are the part that moves.
LEMMA ShellAlways == Spec => []ShellHold
<1>1. Init => ShellHold
  BY ShellStarts DEF Init, ShellHold
<1>2. ShellHold /\ [Next]_vars => ShellHold'
  <2> SUFFICES ASSUME ShellHold, [Next]_vars, part' = "process"
               PROVE  ShellInv'
    BY DEF ShellHold
  <2>1. CASE UNCHANGED vars
    BY <2>1, ShellStutter DEF vars, ShellHold
  <2>2. CASE part = "process" /\ Process!Next
    BY <2>2, ShellStep DEF ShellHold
  <2>3. CASE Next /\ ~(part = "process" /\ Process!Next)
    <3>1. part' = part
      BY <2>3 DEF Next
    <3> QED  BY <2>3, <3>1 DEF Next
  <2> QED  BY <2>1, <2>2, <2>3
<1> QED  BY <1>1, <1>2, PTL DEF Spec

\* A shell completion that the host regards as told is told, for every number of
\* tasks, prompts, failures and crashes: the flag on disk is never ahead of the
\* packet that the history shows or an answered request carried, unless the
\* packet went with a turn that failed, was interrupted or was forked away
\* (process/manager.ts, background-process.ts, turn-controller.ts).
THEOREM CompletionSafety == Spec => []NoCompletionLost
<1>1. ShellHold => NoCompletionLost
  BY ShellSafe DEF ShellHold, NoCompletionLost
<1> QED  BY <1>1, ShellAlways, PTL


-----------------------------------------------------------------------------
(* The session file: what it holds of what was said.                         *)

\* Both modules project and branch alike.
LEMMA SessionNames ==
  ASSUME NEW r, NEW h, NEW U, NEW H
  PROVE  /\ Session!Project(r, h, U, H) = Project(r, h, U, H)
         /\ Session!Branch(r, h) = Branch(r, h)
         /\ Session!Range(r) = Range(r) /\ Session!Max(U) = Max(U)
<1>1. Session!Range(r) = Range(r)
  BY DEF Session!Range, Range
<1>2. Session!Max(U) = Max(U)
  BY Zenon DEF Session!Max, Max
<1>3. Session!Project(r, h, U, H) = Project(r, h, U, H)
  BY Zenon DEF Session!Project, Project, Session!DropTrailing, DropTrailing, Session!Max, Max
<1>4. Session!Branch(r, h) = Branch(r, h)
  BY Zenon DEF Session!Branch, Branch
<1> QED  BY <1>1, <1>2, <1>3, <1>4

\* The records; what a record of the history stands for; the history of a branch,
\* and what was said on it.
SaidKinds == {"user", "assistant", "summary"}
QuietKinds == {"title", "titleState", "usage", "boundary", "lost"}
TextRecords == [kind : SaidKinds \cup QuietKinds \cup {"checkpoint"}, parent : Nat, covers : SUBSET Nat,
                by : Generator \cup {"none", "user", "generated", "settled"}, attempts : Nat]
Text(r, h) == Project(r, h, {"user", "summary"}, QuietKinds)
Means(r, i) == IF r[i].kind = "checkpoint" THEN r[i].covers ELSE {i} \cup r[i].covers
TextShown(r, h) == UNION {Means(r, i) : i \in Range(Text(r, h))}
SaidOn(r, h) == {i \in Range(Branch(r, h)) : r[i].kind \in SaidKinds}

\* The operators of SessionLog, by these names.
LEMMA TextNames ==
  ASSUME NEW r, NEW h
  PROVE  /\ Session!Shown(r, h) = TextShown(r, h)
         /\ {i \in Session!Range(Session!Branch(r, h)) : r[i].kind \in Session!MessageKinds} = SaidOn(r, h)
<1>1. Session!Project(r, h, {"user", "summary"}, QuietKinds) = Text(r, h)
  BY SessionNames, Zenon DEF Text
<1>2. Session!Range(Text(r, h)) = Range(Text(r, h)) /\ Session!Range(Branch(r, h)) = Range(Branch(r, h))
  BY SessionNames, Zenon
<1>3. Session!UserKinds = {"user", "summary"} /\ Session!HostKinds = QuietKinds /\ Session!MessageKinds = SaidKinds
  BY DEF Session!UserKinds, Session!HostKinds, QuietKinds, Session!MessageKinds, SaidKinds
<1>4. Session!Branch(r, h) = Branch(r, h)
  BY SessionNames, Zenon
<1>5. Session!Shown(r, h) = TextShown(r, h)
  BY <1>1, <1>2, <1>3, Zenon DEF Session!Shown, TextShown, Means
<1> QED  BY <1>2, <1>3, <1>4, <1>5, Zenon DEF SaidOn

\* What a history stands for, and what was said on its branch, is not after its head.
LEMMA TextWithin ==
  ASSUME NEW r, Tree(r), \A i \in 1..Len(r) : r[i].covers \subseteq 1..(i - 1), NEW h \in 0..Len(r)
  PROVE  TextShown(r, h) \subseteq 1..h /\ TextShown(r, 0) = {} /\ SaidOn(r, 0) = {} /\ SaidOn(r, h) \subseteq 1..h
<1>1. Len(r) \in Nat /\ 0 \in 0..Len(r) /\ h \in Nat
  BY DEF Tree
<1>2. /\ Text(r, h) \in Seq(Nat) /\ Range(Text(r, h)) \subseteq 1..h /\ Text(r, 0) = <<>>
  <2>1. \A U, H : /\ Project(r, 0, U, H) = <<>>
                   /\ Project(r, h, U, H) \in Seq(Nat) /\ Range(Project(r, h, U, H)) \subseteq 1..h
    BY ProjectSteps
  <2> QED  BY <2>1, Zenon DEF Text
<1>3. ASSUME NEW i \in 1..h PROVE Means(r, i) \subseteq 1..h
  BY <1>1 DEF Means
<1>4. TextShown(r, h) \subseteq 1..h
  BY <1>2, <1>3 DEF TextShown
<1>5. Range(<<>>) = {}
  BY DEF Range
<1>6. Branch(r, 0) = <<>> /\ Range(Branch(r, h)) \subseteq 1..h
  BY <1>1, BranchSteps
<1> QED  BY <1>2, <1>4, <1>5, <1>6 DEF TextShown, SaidOn

\* A record e is appended below k.
TextGrows(r, more, e, k) ==
  /\ more \in Seq(TextRecords) /\ Tree(more) /\ Len(more) = Len(r) + 1
  /\ more[Len(r) + 1] = e /\ \A i \in 1..Len(r) : more[i] = r[i]
  /\ \A h \in 0..Len(r) : TextShown(more, h) = TextShown(r, h) /\ SaidOn(more, h) = SaidOn(r, h)
  /\ e.kind \in QuietKinds =>
       TextShown(more, Len(r) + 1) = TextShown(r, k) /\ SaidOn(more, Len(r) + 1) = SaidOn(r, k)
  /\ e.kind = "checkpoint" =>
       TextShown(more, Len(r) + 1) = e.covers /\ SaidOn(more, Len(r) + 1) = SaidOn(r, k)
  /\ e.kind \in SaidKinds =>
       /\ TextShown(more, Len(r) + 1) = TextShown(r, k) \cup {Len(r) + 1} \cup e.covers
       /\ SaidOn(more, Len(r) + 1) = SaidOn(r, k) \cup {Len(r) + 1}

\* An append changes no older history, and adds to that of its parent what its kind says.
LEMMA TextAppends ==
  ASSUME NEW r \in Seq(TextRecords), Tree(r), NEW k \in 0..Len(r), NEW e \in TextRecords, e.parent = k
  PROVE  TextGrows(r, Append(r, e), e, k)
<1>. DEFINE more == Append(r, e)
            n == Len(r) + 1
            v == Text(r, k)
            b == Branch(r, k)
            Then == MessagesWith(more, v, n, {"user", "summary"}, QuietKinds)
<1>1. more \in Seq(TextRecords) /\ OneMore(r, more) /\ more[n] = e
  BY TreeAppends
<1>. HIDE DEF more
<1>2. /\ Tree(more) /\ Len(more) = n /\ Len(r) \in Nat /\ n \in 1..n /\ n \in Nat
      /\ \A i \in 1..Len(r) : more[i] = r[i]
  BY <1>1 DEF OneMore, Tree
<1>3. e.kind \in SaidKinds \cup QuietKinds \cup {"checkpoint"}
  BY DEF TextRecords
<1>4. /\ \A h \in 0..Len(r) : Text(more, h) = Text(r, h) /\ Branch(more, h) = Branch(r, h)
      /\ Text(more, n) = Then /\ Branch(more, n) = Append(b, n)
  <2>1. BranchesOn(r, more)
    BY <1>1, ProjectAppends
  <2>2. ASSUME NEW U, NEW H
        PROVE  /\ \A h \in 0..Len(r) : Project(more, h, U, H) = Project(r, h, U, H)
               /\ Project(more, n, U, H) = MessagesWith(more, Project(r, k, U, H), n, U, H)
    <3>1. ProjectsOn(r, more, U, H)
      BY <1>1, ProjectAppends
    <3> QED  BY <1>1, <1>2, <3>1, Zenon DEF ProjectsOn
  <2>3. /\ \A h \in 0..Len(r) : \A U, H : Project(more, h, U, H) = Project(r, h, U, H)
        /\ \A U, H : Project(more, n, U, H) = MessagesWith(more, Project(r, k, U, H), n, U, H)
    BY <2>2, Zenon
  <2>4. (\A h \in 0..Len(r) : Branch(more, h) = Branch(r, h)) /\ Branch(more, n) = Append(b, n)
    BY <1>1, <1>2, <2>1, Zenon DEF BranchesOn
  <2>5. (\A h \in 0..Len(r) : Text(more, h) = Text(r, h)) /\ Text(more, n) = Then
    BY <2>3, Zenon DEF Text
  <2> QED  BY <2>4, <2>5
<1>5. ASSUME NEW h \in 0..Len(r)
      PROVE  /\ Text(r, h) \in Seq(Nat) /\ Range(Text(r, h)) \subseteq 1..Len(r)
             /\ Branch(r, h) \in Seq(Nat) /\ Range(Branch(r, h)) \subseteq 1..Len(r)
  <2>1. \A U, H : Project(r, h, U, H) \in Seq(Nat) /\ Range(Project(r, h, U, H)) \subseteq 1..h
    BY ProjectSteps
  <2>2. Text(r, h) \in Seq(Nat) /\ Range(Text(r, h)) \subseteq 1..h
    BY <2>1, Zenon DEF Text
  <2>3. Branch(r, h) \in Seq(Nat) /\ Range(Branch(r, h)) \subseteq 1..h
    BY BranchSteps
  <2> QED  BY <1>2, <2>2, <2>3
<1>6. \A i \in 1..Len(r) : Means(more, i) = Means(r, i)
  BY <1>2 DEF Means
<1>7. ASSUME NEW h \in 0..Len(r)
      PROVE  TextShown(more, h) = TextShown(r, h) /\ SaidOn(more, h) = SaidOn(r, h)
  <2>1. Text(more, h) = Text(r, h) /\ Branch(more, h) = Branch(r, h)
    BY <1>4
  <2>2. \A i \in Range(Text(r, h)) : Means(more, i) = Means(r, i)
    BY <1>5, <1>6
  <2>3. \A i \in Range(Branch(r, h)) : more[i] = r[i]
    BY <1>2, <1>5
  <2> QED  BY <2>1, <2>2, <2>3 DEF TextShown, SaidOn
<1>8. v \in Seq(Nat) /\ Range(v) \subseteq 1..Len(r) /\ b \in Seq(Nat) /\ Range(b) \subseteq 1..Len(r)
  BY <1>5
<1>9. /\ TextShown(r, k) = UNION {Means(more, i) : i \in Range(v)}
      /\ SaidOn(r, k) = {i \in Range(b) : more[i].kind \in SaidKinds}
  <2>1. (\A i \in Range(v) : Means(more, i) = Means(r, i)) /\ \A i \in Range(b) : more[i] = r[i]
    BY <1>2, <1>6, <1>8
  <2> QED  BY <2>1 DEF TextShown, SaidOn
<1>. HIDE DEF v, b
<1>10. Range(Append(v, n)) = Range(v) \cup {n} /\ Range(Append(b, n)) = Range(b) \cup {n}
  <2>1. \A s \in Seq(Nat) : Range(Append(s, n)) = Range(s) \cup {n}
    BY <1>2, AppendRange
  <2> QED  BY <1>8, <2>1
<1>11. SaidOn(more, n) = SaidOn(r, k) \cup (IF e.kind \in SaidKinds THEN {n} ELSE {})
  <2>1. SaidOn(more, n) = {i \in Range(b) \cup {n} : more[i].kind \in SaidKinds}
    BY <1>4, <1>10 DEF SaidOn
  <2> QED  BY <1>1, <1>9, <2>1
<1>12. SaidKinds \cap QuietKinds = {} /\ "checkpoint" \notin SaidKinds \cup QuietKinds
       /\ "failed" \notin SaidKinds \cup QuietKinds \cup {"checkpoint"}
  BY DEF SaidKinds, QuietKinds
<1>13. ASSUME e.kind \in QuietKinds PROVE TextShown(more, n) = TextShown(r, k)
  <2>1. Text(more, n) = v
    BY <1>1, <1>4, <1>12, <1>13 DEF MessagesWith
  <2> QED  BY <1>9, <2>1 DEF TextShown
<1>14. ASSUME e.kind = "checkpoint" PROVE TextShown(more, n) = e.covers
  <2>1. Text(more, n) = <<n>>
    BY <1>1, <1>4, <1>12, <1>14 DEF MessagesWith
  <2>2. Range(<<n>>) = {n}
    BY DEF Range
  <2>3. Means(more, n) = e.covers
    BY <1>1, <1>14 DEF Means
  <2> QED  BY <2>1, <2>2, <2>3 DEF TextShown
<1>15. ASSUME e.kind \in SaidKinds PROVE TextShown(more, n) = TextShown(r, k) \cup {n} \cup e.covers
  <2>1. Text(more, n) = Append(v, n)
    BY <1>1, <1>4, <1>12, <1>15 DEF MessagesWith
  <2>2. Means(more, n) = {n} \cup e.covers
    BY <1>1, <1>12, <1>15 DEF Means
  <2>3. TextShown(more, n) = UNION {Means(more, i) : i \in Range(v) \cup {n}}
    BY <1>10, <2>1 DEF TextShown
  <2> QED  BY <1>9, <2>2, <2>3
<1>16. TextGrows(r, more, e, k)
  BY <1>1, <1>2, <1>7, <1>11, <1>12, <1>13, <1>14, <1>15 DEF TextGrows
<1> QED  BY <1>16 DEF more

-----------------------------------------------------------------------------
\* A file in which nothing that was said is missing from the history, the titles
\* of a file, and the boundary that no summary follows.
Wholesome(r) ==
  /\ r \in Seq(TextRecords) /\ Tree(r)
  /\ \A i \in 1..Len(r) : r[i].covers \subseteq 1..(i - 1)
  /\ \A h \in 0..Len(r) : SaidOn(r, h) \subseteq TextShown(r, h)
TitlesIn(r) == {i \in 1..Len(r) : r[i].kind = "title"}
TitledByUser(r) == \E i \in TitlesIn(r) : r[i].by = "user"
TitlesStand(r) == \A i, j \in TitlesIn(r) : i < j /\ r[i].by = "user" => r[j].by = "user"
Unsummarized(r) == \E i \in 1..Len(r) : /\ r[i].kind = "boundary"
                                        /\ \A j \in 1..Len(r) : r[j].kind = "summary" => j < i

\* A record e is appended below k.
Writes(r, more, e, k) ==
  /\ Wholesome(more) /\ TextGrows(r, more, e, k)
  /\ Unsummarized(r) /\ e.kind # "summary" => Unsummarized(more)
  /\ e.kind = "boundary" => Unsummarized(more)
  /\ TitlesStand(r) /\ (e.kind = "title" /\ e.by # "user" => ~TitledByUser(r)) => TitlesStand(more)

\* A record that covers what it replaces leaves the file whole.
LEMMA WriteAppends ==
  ASSUME NEW r, Wholesome(r), NEW k \in 0..Len(r), NEW e \in TextRecords, e.parent = k,
         e.covers \subseteq 1..Len(r), e.kind = "checkpoint" => SaidOn(r, k) \subseteq e.covers
  PROVE  Writes(r, Append(r, e), e, k)
<1>. DEFINE more == Append(r, e)
            n == Len(r) + 1
<1>1. TextGrows(r, more, e, k)
  BY TextAppends DEF Wholesome
<1>. HIDE DEF more
<1>2. /\ more \in Seq(TextRecords) /\ Tree(more) /\ Len(more) = n /\ more[n] = e
      /\ \A i \in 1..Len(r) : more[i] = r[i]
      /\ Len(r) \in Nat /\ 1..n = 1..Len(r) \cup {n} /\ 0..n = 0..Len(r) \cup {n} /\ \A i \in 1..Len(r) : i < n
  <2>1. Len(r) \in Nat
    BY DEF Wholesome
  <2>2. 1..n = 1..Len(r) \cup {n} /\ 0..n = 0..Len(r) \cup {n} /\ \A i \in 1..Len(r) : i < n
    BY <2>1
  <2> QED  BY <1>1, <2>1, <2>2 DEF TextGrows
<1>3. \A i \in 1..n : more[i].covers \subseteq 1..(i - 1)
  BY <1>2 DEF Wholesome
<1>4. SaidOn(more, n) \subseteq TextShown(more, n)
  <2>1. SaidOn(r, k) \subseteq TextShown(r, k)
    BY DEF Wholesome
  <2>2. e.kind \in SaidKinds \cup QuietKinds \cup {"checkpoint"}
    BY DEF TextRecords
  <2>3. CASE e.kind \in SaidKinds
    BY <1>1, <2>1, <2>3 DEF TextGrows
  <2>4. CASE e.kind \in QuietKinds
    BY <1>1, <2>1, <2>4 DEF TextGrows
  <2>5. CASE e.kind = "checkpoint"
    BY <1>1, <2>5 DEF TextGrows
  <2> QED  BY <2>2, <2>3, <2>4, <2>5
<1>5. \A h \in 0..Len(r) : SaidOn(more, h) \subseteq TextShown(more, h)
  BY <1>1 DEF TextGrows, Wholesome
<1>6. Wholesome(more)
  BY <1>2, <1>3, <1>4, <1>5 DEF Wholesome
<1>7. ASSUME Unsummarized(r), e.kind # "summary" PROVE Unsummarized(more)
  <2>1. PICK i \in 1..Len(r) : /\ r[i].kind = "boundary"
                               /\ \A j \in 1..Len(r) : r[j].kind = "summary" => j < i
    BY <1>7 DEF Unsummarized
  <2>2. more[i].kind = "boundary" /\ \A j \in 1..n : more[j].kind = "summary" => j < i
    BY <1>2, <1>7, <2>1
  <2> QED  BY <1>2, <2>2 DEF Unsummarized
<1>8. ASSUME e.kind = "boundary" PROVE Unsummarized(more)
  <2>1. n \in 1..n /\ more[n].kind = "boundary" /\ \A j \in 1..n : more[j].kind = "summary" => j < n
    BY <1>2, <1>8
  <2> QED  BY <1>2, <2>1 DEF Unsummarized
<1>9. ASSUME TitlesStand(r), e.kind = "title" /\ e.by # "user" => ~TitledByUser(r)
      PROVE  TitlesStand(more)
  <2> SUFFICES ASSUME NEW i \in 1..n, NEW j \in 1..n, more[i].kind = "title", more[j].kind = "title",
                      i < j, more[i].by = "user"
               PROVE  more[j].by = "user"
    BY <1>2 DEF TitlesStand, TitlesIn
  <2>1. i \in 1..Len(r) /\ r[i].kind = "title" /\ r[i].by = "user"
    BY <1>2
  <2>2. CASE j = n
    <3>1. TitledByUser(r) /\ more[j] = e
      BY <1>2, <2>1, <2>2 DEF TitledByUser, TitlesIn
    <3> QED  BY <1>9, <3>1
  <2>3. CASE j \in 1..Len(r)
    BY <1>2, <1>9, <2>1, <2>3 DEF TitlesStand, TitlesIn
  <2> QED  BY <1>2, <2>2, <2>3
<1>10. Writes(r, more, e, k)
  BY <1>1, <1>6, <1>7, <1>8, <1>9 DEF Writes
<1> QED  BY <1>10 DEF more

\* Records that the history does not show, at the tail.
Quietly(r, more) ==
  /\ Wholesome(more) /\ Len(r) < Len(more)
  /\ \A h \in 0..Len(r) : TextShown(more, h) = TextShown(r, h)
  /\ TextShown(more, Len(more)) = TextShown(r, Len(r))
  /\ Unsummarized(r) => Unsummarized(more)

\* A host record at the tail, and two in a row.
LEMMA QuietAppends ==
  ASSUME NEW r, Wholesome(r), NEW e \in TextRecords, e.parent = Len(r), e.covers = {}, e.kind \in QuietKinds
  PROVE  Quietly(r, Append(r, e)) /\ Writes(r, Append(r, e), e, Len(r))
<1>1. Len(r) \in 0..Len(r) /\ Len(r) \in Nat
  BY DEF Wholesome
<1>2. e.kind # "checkpoint" /\ e.kind # "summary"
  BY DEF QuietKinds
<1>3. Writes(r, Append(r, e), e, Len(r))
  BY <1>1, <1>2, WriteAppends
<1>. DEFINE more == Append(r, e)
<1>4. Writes(r, more, e, Len(r))
  BY <1>3
<1>. HIDE DEF more
<1>5. Len(more) = Len(r) + 1 /\ Wholesome(more)
  BY <1>4 DEF Writes, TextGrows
<1>6. Quietly(r, more)
  BY <1>1, <1>2, <1>4, <1>5 DEF Writes, TextGrows, Quietly
<1> QED  BY <1>3, <1>6 DEF more

LEMMA QuietTwice ==
  ASSUME NEW r, Wholesome(r), NEW s, Quietly(r, s), NEW t, Quietly(s, t)
  PROVE  Quietly(r, t)
<1>1. Len(r) \in Nat /\ Len(s) \in Nat /\ Len(t) \in Nat /\ Len(r) < Len(s) /\ Len(s) < Len(t)
  BY DEF Quietly, Wholesome
<1>2. 0..Len(r) \subseteq 0..Len(s) /\ Len(s) \in 0..Len(s)
  BY <1>1
<1> QED  BY <1>1, <1>2 DEF Quietly

-----------------------------------------------------------------------------
\* The file; the operations on it; what memory knows of it; the generated titles.
NextParent == IF sRewindPoint = {} THEN Len(sLog) ELSE Max(sRewindPoint)
Sources == [head : Nat, covers : SUBSET Nat]
TitleTasks == [stage : {"idle", "claim", "asking", "publish", "settle"}, head : Nat, attempts : Nat]

TalkTypes ==
  /\ sBusy \in {"none", "turn", "compacting", "midTurn", "summarizing", "summary"}
  /\ sSource \in Sources /\ sSource.head \in 0..Len(sLog) /\ sSource.covers \subseteq 1..Len(sLog)
  /\ sSource # Session!NoSource => sBusy \in {"compacting", "midTurn", "summarizing", "summary"}
  /\ sRewindPoint = {} \/ \E x \in 0..Len(sLog) : sRewindPoint = {x}
  /\ sConversation \subseteq 1..Len(sLog)
  /\ sTask \in [Generator -> TitleTasks]

\* A compaction's source is what is shown at its head; a turn runs at the newest
\* record; between turns and in them memory is what the file shows.
TalkShows ==
  /\ sBusy \in {"compacting", "midTurn"} => sSource.covers = TextShown(sLog, sSource.head)
  /\ sBusy \in {"turn", "midTurn"} => sRewindPoint = {}
  /\ sForeign = TRUE \/ Unsummarized(sLog) \/ sConversation = TextShown(sLog, NextParent)

\* What is about to be published was found when the user had given no title.
TalkTitles ==
  \A g \in Generator : sTask[g].stage = "publish" =>
    sTask[g].head <= Len(sLog) /\ (sTask[g].head = Len(sLog) => ~TitledByUser(sLog))

TalkInv == Wholesome(sLog) /\ TitlesStand(sLog) /\ TalkTypes /\ TalkShows /\ TalkTitles

\* What the invariant says of the file and of the parent of the next record.
LEMMA TalkFacts ==
  ASSUME TalkInv
  PROVE  /\ Len(sLog) \in Nat /\ Len(sLog) \in 0..Len(sLog) /\ DOMAIN sLog = 1..Len(sLog)
         /\ \A h \in 0..Len(sLog) : /\ TextShown(sLog, h) \subseteq 1..h /\ TextShown(sLog, h) \subseteq 1..Len(sLog)
                                    /\ Session!Shown(sLog, h) = TextShown(sLog, h)
         /\ NextParent \in 0..Len(sLog) /\ \A x \in Nat : Max({x}) = x /\ Session!Max({x}) = x
         /\ NextParent = IF sRewindPoint = {} THEN Len(sLog) ELSE Session!Max(sRewindPoint)
         /\ Session!DanglingBoundary <=> Unsummarized(sLog)
         /\ \A g \in Generator : sTask[g] \in TitleTasks
<1>1. Len(sLog) \in Nat /\ Len(sLog) \in 0..Len(sLog) /\ DOMAIN sLog = 1..Len(sLog)
  BY DEF TalkInv, Wholesome
<1>2. ASSUME NEW h \in 0..Len(sLog)
      PROVE  TextShown(sLog, h) \subseteq 1..h /\ TextShown(sLog, h) \subseteq 1..Len(sLog)
  <2>1. TextShown(sLog, h) \subseteq 1..h
    BY TextWithin DEF TalkInv, Wholesome
  <2> QED  BY <1>1, <2>1
<1>3. \A h : Session!Shown(sLog, h) = TextShown(sLog, h)
  BY TextNames
<1>4. \A S : Session!Max(S) = Max(S)
  BY SessionNames
<1>5. \A x \in Nat : Max({x}) = x
  BY DEF Max
<1>6. NextParent \in 0..Len(sLog)
  BY <1>1, <1>5 DEF TalkInv, TalkTypes, NextParent
<1>7. NextParent = IF sRewindPoint = {} THEN Len(sLog) ELSE Session!Max(sRewindPoint)
  BY <1>4 DEF NextParent
<1>8. Session!DanglingBoundary <=> Unsummarized(sLog)
  BY <1>1 DEF Session!DanglingBoundary, Unsummarized
<1>9. \A x \in Nat : Session!Max({x}) = x
  BY <1>4, <1>5
<1> QED  BY <1>1, <1>2, <1>3, <1>5, <1>6, <1>7, <1>8, <1>9 DEF TalkInv, TalkTypes

\* A title task: what it appends, if anything, the history does not show.
LEMMA QuietStep ==
  ASSUME TalkInv, sLog' = sLog \/ Quietly(sLog, sLog'), TitlesStand(sLog'), TalkTitles',
         sTask' \in [Generator -> TitleTasks],
         UNCHANGED <<sBusy, sSource, sRewindPoint, sConversation, sForeign>>
  PROVE  TalkInv'
<1>1. /\ sBusy' = sBusy /\ sSource' = sSource /\ sRewindPoint' = sRewindPoint
      /\ sConversation' = sConversation /\ sForeign' = sForeign
  OBVIOUS
<1>2. CASE sLog' = sLog
  <2>1. TalkTypes'
    BY <1>1, <1>2 DEF TalkInv, TalkTypes
  <2>2. TalkShows'
    BY <1>1, <1>2 DEF TalkInv, TalkShows, NextParent
  <2> QED  BY <1>2, <2>1, <2>2 DEF TalkInv
<1>3. CASE Quietly(sLog, sLog')
  <2>1. /\ Wholesome(sLog') /\ Len(sLog) \in Nat /\ Len(sLog') \in Nat /\ Len(sLog) < Len(sLog')
        /\ 0..Len(sLog) \subseteq 0..Len(sLog') /\ 1..Len(sLog) \subseteq 1..Len(sLog')
        /\ Len(sLog') \in 0..Len(sLog')
    <3>1. Wholesome(sLog') /\ Len(sLog) \in Nat /\ Len(sLog') \in Nat /\ Len(sLog) < Len(sLog')
      BY <1>3 DEF TalkInv, Wholesome, Quietly
    <3> QED  BY <3>1
  <2>2. TalkTypes'
    <3>1. sRewindPoint' = {} \/ \E x \in 0..Len(sLog') : sRewindPoint' = {x}
      BY <1>1, <2>1 DEF TalkInv, TalkTypes
    <3>2. /\ sSource'.head \in 0..Len(sLog') /\ sSource'.covers \subseteq 1..Len(sLog')
          /\ sConversation' \subseteq 1..Len(sLog')
      BY <1>1, <2>1 DEF TalkInv, TalkTypes
    <3> QED  BY <1>1, <3>1, <3>2 DEF TalkInv, TalkTypes
  <2>3. TextShown(sLog', NextParent') = TextShown(sLog, NextParent)
    <3>1. CASE sRewindPoint = {}
      <4>1. NextParent = Len(sLog) /\ NextParent' = Len(sLog')
        BY <1>1, <3>1 DEF NextParent
      <4> QED  BY <1>3, <4>1 DEF Quietly
    <3>2. CASE sRewindPoint # {}
      <4>1. NextParent' = NextParent /\ NextParent \in 0..Len(sLog)
        BY <1>1, <3>2, TalkFacts DEF NextParent
      <4> QED  BY <1>3, <4>1 DEF Quietly
    <3> QED  BY <3>1, <3>2
  <2>4. sSource.head \in 0..Len(sLog) /\ TextShown(sLog', sSource.head) = TextShown(sLog, sSource.head)
    BY <1>3 DEF TalkInv, TalkTypes, Quietly
  <2>5. Unsummarized(sLog) => Unsummarized(sLog')
    BY <1>3 DEF Quietly
  <2>6. TalkShows'
    BY <1>1, <2>3, <2>4, <2>5 DEF TalkInv, TalkShows
  <2> QED  BY <2>1, <2>2, <2>6 DEF TalkInv
<1> QED  BY <1>2, <1>3

\* After an append what a title task found is past.
LEMMA TitlesPass ==
  ASSUME TalkInv, Len(sLog) < Len(sLog'), Len(sLog') \in Nat,
         \A g \in Generator : sTask'[g].stage = "publish" => sTask[g].stage = "publish" /\ sTask'[g] = sTask[g]
  PROVE  TalkTitles'
<1>1. \A g \in Generator : sTask[g].head \in Nat
  BY TalkFacts DEF TitleTasks
<1>2. Len(sLog) \in Nat
  BY TalkFacts
<1>3. ASSUME NEW g \in Generator, sTask'[g].stage = "publish"
      PROVE  sTask'[g].head <= Len(sLog') /\ sTask'[g].head # Len(sLog')
  <2>1. sTask'[g] = sTask[g] /\ sTask[g].head <= Len(sLog)
    BY <1>3 DEF TalkInv, TalkTitles
  <2> QED  BY <1>1, <1>2, <2>1
<1> QED  BY <1>3 DEF TalkTitles

\* What is appended.
Kinds == SaidKinds \cup QuietKinds \cup {"checkpoint"}
Authors == Generator \cup {"none", "user", "generated", "settled"}
Looks(e, kind, covers, by, parent) ==
  e \in TextRecords /\ e.kind = kind /\ e.covers = covers /\ e.by = by /\ e.parent = parent

\* The records the actions make are records of the file.
LEMMA RecordLooks ==
  ASSUME NEW kind \in Kinds, NEW c \in SUBSET Nat, NEW by \in Authors, NEW a \in Nat, NEW p \in Nat
  PROVE  /\ Looks(Session!Record(kind, p), kind, {}, "none", p)
         /\ Looks([Session!Record(kind, p) EXCEPT !.covers = c], kind, c, "none", p)
         /\ Looks([Session!Record(kind, p) EXCEPT !.by = by], kind, {}, by, p)
         /\ Looks([Session!Record(kind, p) EXCEPT !.by = by, !.attempts = a], kind, {}, by, p)
<1>1. Looks(Session!Record(kind, p), kind, {}, "none", p)
  BY DEF Session!Record, Looks, TextRecords, Kinds, Authors
<1>2. PICK r \in TextRecords : r = Session!Record(kind, p) /\ Looks(r, kind, {}, "none", p)
  BY <1>1 DEF Looks
<1>3. PICK s \in TextRecords : s = [r EXCEPT !.by = by] /\ Looks(s, kind, {}, by, p)
  <2>1. [r EXCEPT !.by = by] \in TextRecords
    BY DEF TextRecords, Authors
  <2>2. PICK s \in TextRecords : s = [r EXCEPT !.by = by]
    BY <2>1
  <2>3. s.kind = r.kind /\ s.covers = r.covers /\ s.by = by /\ s.parent = r.parent
    BY <2>2 DEF TextRecords
  <2> QED  BY <1>2, <2>2, <2>3 DEF Looks
<1>4. Looks([r EXCEPT !.covers = c], kind, c, "none", p)
  <2>1. [r EXCEPT !.covers = c] \in TextRecords
    BY DEF TextRecords
  <2>2. PICK t \in TextRecords : t = [r EXCEPT !.covers = c]
    BY <2>1
  <2>3. t.kind = r.kind /\ t.covers = c /\ t.by = r.by /\ t.parent = r.parent
    BY <2>2 DEF TextRecords
  <2>4. Looks(t, kind, c, "none", p)
    BY <1>2, <2>3 DEF Looks
  <2> QED  BY <2>2, <2>4, Zenon
<1>5. Looks([r EXCEPT !.by = by, !.attempts = a], kind, {}, by, p)
  <2>1. [s EXCEPT !.attempts = a] \in TextRecords
    BY DEF TextRecords
  <2>2. PICK t \in TextRecords : t = [s EXCEPT !.attempts = a]
    BY <2>1
  <2>3. t.kind = s.kind /\ t.covers = s.covers /\ t.by = s.by /\ t.parent = s.parent
    BY <2>2 DEF TextRecords
  <2>4. Looks(t, kind, {}, by, p)
    BY <1>3, <2>3 DEF Looks
  <2>5. [r EXCEPT !.by = by, !.attempts = a] = t
    BY <1>3, <2>2, Zenon
  <2> QED  BY <2>4, <2>5, Zenon
<1> QED  BY <1>2, <1>3, <1>4, <1>5, Zenon

\* What an append below p makes of one.
LEMMA BelowAppends ==
  ASSUME NEW r, NEW kind, NEW c, NEW by, NEW q, Looks(r, kind, c, by, q), NEW p \in Nat
  PROVE  \E e \in TextRecords : Looks(e, kind, c, by, p) /\ Session!AppendBelow(r, p) = Append(sLog, e)
<1>1. r \in TextRecords
  BY DEF Looks
<1>2. [r EXCEPT !.parent = p] \in TextRecords
  BY <1>1 DEF TextRecords
<1>3. PICK e \in TextRecords : e = [r EXCEPT !.parent = p]
  BY <1>2
<1>4. e.kind = r.kind /\ e.covers = r.covers /\ e.by = r.by /\ e.parent = p
  BY <1>1, <1>3 DEF TextRecords
<1>5. Looks(e, kind, c, by, p)
  BY <1>4 DEF Looks
<1>6. Session!AppendBelow(r, p) = Append(sLog, e)
  BY <1>3, Zenon DEF Session!AppendBelow
<1> QED  BY <1>5, <1>6

LEMMA PlainLooks ==
  ASSUME NEW kind \in Kinds, NEW p \in Nat
  PROVE  Looks(Session!Record(kind, p), kind, {}, "none", p)
BY DEF Session!Record, Looks, TextRecords, Kinds, Authors

LEMMA TailAppends ==
  ASSUME TalkInv, NEW r, NEW kind, NEW c, NEW by, NEW q, Looks(r, kind, c, by, q)
  PROVE  \E e \in TextRecords :
           Looks(e, kind, c, by, Len(sLog)) /\ Session!AppendBelow(r, Len(sLog)) = Append(sLog, e)
<1>1. Len(sLog) \in Nat
  BY TalkFacts
<1> QED  BY <1>1, BelowAppends

\* What the newest title and the newest title state say.
LEMMA TitleFacts ==
  ASSUME TalkInv
  PROVE  /\ ~Session!UserTitled => ~TitledByUser(sLog)
         /\ Session!TitleState.attempts \in Nat
         /\ Session!TitleRecords = TitlesIn(sLog)
<1>1. DOMAIN sLog = 1..Len(sLog) /\ Len(sLog) \in Nat /\ sLog \in Seq(TextRecords) /\ TitlesStand(sLog)
  BY TalkFacts DEF TalkInv, Wholesome
<1>2. Session!TitleRecords = TitlesIn(sLog)
  BY <1>1 DEF Session!TitleRecords, TitlesIn
<1>3. \A S : Session!Max(S) = Max(S)
  BY SessionNames
<1>4. ASSUME TitledByUser(sLog) PROVE Session!UserTitled
  <2>1. PICK i \in TitlesIn(sLog) : sLog[i].by = "user"
    BY <1>4 DEF TitledByUser
  <2>2. TitlesIn(sLog) \subseteq 1..Len(sLog) /\ TitlesIn(sLog) # {}
    BY <1>1, <2>1 DEF TitlesIn
  <2>3. PICK m : m = Max(TitlesIn(sLog))
    OBVIOUS
  <2>4. m \in TitlesIn(sLog) /\ \A j \in TitlesIn(sLog) : j <= m
    BY <1>1, <2>2, <2>3, LastIndex
  <2>5. i <= m
    BY <2>1, <2>4
  <2>6. sLog[m].by = "user"
    <3>1. i \in Nat /\ m \in Nat
      BY <1>1, <2>1, <2>4 DEF TitlesIn
    <3> QED  BY <1>1, <2>1, <2>4, <2>5, <3>1 DEF TitlesStand
  <2> QED  BY <1>2, <1>3, <2>1, <2>3, <2>6 DEF Session!UserTitled
<1>5. Session!TitleState.attempts \in Nat
  <2>. DEFINE S == {i \in 1..Len(sLog) : sLog[i].kind = "titleState"}
  <2>1. Session!StateRecords = S
    BY <1>1 DEF Session!StateRecords
  <2>2. CASE S = {}
    BY <2>1, <2>2 DEF Session!TitleState, Session!Record
  <2>3. CASE S # {}
    <3>1. S \subseteq 0..Len(sLog)
      BY <1>1
    <3>2. Max(S) \in S
      BY <1>1, <2>3, <3>1, MaxWithin
    <3>3. Session!TitleState = sLog[Max(S)]
      BY <1>3, <2>1, <2>3 DEF Session!TitleState
    <3>4. PICK m \in 1..Len(sLog) : m = Max(S)
      BY <3>2
    <3>5. sLog[m] \in TextRecords
      BY <1>1
    <3> QED  BY <3>3, <3>4, <3>5 DEF TextRecords
  <2> QED  BY <2>2, <2>3
<1> QED  BY <1>2, <1>4, <1>5

\* A title record is appended at the tail; a generated one only when no title is the user's.
LEMMA QuietTail ==
  ASSUME TalkInv, NEW kind \in QuietKinds, NEW by, NEW e, Looks(e, kind, {}, by, Len(sLog)),
         kind = "title" /\ by # "user" => ~TitledByUser(sLog)
  PROVE  Quietly(sLog, Append(sLog, e)) /\ TitlesStand(Append(sLog, e))
<1>1. Wholesome(sLog) /\ TitlesStand(sLog)
  BY DEF TalkInv
<1>2. e \in TextRecords /\ e.kind = kind /\ e.covers = {} /\ e.by = by /\ e.parent = Len(sLog)
  BY DEF Looks
<1>3. Quietly(sLog, Append(sLog, e)) /\ Writes(sLog, Append(sLog, e), e, Len(sLog))
  BY <1>1, <1>2, QuietAppends
<1> QED  BY <1>1, <1>2, <1>3 DEF Writes

\* The steps of title generation and the title commands.
LEMMA ConsiderTitleKeeps ==
  ASSUME TalkInv, NEW g \in Generator, Session!ConsiderTitle(g)
  PROVE  TalkInv'
<1>1. /\ sLog' = sLog /\ UNCHANGED <<sBusy, sSource, sRewindPoint, sConversation, sForeign>>
      /\ sTask' = [sTask EXCEPT ![g] = [stage |-> "claim", head |-> Len(sLog),
                                       attempts |-> Session!TitleState.attempts]]
  BY DEF Session!ConsiderTitle, Session!titleFrame
<1>2. sTask' \in [Generator -> TitleTasks] /\ \A h \in Generator : sTask'[h].stage = "publish" => sTask'[h] = sTask[h]
  BY <1>1, TitleFacts, TalkFacts DEF TalkInv, TalkTypes, TitleTasks
<1>3. TalkTitles'
  BY <1>1, <1>2 DEF TalkInv, TalkTitles
<1> QED  BY <1>1, <1>2, <1>3, QuietStep DEF TalkInv

LEMMA ClaimKeeps ==
  ASSUME TalkInv, NEW g \in Generator, Session!Claim(g)
  PROVE  TalkInv'
<1>1. UNCHANGED <<sBusy, sSource, sRewindPoint, sConversation, sForeign>>
  BY DEF Session!Claim, Session!titleFrame
<1>2. sTask \in [Generator -> TitleTasks] /\ Session!IdleTask \in TitleTasks /\ sTask[g] \in TitleTasks
  BY TalkFacts DEF TalkInv, TalkTypes, TitleTasks, Session!IdleTask
<1>3. CASE Session!CanAppendIfHead(sTask[g].head)
  <2>. DEFINE r == [Session!Record("titleState", 0) EXCEPT !.by = g, !.attempts = sTask[g].attempts]
  <2>1. /\ sTask' = [sTask EXCEPT ![g].stage = "asking"]
        /\ sLog' = Session!AppendBelow(r, Len(sLog))
    BY <1>3, Zenon DEF Session!Claim, Session!Move, Session!AppendAtTail
  <2>2. Looks(r, "titleState", {}, g, 0)
    BY <1>2, RecordLooks DEF TitleTasks, Kinds, QuietKinds, Authors
  <2>. HIDE DEF r
  <2>3. Quietly(sLog, sLog') /\ TitlesStand(sLog')
    <3>1. PICK e \in TextRecords : Looks(e, "titleState", {}, g, Len(sLog)) /\ sLog' = Append(sLog, e)
      BY <2>1, <2>2, TailAppends
    <3> QED  BY <3>1, QuietTail DEF QuietKinds
  <2>4. /\ sTask' \in [Generator -> TitleTasks]
        /\ \A h \in Generator : sTask'[h].stage = "publish" => sTask'[h] = sTask[h]
    BY <1>2, <2>1 DEF TitleTasks
  <2>5. TalkTitles'
    BY <2>3, <2>4, TitlesPass DEF Quietly, Wholesome
  <2> QED  BY <1>1, <2>3, <2>4, <2>5, QuietStep
<1>4. CASE ~Session!CanAppendIfHead(sTask[g].head)
  <2>1. sLog' = sLog /\ sTask' = [sTask EXCEPT ![g] = Session!IdleTask]
    BY <1>4 DEF Session!Claim, Session!Finish
  <2>2. sTask' \in [Generator -> TitleTasks] /\ \A h \in Generator : sTask'[h].stage = "publish" => sTask'[h] = sTask[h]
    BY <1>2, <2>1 DEF Session!IdleTask
  <2>3. TalkTitles'
    BY <2>1, <2>2 DEF TalkInv, TalkTitles
  <2> QED  BY <1>1, <2>1, <2>2, <2>3, QuietStep DEF TalkInv
<1> QED  BY <1>3, <1>4

LEMMA TitleAnsweredKeeps ==
  ASSUME TalkInv, NEW g \in Generator, Session!TitleAnswered(g)
  PROVE  TalkInv'
<1>1. sLog' = sLog /\ UNCHANGED <<sBusy, sSource, sRewindPoint, sConversation, sForeign>>
  BY DEF Session!TitleAnswered, Session!titleFrame
<1>2. /\ sTask \in [Generator -> TitleTasks] /\ Session!IdleTask \in TitleTasks /\ sTask[g] \in TitleTasks
      /\ Len(sLog) \in Nat
  BY TalkFacts DEF TalkInv, TalkTypes, TitleTasks, Session!IdleTask
<1>3. CASE sTask' = [sTask EXCEPT ![g] = Session!IdleTask]
  <2>1. sTask' \in [Generator -> TitleTasks] /\ \A h \in Generator : sTask'[h].stage = "publish" => sTask'[h] = sTask[h]
    BY <1>2, <1>3 DEF Session!IdleTask
  <2>2. TalkTitles'
    BY <1>1, <2>1 DEF TalkInv, TalkTitles
  <2> QED  BY <1>1, <2>1, <2>2, QuietStep DEF TalkInv
<1>4. ASSUME ~Session!UserTitled, NEW stage \in {"publish", "settle"},
             sTask' = [sTask EXCEPT ![g].stage = stage, ![g].head = Len(sLog)]
      PROVE  TalkInv'
  <2>1. ~TitledByUser(sLog)
    BY <1>4, TitleFacts
  <2>2. /\ sTask' \in [Generator -> TitleTasks]
        /\ \A h \in Generator : h # g => sTask'[h] = sTask[h]
        /\ sTask'[g].head = Len(sLog)
    BY <1>2, <1>4 DEF TitleTasks
  <2>3. TalkTitles'
    BY <1>1, <1>2, <2>1, <2>2 DEF TalkInv, TalkTitles
  <2> QED  BY <1>1, <2>2, <2>3, QuietStep DEF TalkInv
<1> QED  BY <1>3, <1>4 DEF Session!TitleAnswered, Session!Finish

LEMMA PublishKeeps ==
  ASSUME TalkInv, NEW g \in Generator, Session!Publish(g)
  PROVE  TalkInv'
<1>1. UNCHANGED <<sBusy, sSource, sRewindPoint, sConversation, sForeign>>
  BY DEF Session!Publish, Session!titleFrame
<1>2. sTask \in [Generator -> TitleTasks] /\ Session!IdleTask \in TitleTasks /\ sTask[g] \in TitleTasks
  BY TalkFacts DEF TalkInv, TalkTypes, TitleTasks, Session!IdleTask
<1>3. CASE Session!CanAppendIfHead(sTask[g].head)
  <2>. DEFINE r == [Session!Record("title", 0) EXCEPT !.by = "generated"]
              titled == Session!AppendBelow(r, Len(sLog))
              u == Session!Record("usage", Len(titled))
  <2>1. sTask' = [sTask EXCEPT ![g].stage = "settle"] /\ sLog' \in {titled, Append(titled, u)}
    BY <1>3, Zenon DEF Session!Publish, Session!Move, Session!AppendAtTail
  <2>2. ~TitledByUser(sLog)
    BY <1>3 DEF Session!Publish, Session!CanAppendIfHead, TalkInv, TalkTitles
  <2>3. Looks(r, "title", {}, "generated", 0)
    BY RecordLooks DEF Kinds, QuietKinds, Authors
  <2>. HIDE DEF r
  <2>4. Quietly(sLog, titled) /\ TitlesStand(titled)
    <3>1. PICK e \in TextRecords : Looks(e, "title", {}, "generated", Len(sLog)) /\ titled = Append(sLog, e)
      BY <2>3, TailAppends
    <3> QED  BY <2>2, <3>1, QuietTail DEF QuietKinds
  <2>. HIDE DEF titled
  <2>5. Looks(u, "usage", {}, "none", Len(titled))
    <3>1. Len(titled) \in Nat /\ "usage" \in Kinds
      BY <2>4 DEF Quietly, Wholesome, Kinds, QuietKinds
    <3> QED  BY <3>1, PlainLooks
  <2>. HIDE DEF u
  <2>6. Quietly(titled, Append(titled, u)) /\ TitlesStand(Append(titled, u))
    <3>1. u \in TextRecords /\ u.kind = "usage" /\ u.covers = {} /\ u.parent = Len(titled)
      BY <2>5 DEF Looks
    <3>2. Quietly(titled, Append(titled, u)) /\ Writes(titled, Append(titled, u), u, Len(titled))
      BY <2>4, <3>1, QuietAppends DEF Quietly, QuietKinds
    <3> QED  BY <2>4, <3>1, <3>2 DEF Writes
  <2>7. Quietly(sLog, Append(titled, u))
    BY <2>4, <2>6, QuietTwice DEF TalkInv
  <2>8. Quietly(sLog, sLog') /\ TitlesStand(sLog')
    BY <2>1, <2>4, <2>6, <2>7
  <2>9. /\ sTask' \in [Generator -> TitleTasks]
        /\ \A h \in Generator : sTask'[h].stage = "publish" => sTask'[h] = sTask[h]
    BY <1>2, <2>1 DEF TitleTasks
  <2>10. TalkTitles'
    BY <2>8, <2>9, TitlesPass DEF Quietly, Wholesome
  <2> QED  BY <1>1, <2>8, <2>9, <2>10, QuietStep
<1>4. CASE ~Session!CanAppendIfHead(sTask[g].head)
  <2>1. sLog' = sLog /\ sTask' = [sTask EXCEPT ![g] = Session!IdleTask]
    BY <1>4 DEF Session!Publish, Session!Finish
  <2>2. sTask' \in [Generator -> TitleTasks] /\ \A h \in Generator : sTask'[h].stage = "publish" => sTask'[h] = sTask[h]
    BY <1>2, <2>1 DEF Session!IdleTask
  <2>3. TalkTitles'
    BY <2>1, <2>2 DEF TalkInv, TalkTitles
  <2> QED  BY <1>1, <2>1, <2>2, <2>3, QuietStep DEF TalkInv
<1> QED  BY <1>3, <1>4

LEMMA SettleTitleKeeps ==
  ASSUME TalkInv, NEW g \in Generator, Session!Settle(g)
  PROVE  TalkInv'
<1>1. UNCHANGED <<sBusy, sSource, sRewindPoint, sConversation, sForeign>>
  BY DEF Session!Settle, Session!titleFrame
<1>2. sTask \in [Generator -> TitleTasks] /\ Session!IdleTask \in TitleTasks /\ sTask[g] \in TitleTasks
  BY TalkFacts DEF TalkInv, TalkTypes, TitleTasks, Session!IdleTask
<1>3. sTask' = [sTask EXCEPT ![g] = Session!IdleTask]
  BY DEF Session!Settle, Session!Finish
<1>4. sTask' \in [Generator -> TitleTasks] /\ \A h \in Generator : sTask'[h].stage = "publish" => sTask'[h] = sTask[h]
  BY <1>2, <1>3 DEF Session!IdleTask
<1>5. CASE sLog' = sLog
  <2>1. TalkTitles'
    BY <1>4, <1>5 DEF TalkInv, TalkTitles
  <2> QED  BY <1>1, <1>4, <1>5, <2>1, QuietStep DEF TalkInv
<1>6. ASSUME NEW by \in {"settled", "none"},
             sLog' = Session!AppendAtTail([Session!Record("titleState", 0) EXCEPT !.by = by,
                                              !.attempts = sTask[g].attempts + 1])
      PROVE  TalkInv'
  <2>. DEFINE r == [Session!Record("titleState", 0) EXCEPT !.by = by, !.attempts = sTask[g].attempts + 1]
  <2>1. sLog' = Session!AppendBelow(r, Len(sLog))
    BY <1>6, Zenon DEF Session!AppendAtTail
  <2>2. Looks(r, "titleState", {}, by, 0)
    <3>1. sTask[g].attempts + 1 \in Nat
      BY <1>2 DEF TitleTasks
    <3> QED  BY <3>1, RecordLooks DEF Kinds, QuietKinds, Authors
  <2>. HIDE DEF r
  <2>3. Quietly(sLog, sLog') /\ TitlesStand(sLog')
    <3>1. PICK e \in TextRecords : Looks(e, "titleState", {}, by, Len(sLog)) /\ sLog' = Append(sLog, e)
      BY <2>1, <2>2, TailAppends
    <3> QED  BY <3>1, QuietTail DEF QuietKinds
  <2>4. TalkTitles'
    BY <1>4, <2>3, TitlesPass DEF Quietly, Wholesome
  <2> QED  BY <1>1, <1>4, <2>3, <2>4, QuietStep
<1> QED  BY <1>5, <1>6 DEF Session!Settle

LEMMA TitleCommandKeeps ==
  ASSUME TalkInv, Session!RenameTitle \/ Session!RegenerateTitle
  PROVE  TalkInv'
<1>1. UNCHANGED <<sBusy, sSource, sRewindPoint, sConversation, sForeign>>
  BY DEF Session!RenameTitle, Session!RegenerateTitle, Session!titleFrame
<1>2. sTask \in [Generator -> TitleTasks] /\ Session!IdleTask \in TitleTasks
  BY TalkFacts DEF TalkInv, TalkTypes, TitleTasks, Session!IdleTask
<1>3. /\ sTask' \in [Generator -> TitleTasks]
      /\ \A h \in Generator : sTask'[h].stage = "publish" => sTask'[h] = sTask[h]
  <2>1. sTask' = sTask \/ sTask' = [g \in Generator |-> IF sTask[g].stage = "asking" THEN Session!IdleTask ELSE sTask[g]]
    BY DEF Session!RenameTitle, Session!RegenerateTitle
  <2> QED  BY <1>2, <2>1 DEF Session!IdleTask
<1>4. CASE Session!RenameTitle
  <2>. DEFINE r == [Session!Record("title", 0) EXCEPT !.by = "user"]
  <2>1. sLog' = Session!AppendBelow(r, Len(sLog))
    BY <1>4, Zenon DEF Session!RenameTitle, Session!AppendAtTail
  <2>2. Looks(r, "title", {}, "user", 0)
    BY RecordLooks DEF Kinds, QuietKinds, Authors
  <2>. HIDE DEF r
  <2>3. PICK e \in TextRecords : Looks(e, "title", {}, "user", Len(sLog)) /\ sLog' = Append(sLog, e)
    BY <2>1, <2>2, TailAppends
  <2>4. Quietly(sLog, sLog') /\ TitlesStand(sLog')
    BY <2>3, QuietTail DEF QuietKinds
  <2>5. TalkTitles'
    BY <1>3, <2>4, TitlesPass DEF Quietly, Wholesome
  <2> QED  BY <1>1, <1>3, <2>4, <2>5, QuietStep
<1>5. CASE Session!RegenerateTitle
  <2>1. sLog' = Session!AppendBelow(Session!Record("titleState", 0), Len(sLog))
    BY <1>5, Zenon DEF Session!RegenerateTitle, Session!AppendAtTail
  <2>2. Looks(Session!Record("titleState", 0), "titleState", {}, "none", 0)
    BY PlainLooks DEF Kinds, QuietKinds
  <2>3. PICK e \in TextRecords : Looks(e, "titleState", {}, "none", Len(sLog)) /\ sLog' = Append(sLog, e)
    BY <2>1, <2>2, TailAppends
  <2>4. Quietly(sLog, sLog') /\ TitlesStand(sLog')
    BY <2>3, QuietTail DEF QuietKinds
  <2>5. TalkTitles'
    BY <1>3, <2>4, TitlesPass DEF Quietly, Wholesome
  <2> QED  BY <1>1, <1>3, <2>4, <2>5, QuietStep
<1> QED  BY <1>4, <1>5

\* What an append below k that is not a title makes of the file.
Written(kind, c, k) ==
  /\ Wholesome(sLog') /\ TitlesStand(sLog') /\ TalkTitles'
  /\ Len(sLog') = Len(sLog) + 1 /\ Len(sLog') \in 0..Len(sLog')
  /\ 0..Len(sLog) \subseteq 0..Len(sLog') /\ 1..Len(sLog') = 1..Len(sLog) \cup {Len(sLog')}
  /\ \A h \in 0..Len(sLog) : TextShown(sLog', h) = TextShown(sLog, h)
  /\ kind \in QuietKinds => TextShown(sLog', Len(sLog')) = TextShown(sLog, k)
  /\ kind = "checkpoint" => TextShown(sLog', Len(sLog')) = c
  /\ kind \in SaidKinds => TextShown(sLog', Len(sLog')) = TextShown(sLog, k) \cup {Len(sLog')} \cup c
  /\ Unsummarized(sLog) /\ kind # "summary" => Unsummarized(sLog')
  /\ kind = "boundary" => Unsummarized(sLog')

LEMMA WriteFacts ==
  ASSUME TalkInv, NEW r, NEW kind, NEW c \in SUBSET (1..Len(sLog)), NEW by, NEW q, Looks(r, kind, c, by, q),
         NEW k \in 0..Len(sLog), kind = "checkpoint" => SaidOn(sLog, k) \subseteq c, kind # "title",
         sLog' = Session!AppendBelow(r, k), sTask' = sTask
  PROVE  Written(kind, c, k)
<1>1. k \in Nat /\ Len(sLog) \in Nat /\ Wholesome(sLog) /\ TitlesStand(sLog)
  BY TalkFacts DEF TalkInv
<1>2. PICK e \in TextRecords : Looks(e, kind, c, by, k) /\ sLog' = Append(sLog, e)
  BY <1>1, BelowAppends
<1>3. e.kind = kind /\ e.covers = c /\ e.parent = k
  BY <1>2 DEF Looks
<1>4. Writes(sLog, Append(sLog, e), e, k)
  BY <1>1, <1>3, WriteAppends
<1>5. Writes(sLog, sLog', e, k)
  BY <1>2, <1>4
<1>. DEFINE n == Len(sLog')
<1>6. /\ n = Len(sLog) + 1 /\ n \in 0..n /\ n \in Nat /\ Len(sLog) < n
      /\ 0..Len(sLog) \subseteq 0..n /\ 1..n = 1..Len(sLog) \cup {n}
  <2>1. n = Len(sLog) + 1
    BY <1>5 DEF Writes, TextGrows
  <2> QED  BY <1>1, <2>1
<1>7. TalkTitles'
  BY <1>6, TitlesPass
<1>8. Wholesome(sLog') /\ TitlesStand(sLog')
  BY <1>1, <1>3, <1>5 DEF Writes
<1>9. /\ \A h \in 0..Len(sLog) : TextShown(sLog', h) = TextShown(sLog, h)
      /\ kind \in QuietKinds => TextShown(sLog', n) = TextShown(sLog, k)
      /\ kind = "checkpoint" => TextShown(sLog', n) = c
      /\ kind \in SaidKinds => TextShown(sLog', n) = TextShown(sLog, k) \cup {n} \cup c
  BY <1>3, <1>5, <1>6 DEF Writes, TextGrows
<1>10. /\ Unsummarized(sLog) /\ kind # "summary" => Unsummarized(sLog')
       /\ kind = "boundary" => Unsummarized(sLog')
  BY <1>3, <1>5 DEF Writes
<1> QED  BY <1>6, <1>7, <1>8, <1>9, <1>10 DEF Written

\* Prompts, answers, the other process, rewinds, and the start of a compaction.
LEMMA SubmitTalkKeeps ==
  ASSUME TalkInv, Session!SubmitPrompt
  PROVE  TalkInv'
<1>1. /\ sBusy = "none" /\ sBusy' = "turn" /\ sRewindPoint' = {} /\ sSource' = sSource
      /\ sForeign' = sForeign /\ sTask' = sTask /\ sConversation' = sConversation \cup {Len(sLog')}
  BY DEF Session!SubmitPrompt
<1>2. sLog' = Session!AppendBelow(Session!Record("user", 0), NextParent) /\ NextParent \in 0..Len(sLog)
  BY TalkFacts DEF Session!SubmitPrompt
<1>3. Looks(Session!Record("user", 0), "user", {}, "none", 0)
  BY PlainLooks DEF Kinds, SaidKinds
<1>4. Written("user", {}, NextParent)
  BY <1>1, <1>2, <1>3, WriteFacts
<1>5. TalkTypes'
  BY <1>1, <1>4 DEF TalkInv, TalkTypes, Written
<1>6. TalkShows'
  <2>1. NextParent' = Len(sLog')
    BY <1>1 DEF NextParent
  <2>2. TextShown(sLog', Len(sLog')) = TextShown(sLog, NextParent) \cup {Len(sLog')}
    BY <1>4 DEF Written, SaidKinds
  <2>3. Unsummarized(sLog) => Unsummarized(sLog')
    BY <1>4 DEF Written
  <2> QED  BY <1>1, <2>1, <2>2, <2>3 DEF TalkInv, TalkShows
<1> QED  BY <1>4, <1>5, <1>6 DEF TalkInv, Written

LEMMA AnswerTalkKeeps ==
  ASSUME TalkInv, Session!Answer
  PROVE  TalkInv'
<1>1. /\ sBusy = "turn" /\ sBusy' \in {"turn", "none"} /\ sRewindPoint' = sRewindPoint /\ sSource' = sSource
      /\ sForeign' = sForeign /\ sTask' = sTask /\ sConversation' = sConversation \cup {Len(sLog')}
  BY DEF Session!Answer
<1>2. sLog' = Session!AppendBelow(Session!Record("assistant", 0), Len(sLog)) /\ Len(sLog) \in 0..Len(sLog)
  BY TalkFacts DEF Session!Answer, Session!AppendAtTail
<1>3. Looks(Session!Record("assistant", 0), "assistant", {}, "none", 0)
  BY PlainLooks DEF Kinds, SaidKinds
<1>4. Written("assistant", {}, Len(sLog))
  BY <1>1, <1>2, <1>3, WriteFacts
<1>5. sSource = Session!NoSource /\ sRewindPoint = {}
  BY <1>1 DEF TalkInv, TalkTypes, TalkShows
<1>6. TalkTypes'
  BY <1>1, <1>4, <1>5 DEF TalkInv, TalkTypes, Written
<1>7. TalkShows'
  <2>1. NextParent' = Len(sLog') /\ NextParent = Len(sLog)
    BY <1>1, <1>5 DEF NextParent
  <2>2. TextShown(sLog', Len(sLog')) = TextShown(sLog, Len(sLog)) \cup {Len(sLog')}
    BY <1>4 DEF Written, SaidKinds
  <2>3. Unsummarized(sLog) => Unsummarized(sLog')
    BY <1>4 DEF Written
  <2> QED  BY <1>1, <1>5, <2>1, <2>2, <2>3 DEF TalkInv, TalkShows
<1> QED  BY <1>4, <1>6, <1>7 DEF TalkInv, Written

LEMMA OtherProcessKeeps ==
  ASSUME TalkInv, Session!OtherProcess
  PROVE  TalkInv'
<1>1. /\ sBusy' = sBusy /\ sRewindPoint' = sRewindPoint /\ sSource' = sSource
      /\ sForeign' = TRUE /\ sTask' = sTask /\ sConversation' = sConversation
  BY DEF Session!OtherProcess
<1>2. PICK kind \in {"user", "assistant"} : sLog' = Session!AppendBelow(Session!Record(kind, 0), Len(sLog))
  BY DEF Session!OtherProcess, Session!AppendAtTail
<1>3. Looks(Session!Record(kind, 0), kind, {}, "none", 0) /\ Len(sLog) \in 0..Len(sLog)
  BY PlainLooks, TalkFacts DEF Kinds, SaidKinds
<1>4. Written(kind, {}, Len(sLog))
  BY <1>1, <1>2, <1>3, WriteFacts
<1>5. TalkTypes'
  BY <1>1, <1>4 DEF TalkInv, TalkTypes, Written
<1>6. TalkShows'
  <2>1. TextShown(sLog', sSource.head) = TextShown(sLog, sSource.head)
    BY <1>4 DEF TalkInv, TalkTypes, Written
  <2> QED  BY <1>1, <2>1 DEF TalkInv, TalkShows
<1> QED  BY <1>4, <1>5, <1>6 DEF TalkInv, Written

\* The file and the titles are left alone.
LEMMA FileStays ==
  ASSUME TalkInv, sLog' = sLog, sTask' = sTask
  PROVE  /\ Wholesome(sLog') /\ TitlesStand(sLog') /\ TalkTitles'
         /\ \A h \in 0..Len(sLog) : TextShown(sLog', h) = TextShown(sLog, h)
BY DEF TalkInv, TalkTitles

LEMMA BranchTypes ==
  ASSUME TalkInv, NEW i \in Session!Range(Session!ActiveBranch(sLog))
  PROVE  sLog[i].parent \in 0..Len(sLog)
<1>1. Session!Branch(sLog, Len(sLog)) = Branch(sLog, Len(sLog)) /\ \A s : Session!Range(s) = Range(s)
  BY SessionNames, Zenon
<1>2. Tree(sLog) /\ Len(sLog) \in 0..Len(sLog) /\ Len(sLog) \in Nat
  BY TalkFacts DEF TalkInv, Wholesome
<1>3. Range(Branch(sLog, Len(sLog))) \subseteq 1..Len(sLog)
  BY <1>2, BranchSteps
<1>4. i \in 1..Len(sLog)
  BY <1>1, <1>3, Zenon DEF Session!ActiveBranch
<1> QED  BY <1>2, <1>4 DEF Tree

LEMMA RewindTalkKeeps ==
  ASSUME TalkInv, Session!Rewind
  PROVE  TalkInv'
<1>1. sBusy = "none" /\ sBusy' = sBusy /\ sSource' = sSource /\ sForeign' = sForeign /\ sTask' = sTask /\ sLog' = sLog
  BY DEF Session!Rewind
<1>2. PICK i \in Session!Range(Session!ActiveBranch(sLog)) :
        sRewindPoint' = {sLog[i].parent} /\ sConversation' = Session!Shown(sLog, sLog[i].parent)
  BY DEF Session!Rewind
<1>3. PICK x \in 0..Len(sLog) : x = sLog[i].parent
  BY BranchTypes
<1>4. sRewindPoint' = {x} /\ sConversation' = TextShown(sLog, x) /\ TextShown(sLog, x) \subseteq 1..Len(sLog)
  BY <1>2, <1>3, TalkFacts
<1>5. TalkTypes'
  BY <1>1, <1>4 DEF TalkInv, TalkTypes
<1>6. TalkShows'
  <2>1. NextParent' = x
    BY <1>4, TalkFacts DEF NextParent
  <2> QED  BY <1>1, <1>4, <2>1 DEF TalkInv, TalkShows
<1> QED  BY <1>1, <1>5, <1>6, FileStays DEF TalkInv

LEMMA StartCompactionKeeps ==
  ASSUME TalkInv, Session!StartCompaction
  PROVE  TalkInv'
<1>1. /\ sLog' = sLog /\ sRewindPoint' = sRewindPoint /\ sConversation' = sConversation /\ sTask' = sTask
      /\ sForeign' = sForeign /\ sBusy \in {"none", "turn"}
      /\ sBusy' = IF sBusy = "turn" THEN "midTurn" ELSE "compacting"
      /\ sSource' = [head |-> Len(sLog), covers |-> Session!Shown(sLog, Len(sLog))]
  BY DEF Session!StartCompaction
<1>2. sSource' = [head |-> Len(sLog), covers |-> TextShown(sLog, Len(sLog))]
  BY <1>1, TalkFacts
<1>3. TextShown(sLog, Len(sLog)) \subseteq 1..Len(sLog) /\ Len(sLog) \in 0..Len(sLog) /\ Len(sLog) \in Nat
  BY TalkFacts
<1>4. TalkTypes'
  BY <1>1, <1>2, <1>3 DEF TalkInv, TalkTypes, Sources
<1>5. TalkShows'
  BY <1>1, <1>2 DEF TalkInv, TalkShows, NextParent
<1> QED  BY <1>1, <1>4, <1>5, FileStays DEF TalkInv

LEMMA StartSummaryKeeps ==
  ASSUME TalkInv, Session!StartSummary
  PROVE  TalkInv'
<1>1. /\ sLog' = sLog /\ sRewindPoint' = sRewindPoint /\ sConversation' = sConversation /\ sTask' = sTask
      /\ sForeign' = sForeign /\ sBusy' = "summarizing"
  BY DEF Session!StartSummary
<1>2. PICK i \in Session!Range(Session!ActiveBranch(sLog)) :
        sSource' = [head |-> sLog[i].parent,
                    covers |-> Session!Shown(sLog, Len(sLog)) \ Session!Shown(sLog, sLog[i].parent)]
  BY DEF Session!StartSummary
<1>3. PICK x \in 0..Len(sLog) : x = sLog[i].parent
  BY BranchTypes
<1>4. Session!Shown(sLog, Len(sLog)) \subseteq 1..Len(sLog) /\ Len(sLog) \in Nat
  BY TalkFacts
<1>5. TalkTypes'
  BY <1>1, <1>2, <1>3, <1>4 DEF TalkInv, TalkTypes, Sources
<1>6. TalkShows'
  BY <1>1 DEF TalkInv, TalkShows, NextParent
<1> QED  BY <1>1, <1>5, <1>6, FileStays DEF TalkInv

\* The checkpoint, and the record of Skills lost that may follow it.
LEMMA InstallTalkKeeps ==
  ASSUME TalkInv, Session!Install
  PROVE  TalkInv'
<1>1. /\ sBusy \in {"compacting", "midTurn"} /\ sBusy' = (IF sBusy = "midTurn" THEN "turn" ELSE "none")
      /\ sSource' = Session!NoSource /\ sForeign' = sForeign /\ sTask' = sTask
  BY DEF Session!Install
<1>2. Session!NoSource \in Sources /\ Session!NoSource.head = 0 /\ Session!NoSource.covers = {}
  BY DEF Session!NoSource, Sources
<1>3. /\ Len(sLog) \in Nat /\ Len(sLog) \in 0..Len(sLog) /\ sSource.covers \in SUBSET Nat
      /\ sSource.covers \subseteq 1..Len(sLog)
  BY TalkFacts DEF TalkInv, TalkTypes
<1>4. CASE ~Session!CanAppendIfHead(sSource.head)
  <2>1. sLog' = sLog /\ sRewindPoint' = sRewindPoint /\ sConversation' = sConversation
    BY <1>4 DEF Session!Install
  <2>2. TalkTypes'
    BY <1>1, <1>2, <1>3, <2>1 DEF TalkInv, TalkTypes
  <2>3. TalkShows'
    BY <1>1, <2>1 DEF TalkInv, TalkShows, NextParent
  <2> QED  BY <1>1, <2>1, <2>2, <2>3, FileStays DEF TalkInv
<1>5. CASE Session!CanAppendIfHead(sSource.head)
  <2>. DEFINE r == [Session!Record("checkpoint", 0) EXCEPT !.covers = sSource.covers]
              installed == Session!AppendBelow(r, Len(sLog))
              n == Len(sLog) + 1
              lost == Session!Record("lost", n)
  <2>1. /\ sLog' \in {installed, Append(installed, lost)}
        /\ sConversation' = Session!Shown(installed, n)
        /\ sRewindPoint' = IF sBusy = "compacting" THEN {n} ELSE sRewindPoint
    BY <1>5, Zenon DEF Session!Install, Session!AppendAtTail
  <2>2. sSource.covers = TextShown(sLog, Len(sLog)) /\ SaidOn(sLog, Len(sLog)) \subseteq sSource.covers
    BY <1>1, <1>3, <1>5 DEF Session!CanAppendIfHead, TalkInv, TalkShows, Wholesome
  <2>3. Looks(r, "checkpoint", sSource.covers, "none", 0)
    BY <1>3, RecordLooks DEF Kinds, Authors
  <2>4. Looks(lost, "lost", {}, "none", n) /\ n \in Nat /\ n # 0
    BY <1>3, PlainLooks DEF Kinds, QuietKinds
  <2>. HIDE DEF r, lost
  <2>5. PICK e \in TextRecords : Looks(e, "checkpoint", sSource.covers, "none", Len(sLog)) /\ installed = Append(sLog, e)
    BY <2>3, TailAppends
  <2>6. e.kind = "checkpoint" /\ e.covers = sSource.covers /\ e.parent = Len(sLog)
    BY <2>5 DEF Looks
  <2>7. Writes(sLog, installed, e, Len(sLog))
    <3>1. Writes(sLog, Append(sLog, e), e, Len(sLog))
      BY <1>3, <2>2, <2>6, WriteAppends DEF TalkInv
    <3> QED  BY <2>5, <3>1
  <2>. HIDE DEF installed
  <2>8. /\ Wholesome(installed) /\ TitlesStand(installed) /\ Len(installed) = n
        /\ TextShown(installed, n) = sSource.covers
        /\ Unsummarized(sLog) => Unsummarized(installed)
    BY <2>6, <2>7 DEF Writes, TextGrows, TalkInv
  <2>9. sConversation' = sSource.covers
    BY <2>1, <2>8, TextNames
  <2>10. Quietly(installed, Append(installed, lost)) /\ TitlesStand(Append(installed, lost))
    <3>1. lost \in TextRecords /\ lost.kind = "lost" /\ lost.covers = {} /\ lost.parent = n
      BY <2>4 DEF Looks
    <3>2. Quietly(installed, Append(installed, lost)) /\ Writes(installed, Append(installed, lost), lost, n)
      BY <2>8, <3>1, QuietAppends DEF QuietKinds
    <3> QED  BY <2>8, <3>1, <3>2 DEF Writes
  <2>11. /\ Wholesome(sLog') /\ TitlesStand(sLog') /\ Len(sLog') \in Nat /\ n <= Len(sLog')
         /\ TextShown(sLog', n) = sSource.covers /\ TextShown(sLog', Len(sLog')) = sSource.covers
         /\ Unsummarized(sLog) => Unsummarized(sLog')
    <3>1. CASE sLog' = installed
      BY <2>4, <2>8, <3>1
    <3>2. CASE sLog' = Append(installed, lost)
      <4>1. Quietly(installed, sLog') /\ TitlesStand(sLog')
        BY <2>10, <3>2
      <4>2. n \in 0..n
        BY <2>4
      <4> QED  BY <2>4, <2>8, <4>1, <4>2 DEF Quietly, Wholesome
    <3> QED  BY <2>1, <3>1, <3>2
  <2>12. /\ n \in 0..Len(sLog') /\ 0..Len(sLog) \subseteq 0..Len(sLog') /\ 1..Len(sLog) \subseteq 1..Len(sLog')
         /\ Len(sLog) < Len(sLog') /\ 0 \in 0..Len(sLog')
    BY <1>3, <2>11
  <2>13. TalkTypes'
    <3>1. sRewindPoint' = {} \/ \E x \in 0..Len(sLog') : sRewindPoint' = {x}
      BY <1>1, <2>1, <2>12 DEF TalkInv, TalkShows
    <3>2. sConversation' \subseteq 1..Len(sLog')
      BY <1>3, <2>9, <2>12
    <3> QED  BY <1>1, <1>2, <2>12, <3>1, <3>2 DEF TalkInv, TalkTypes
  <2>14. TalkShows'
    <3>1. TextShown(sLog', NextParent') = sSource.covers
      <4>1. CASE sBusy = "compacting"
        <5>1. sRewindPoint' = {n}
          BY <2>1, <4>1
        <5>2. NextParent' = n
          BY <2>4, <5>1, TalkFacts DEF NextParent
        <5> QED  BY <2>11, <5>2
      <4>2. CASE sBusy = "midTurn"
        <5>1. sRewindPoint' = {}
          BY <2>1, <4>2 DEF TalkInv, TalkShows
        <5>2. NextParent' = Len(sLog')
          BY <5>1 DEF NextParent
        <5> QED  BY <2>11, <5>2
      <4> QED  BY <1>1, <4>1, <4>2
    <3>2. sBusy' \notin {"compacting", "midTurn"} /\ (sBusy' = "turn" => sRewindPoint' = {})
      BY <1>1, <2>1 DEF TalkInv, TalkShows
    <3> QED  BY <2>9, <3>1, <3>2 DEF TalkShows
  <2>15. TalkTitles'
    BY <1>1, <2>11, <2>12, TitlesPass
  <2> QED  BY <2>11, <2>13, <2>14, <2>15 DEF TalkInv
<1> QED  BY <1>4, <1>5

\* Summarize-from-here, a restart, and the whole of a step.
LEMMA AppendBoundaryKeeps ==
  ASSUME TalkInv, Session!AppendBoundary
  PROVE  TalkInv'
<1>1. /\ sBusy = "summarizing" /\ sBusy' \in {"summary", "none"} /\ sRewindPoint' = sRewindPoint
      /\ sConversation' = sConversation /\ sTask' = sTask /\ sForeign' = sForeign
      /\ sSource' = (IF sBusy' = "none" THEN Session!NoSource ELSE sSource)
  BY DEF Session!AppendBoundary
<1>2. Session!NoSource \in Sources /\ Session!NoSource.head = 0 /\ Session!NoSource.covers = {}
  BY DEF Session!NoSource, Sources
<1>3. Len(sLog) \in Nat
  BY TalkFacts
<1>4. CASE sBusy' = "none" /\ sLog' = sLog
  <2>1. TalkTypes'
    BY <1>1, <1>2, <1>3, <1>4 DEF TalkInv, TalkTypes
  <2>2. TalkShows'
    BY <1>1, <1>4 DEF TalkInv, TalkShows, NextParent
  <2> QED  BY <1>1, <1>4, <2>1, <2>2, FileStays DEF TalkInv
<1>5. CASE sBusy' = "summary" /\ sLog' = Session!AppendBelow(Session!Record("boundary", 0), sSource.head)
  <2>1. Looks(Session!Record("boundary", 0), "boundary", {}, "none", 0) /\ sSource.head \in 0..Len(sLog)
    BY PlainLooks DEF Kinds, QuietKinds, TalkInv, TalkTypes
  <2>2. Written("boundary", {}, sSource.head)
    BY <1>1, <1>5, <2>1, WriteFacts
  <2>3. TalkTypes'
    BY <1>1, <1>5, <2>2 DEF TalkInv, TalkTypes, Written
  <2>4. TalkShows'
    BY <1>5, <2>2 DEF TalkShows, Written
  <2> QED  BY <2>2, <2>3, <2>4 DEF TalkInv, Written
<1> QED  BY <1>4, <1>5 DEF Session!AppendBoundary

LEMMA AppendSummaryKeeps ==
  ASSUME TalkInv, Session!AppendSummary
  PROVE  TalkInv'
<1>1. sBusy' = "none" /\ sTask' = sTask /\ sForeign' = sForeign /\ sSource' = Session!NoSource
  BY DEF Session!AppendSummary
<1>2. Session!NoSource \in Sources /\ Session!NoSource.head = 0 /\ Session!NoSource.covers = {}
  BY DEF Session!NoSource, Sources
<1>3. Len(sLog) \in Nat /\ Len(sLog) \in 0..Len(sLog)
  BY TalkFacts
<1>4. CASE sLog' = sLog /\ sConversation' = sConversation /\ sRewindPoint' = sRewindPoint
  <2>1. TalkTypes'
    BY <1>1, <1>2, <1>3, <1>4 DEF TalkInv, TalkTypes
  <2>2. TalkShows'
    BY <1>1, <1>4 DEF TalkInv, TalkShows, NextParent
  <2> QED  BY <1>1, <1>4, <2>1, <2>2, FileStays DEF TalkInv
<1>5. CASE /\ sLog' = Session!AppendAtTail([Session!Record("summary", 0) EXCEPT !.covers = sSource.covers])
           /\ sConversation' = Session!Shown(sLog', Len(sLog')) /\ sRewindPoint' = {Len(sLog')}
  <2>. DEFINE r == [Session!Record("summary", 0) EXCEPT !.covers = sSource.covers]
  <2>1. sLog' = Session!AppendBelow(r, Len(sLog))
    BY <1>5, Zenon DEF Session!AppendAtTail
  <2>2. sSource.covers \in SUBSET Nat /\ sSource.covers \in SUBSET (1..Len(sLog))
    BY <1>3 DEF TalkInv, TalkTypes
  <2>3. Looks(r, "summary", sSource.covers, "none", 0)
    BY <2>2, RecordLooks DEF Kinds, SaidKinds, Authors
  <2>. HIDE DEF r
  <2>4. Written("summary", sSource.covers, Len(sLog))
    BY <1>1, <1>3, <2>1, <2>2, <2>3, WriteFacts
  <2>. DEFINE n == Len(sLog')
  <2>5. n \in Nat /\ n \in 0..n /\ 0 \in 0..n /\ Wholesome(sLog')
    BY <1>3, <2>4 DEF Written
  <2>6. TextShown(sLog', n) \subseteq 1..n /\ sConversation' = TextShown(sLog', n)
    BY <1>5, <2>5, TextNames, TextWithin DEF Wholesome
  <2>7. NextParent' = n
    BY <1>5, <2>5, TalkFacts DEF NextParent
  <2>8. TalkTypes'
    BY <1>1, <1>2, <1>5, <2>5, <2>6 DEF TalkInv, TalkTypes
  <2>9. TalkShows'
    BY <1>1, <2>6, <2>7 DEF TalkShows
  <2> QED  BY <2>4, <2>8, <2>9 DEF TalkInv, Written
<1> QED  BY <1>4, <1>5, Zenon DEF Session!AppendSummary

LEMMA RestartTalkKeeps ==
  ASSUME TalkInv, Session!Restart
  PROVE  TalkInv'
<1>1. /\ sBusy' = "none" /\ sLog' = sLog /\ sForeign' = sForeign /\ sSource' = Session!NoSource
      /\ sRewindPoint' = {} /\ sConversation' = Session!Shown(sLog, Len(sLog))
      /\ sTask' = [g \in Generator |-> Session!IdleTask]
  BY DEF Session!Restart
<1>2. /\ Session!NoSource \in Sources /\ Session!NoSource.head = 0 /\ Session!NoSource.covers = {}
      /\ Session!IdleTask \in TitleTasks /\ Session!IdleTask.stage = "idle"
  BY DEF Session!NoSource, Sources, Session!IdleTask, TitleTasks
<1>3. /\ sConversation' = TextShown(sLog, Len(sLog)) /\ TextShown(sLog, Len(sLog)) \subseteq 1..Len(sLog)
      /\ Len(sLog) \in Nat /\ 0 \in 0..Len(sLog)
  BY <1>1, TalkFacts
<1>4. TalkTypes'
  BY <1>1, <1>2, <1>3 DEF TalkTypes
<1>5. NextParent' = Len(sLog')
  BY <1>1 DEF NextParent
<1>6. TalkShows'
  BY <1>1, <1>3, <1>5 DEF TalkShows
<1>7. TalkTitles'
  BY <1>1, <1>2 DEF TalkTitles
<1> QED  BY <1>1, <1>4, <1>6, <1>7 DEF TalkInv

LEMMA TalkStarts ==
  ASSUME Session!Init
  PROVE  TalkInv
<1>1. /\ sLog = <<>> /\ sBusy = "none" /\ sSource = Session!NoSource /\ sRewindPoint = {} /\ sConversation = {}
      /\ sTask = [g \in Generator |-> Session!IdleTask]
  BY DEF Session!Init
<1>2. /\ Session!NoSource \in Sources /\ Session!NoSource.head = 0 /\ Session!NoSource.covers = {}
      /\ Session!IdleTask \in TitleTasks /\ Session!IdleTask.stage = "idle"
  BY DEF Session!NoSource, Sources, Session!IdleTask, TitleTasks
<1>3. sLog \in Seq(TextRecords) /\ Len(sLog) = 0 /\ Tree(sLog) /\ \A i \in 1..Len(sLog) : sLog[i].covers \subseteq 1..(i - 1)
  BY <1>1 DEF Tree
<1>4. 0 \in 0..Len(sLog) /\ TextShown(sLog, 0) = {} /\ SaidOn(sLog, 0) = {}
  <2>1. 0 \in 0..Len(sLog)
    BY <1>3
  <2> QED  BY <1>3, <2>1, TextWithin
<1>5. Wholesome(sLog)
  BY <1>3, <1>4 DEF Wholesome
<1>6. TitlesStand(sLog) /\ TalkTitles
  BY <1>1, <1>2, <1>3 DEF TitlesStand, TitlesIn, TalkTitles
<1>7. TalkTypes
  BY <1>1, <1>2, <1>4 DEF TalkTypes
<1>8. TalkShows
  BY <1>1, <1>3, <1>4 DEF TalkShows, NextParent
<1> QED  BY <1>5, <1>6, <1>7, <1>8 DEF TalkInv

LEMMA TalkStep ==
  ASSUME TalkInv, Session!Next
  PROVE  TalkInv'
<1>1. CASE Session!SubmitPrompt \/ Session!Answer \/ Session!Rewind \/ Session!OtherProcess
  BY <1>1, SubmitTalkKeeps, AnswerTalkKeeps, RewindTalkKeeps, OtherProcessKeeps
<1>2. CASE Session!StartCompaction \/ Session!Install
  BY <1>2, StartCompactionKeeps, InstallTalkKeeps
<1>3. CASE Session!StartSummary \/ Session!AppendBoundary \/ Session!AppendSummary
  BY <1>3, StartSummaryKeeps, AppendBoundaryKeeps, AppendSummaryKeeps
<1>4. ASSUME NEW g \in Generator,
             \/ Session!ConsiderTitle(g) \/ Session!Claim(g) \/ Session!TitleAnswered(g)
             \/ Session!Publish(g) \/ Session!Settle(g)
      PROVE  TalkInv'
  BY <1>4, ConsiderTitleKeeps, ClaimKeeps, TitleAnsweredKeeps, PublishKeeps, SettleTitleKeeps
<1>5. CASE Session!RenameTitle \/ Session!RegenerateTitle \/ Session!Restart
  BY <1>5, TitleCommandKeeps, RestartTalkKeeps
<1> QED  BY <1>1, <1>2, <1>3, <1>4, <1>5 DEF Session!Next

LEMMA TalkStutter ==
  ASSUME TalkInv, UNCHANGED sessionVars
  PROVE  TalkInv'
BY DEF sessionVars, TalkInv, TalkTypes, TalkShows, TalkTitles, NextParent

\* The invariant is stronger than what the runs check.
LEMMA TalkSafe ==
  ASSUME TalkInv
  PROVE  /\ Session!NothingDropped /\ Session!ConversationOnDisk /\ Session!UserTitleStands
         /\ Session!TypeOK
<1>1. Session!NothingDropped
  BY TextNames, TalkFacts DEF Session!NothingDropped, TalkInv, Wholesome
<1>2. Session!ConversationOnDisk
  BY TalkFacts DEF Session!ConversationOnDisk, TalkInv, TalkShows
<1>3. Session!UserTitleStands
  BY TitleFacts DEF Session!UserTitleStands, TalkInv, TitlesStand
<1>4. \A i \in DOMAIN sLog : sLog[i].parent < i /\ sLog[i].covers \subseteq 1..(i - 1)
  BY TalkFacts DEF TalkInv, Wholesome, Tree
<1>5. \A g \in Generator : sTask[g].stage \in {"idle", "claim", "asking", "publish", "settle"}
  BY TalkFacts DEF TitleTasks
<1>6. Session!TypeOK
  BY <1>4, <1>5, TalkFacts DEF TalkInv, TalkTypes, Session!TypeOK
<1> QED  BY <1>1, <1>2, <1>3, <1>6

TalkHold == part = "session" => TalkInv

\* The invariant holds as long as the session is the part that moves.
LEMMA TalkAlways == Spec => []TalkHold
<1>1. Init => TalkHold
  BY TalkStarts DEF Init, TalkHold
<1>2. TalkHold /\ [Next]_vars => TalkHold'
  <2> SUFFICES ASSUME TalkHold, [Next]_vars, part' = "session"
               PROVE  TalkInv'
    BY DEF TalkHold
  <2>1. CASE UNCHANGED vars
    BY <2>1, TalkStutter DEF vars, TalkHold
  <2>2. CASE part = "session" /\ Session!Next
    BY <2>2, TalkStep DEF TalkHold
  <2>3. CASE Next /\ ~(part = "session" /\ Session!Next)
    <3>1. part' = part
      BY <2>3 DEF Next
    <3> QED  BY <2>3, <3>1 DEF Next
  <2> QED  BY <2>1, <2>2, <2>3
<1> QED  BY <1>1, <1>2, PTL DEF Spec

\* The session file is the whole history, for every number of records, compactions,
\* title generations, other writers and crashes: each message of a branch is in the
\* history projected for it, itself or in a summary; the next request carries what
\* a resume would load; and no generated title follows the user's
\* (session/append-store.ts, compact/service.ts, session/title.ts).
THEOREM HistorySafety == Spec => []HistoryWhole
<1>1. TalkHold => HistoryWhole
  BY TalkSafe DEF TalkHold, HistoryWhole
<1> QED  BY <1>1, TalkAlways, PTL
=============================================================================
