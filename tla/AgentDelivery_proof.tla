------------------------- MODULE AgentDelivery_proof -------------------------
(***************************************************************************)
(* Why a background result reaches its session safely, for every set of    *)
(* entries and every bound.  The argument: the file grows only by records  *)
(* behind records it has (AppendKeeps), so a branch once written stays     *)
(* what it is; a packet is written only where its branch has none of the   *)
(* same batch (InputSafe); and a drain acknowledges only behind the reply  *)
(* of the turn that carried its packet (ReplySafe).                        *)
(***************************************************************************)
EXTENDS AgentDelivery, DataLemmas

-----------------------------------------------------------------------------
(* The inductive invariant.                                                  *)

Turns == [kind : {"none", "prompt", "delivery"},
          stage : {"none", "input", "snapshot", "provider", "waiting", "recording"},
          parent : SUBSET Nat, input : Nat, wait : Entry \cup {NoEntry}, messages : Seq(Nat)]

\* What a turn carries at each stage; a delivery never forks.
TurnShape ==
  /\ turn \in Turns /\ conversation \in Seq(Nat)
  /\ turn.kind = "delivery" => turn.parent = {}
  /\ turn.parent \subseteq 0..Len(log)
  /\ turn.stage \notin {"none", "input"} => turn.input \in DOMAIN log
  /\ turn.stage \in {"waiting", "recording"} => turn.wait \in Entry

\* A delivery past its input has the packet of its batch on the active branch,
\* written by it or found there.
PacketOnBranch ==
  turn.kind = "delivery" /\ turn.stage # "input" =>
    \E j \in Range(ActiveBranch(log)) : log[j].kind = "packet" /\ log[j].ids = batch

\* A drain acknowledges only what the model has answered.
AcksAnswered == drain = "acking" => \A e \in batch : Answered(e)

\* A paused session has no delivery under way, and no drain about to start one.
PausedAtRest == paused => drain \in {"idle", "sleeping"}

IInv == TypeOK /\ TurnShape /\ PacketOnBranch /\ AcksAnswered /\ PausedAtRest /\ OnePacketPerBatch

-----------------------------------------------------------------------------
(* What a step does to the session file.                                     *)

\* A record the file may be extended by: its parent is there, and a packet is
\* new on its branch.
Fresh(record) ==
  /\ record \in Records /\ record.parent \in 0..Len(log)
  /\ record.kind = "packet" =>
       \A i \in Range(Branch(log, record.parent)) : ~(log[i].kind = "packet" /\ log[i].ids = record.ids)

Writes(record) == Fresh(record) /\ log' = Append(log, record)

\* The session file is a tree.
LEMMA LogTree ==
  ASSUME TypeOK
  PROVE  Tree(log)
<1>1. log \in Seq(Records) /\ \A i \in DOMAIN log : log[i].parent < i
  BY DEF TypeOK
<1>2. Len(log) \in Nat /\ DOMAIN log = 1..Len(log) /\ \A i \in 1..Len(log) : log[i] \in Records
  BY <1>1
<1>3. \A i \in 1..Len(log) : log[i].parent \in Nat
  BY <1>2 DEF Records
<1>4. QED
  BY <1>1, <1>2, <1>3 DEF Tree

\* An append leaves every record and every branch as it was.
LEMMA AppendKeeps ==
  ASSUME TypeOK, NEW record, Writes(record)
  PROVE  /\ log' \in Seq(Records) /\ Len(log) \in Nat /\ Len(log') = Len(log) + 1
         /\ DOMAIN log = 1..Len(log) /\ DOMAIN log' = 1..(Len(log) + 1)
         /\ log'[Len(log) + 1] = record /\ \A i \in 1..Len(log) : log'[i] = log[i]
         /\ \A i \in DOMAIN log' : log'[i].parent < i
         /\ \A i \in 0..Len(log) : Branch(log', i) = Branch(log, i) /\ Range(Branch(log, i)) \subseteq 1..i
         /\ Range(Branch(log', Len(log) + 1)) = Range(Branch(log, record.parent)) \cup {Len(log) + 1}
<1>1. log \in Seq(Records) /\ record \in Records /\ record.parent \in 0..Len(log) /\ log' = Append(log, record)
  BY DEF TypeOK, Writes, Fresh
<1>2. /\ log' \in Seq(Records) /\ Len(log) \in Nat /\ Len(log') = Len(log) + 1
      /\ DOMAIN log = 1..Len(log) /\ DOMAIN log' = 1..(Len(log) + 1)
      /\ log'[Len(log) + 1] = record /\ \A i \in 1..Len(log) : log'[i] = log[i]
  BY <1>1
<1>3. Tree(log)
  BY LogTree
<1>4. \A i \in 1..(Len(log) + 1) : log'[i].parent \in 0..(i - 1)
  BY <1>1, <1>2, <1>3 DEF Tree
<1>5. Tree(log')
  BY <1>2, <1>4 DEF Tree
<1>6. \A i \in 0..Len(log) : Branch(log', i) = Branch(log, i)
  <2>1. Len(log) <= Len(log')
    BY <1>2
  <2>2. QED
    BY <1>2, <1>3, <1>5, <2>1, BranchGrows
<1>7. \A i \in 0..Len(log) : Branch(log, i) \in Seq(Nat) /\ Range(Branch(log, i)) \subseteq 1..i
  BY <1>3, BranchSteps
<1>8. Range(Branch(log', Len(log) + 1)) = Range(Branch(log, record.parent)) \cup {Len(log) + 1}
  <2>1. PICK b : b = Branch(log, record.parent)
    OBVIOUS
  <2>2. b \in Seq(Nat) /\ Branch(log', record.parent) = b
    BY <1>1, <1>6, <1>7, <2>1
  <2>3. Len(log) + 1 \in 1..Len(log') /\ Len(log) + 1 \in Nat
    BY <1>2
  <2>4. Branch(log', Len(log) + 1) = Append(Branch(log', log'[Len(log) + 1].parent), Len(log) + 1)
    BY <1>5, <2>3, BranchSteps
  <2>5. Branch(log', Len(log) + 1) = Append(b, Len(log) + 1)
    BY <1>2, <2>2, <2>4
  <2>6. PICK next \in Nat : next = Len(log) + 1
    BY <2>3
  <2>7. Range(Append(b, next)) = Range(b) \cup {next}
    BY <2>2, AppendRange
  <2>8. QED
    BY <2>1, <2>5, <2>6, <2>7
<1>9. \A i \in DOMAIN log' : log'[i].parent < i
  BY <1>2, <1>4
<1>10. QED
  BY <1>2, <1>6, <1>7, <1>8, <1>9

\* What an append keeps of the invariant: no branch gets a second packet, no
\* answer is lost, a packet on the active branch stays there.
LEMMA AppendSafe ==
  ASSUME TypeOK, OnePacketPerBatch, NEW record, Writes(record)
  PROVE  /\ OnePacketPerBatch'
         /\ \A e : Answered(e) => Answered(e)'
         /\ record.parent = Len(log) =>
              \A ids : (\E j \in Range(ActiveBranch(log)) : log[j].kind = "packet" /\ log[j].ids = ids)
                    => (\E j \in Range(ActiveBranch(log)') : log'[j].kind = "packet" /\ log'[j].ids = ids)
<1>. DEFINE n == Len(log)
<1>1. /\ n \in Nat /\ Len(log') = n + 1 /\ DOMAIN log = 1..n /\ DOMAIN log' = 1..(n + 1)
      /\ log'[n + 1] = record /\ \A i \in 1..n : log'[i] = log[i]
      /\ \A i \in 0..n : Branch(log', i) = Branch(log, i) /\ Range(Branch(log, i)) \subseteq 1..i
      /\ Range(Branch(log', n + 1)) = Range(Branch(log, record.parent)) \cup {n + 1}
  BY AppendKeeps
<1>2. /\ record.parent \in 0..n
      /\ record.kind = "packet" =>
           \A i \in Range(Branch(log, record.parent)) : ~(log[i].kind = "packet" /\ log[i].ids = record.ids)
  BY DEF Writes, Fresh
<1>. HIDE DEF n
<1>3. Range(Branch(log, record.parent)) \subseteq 1..n /\ n + 1 \notin 1..n
  BY <1>1, <1>2
<1>4. \A i, j \in Range(Branch(log, record.parent)) :
        log[i].kind = "packet" /\ log[j].kind = "packet" /\ log[i].ids = log[j].ids => i = j
  <2>1. CASE record.parent = 0
    <3>1. Range(Branch(log, 0)) \subseteq 1..0
      BY <1>1
    <3>2. QED
      BY <2>1, <3>1
  <2>2. CASE record.parent # 0
    <3>1. record.parent \in DOMAIN log
      BY <1>1, <1>2, <2>2
    <3>2. QED
      BY <3>1 DEF OnePacketPerBatch
  <2>3. QED
    BY <2>1, <2>2
<1>5. OnePacketPerBatch'
  <2>. SUFFICES ASSUME NEW head \in 1..(n + 1),
                       NEW i \in Range(Branch(log', head)), NEW j \in Range(Branch(log', head)),
                       log'[i].kind = "packet", log'[j].kind = "packet", log'[i].ids = log'[j].ids
                PROVE  i = j
    BY <1>1 DEF OnePacketPerBatch
  <2>1. CASE head \in 1..n
    <3>1. i \in Range(Branch(log, head)) /\ j \in Range(Branch(log, head)) /\ i \in 1..n /\ j \in 1..n
      BY <1>1, <2>1
    <3>2. log'[i] = log[i] /\ log'[j] = log[j]
      BY <1>1, <3>1
    <3>3. QED
      BY <1>1, <2>1, <3>1, <3>2 DEF OnePacketPerBatch
  <2>2. CASE head = n + 1
    <3>1. /\ i \in Range(Branch(log, record.parent)) \/ i = n + 1
          /\ j \in Range(Branch(log, record.parent)) \/ j = n + 1
      BY <1>1, <2>2
    <3>2. CASE i = n + 1 /\ j # n + 1
      BY <1>1, <1>2, <1>3, <3>1, <3>2
    <3>3. CASE j = n + 1 /\ i # n + 1
      BY <1>1, <1>2, <1>3, <3>1, <3>3
    <3>4. CASE i # n + 1 /\ j # n + 1
      BY <1>1, <1>3, <1>4, <3>1, <3>4
    <3>5. QED
      BY <3>2, <3>3, <3>4
  <2>3. QED
    BY <1>1, <2>1, <2>2
<1>6. ASSUME NEW e, Answered(e) PROVE Answered(e)'
  <2>1. PICK i \in 1..n : /\ log[i].kind = "reply"
                          /\ \E j \in Range(Branch(log, i)) : log[j].kind = "packet" /\ e \in log[j].ids
    BY <1>1, <1>6 DEF Answered
  <2>2. PICK j \in Range(Branch(log, i)) : log[j].kind = "packet" /\ e \in log[j].ids
    BY <2>1
  <2>3. i \in 0..n /\ i \in DOMAIN log'
    BY <1>1
  <2>4. j \in 1..n /\ j \in Range(Branch(log', i))
    BY <1>1, <2>2, <2>3
  <2>5. log'[i] = log[i] /\ log'[j] = log[j]
    BY <1>1, <2>4
  <2>6. QED
    BY <2>1, <2>2, <2>3, <2>4, <2>5 DEF Answered
<1>7. ASSUME record.parent = Len(log), NEW ids, NEW j \in Range(ActiveBranch(log)),
             log[j].kind = "packet", log[j].ids = ids
      PROVE  j \in Range(ActiveBranch(log)') /\ log'[j].kind = "packet" /\ log'[j].ids = ids
  <2>1. j \in Range(Branch(log, n)) /\ n \in 0..n
    BY <1>1, <1>7 DEF ActiveBranch, n
  <2>2. j \in 1..n /\ j \in Range(Branch(log', n + 1))
    BY <1>1, <1>7, <2>1 DEF n
  <2>3. log'[j] = log[j]
    BY <1>1, <2>2
  <2>4. QED
    BY <1>1, <1>7, <2>2, <2>3 DEF ActiveBranch
<1>8. QED
  BY <1>5, <1>6, <1>7

-----------------------------------------------------------------------------
(* The drain.                                                                *)

\* Where notify leaves the drain.
LEMMA NotifyMoves ==
  ASSUME NEW position \in DrainState, NotifyAt(position)
  PROVE  /\ drain' = IF position = "idle" THEN "sleeping" ELSE position
         /\ drain' \in DrainState /\ rerun' \in BOOLEAN
         /\ pendingIds' = pendingIds /\ batch' = batch
  BY DEF NotifyAt, DrainState

\* What the end of a drain leaves behind.
LEMMA EndMoves ==
  ASSUME NEW again \in BOOLEAN, EndDrain(again)
  PROVE  /\ drain' \in {"sleeping", "idle"} /\ drain' \in DrainState
         /\ rerun' \in BOOLEAN /\ pendingIds' = {} /\ batch' = {}
  BY DEF EndDrain, DrainState

\* Steps that leave turn, conversation and file alone keep what only these say.
LEMMA TurnStays ==
  ASSUME IInv, UNCHANGED <<turnVars, log>>
  PROVE  /\ TurnShape' /\ OnePacketPerBatch' /\ \A e : Answered(e)' <=> Answered(e)
         /\ turn' = turn /\ rewindPoint' = rewindPoint /\ conversation' = conversation /\ log' = log
         /\ batch' = batch => PacketOnBranch'
         /\ turn.kind # "delivery" => PacketOnBranch'
<1>1. turn' = turn /\ rewindPoint' = rewindPoint /\ conversation' = conversation /\ log' = log
  BY DEF turnVars
<1>2. TurnShape'
  BY <1>1 DEF IInv, TurnShape
<1>3. OnePacketPerBatch'
  BY <1>1 DEF IInv, OnePacketPerBatch
<1>4. \A e : Answered(e)' <=> Answered(e)
  BY <1>1 DEF Answered
<1>5. /\ batch' = batch => PacketOnBranch'
      /\ turn.kind # "delivery" => PacketOnBranch'
  BY <1>1 DEF IInv, PacketOnBranch
<1>6. QED
  BY <1>1, <1>2, <1>3, <1>4, <1>5

\* A result enters the inbox beside whatever the drain and the turn do.
LEMMA EnqueueSafe ==
  ASSUME IInv, NEW e \in Entry, Enqueue(e)
  PROVE  IInv'
<1>1. UNCHANGED <<turnVars, log>> /\ UNCHANGED <<drainVars, paused>>
  BY DEF Enqueue
<1>2. drain' = drain /\ rerun' = rerun /\ pendingIds' = pendingIds /\ batch' = batch /\ paused' = paused
  BY <1>1 DEF drainVars
<1>3. /\ TurnShape' /\ OnePacketPerBatch' /\ PacketOnBranch' /\ \A x : Answered(x)' <=> Answered(x)
      /\ turn' = turn /\ rewindPoint' = rewindPoint /\ conversation' = conversation /\ log' = log
  BY <1>1, <1>2, TurnStays
<1>4. inbox' \in [Entry -> InboxState] /\ unannounced' \subseteq Entry
  BY DEF Enqueue, IInv, TypeOK, InboxState
<1>5. TypeOK'
  BY <1>2, <1>3, <1>4 DEF IInv, TypeOK
<1>6. AcksAnswered' /\ PausedAtRest'
  BY <1>2, <1>3 DEF IInv, AcksAnswered, PausedAtRest
<1>7. QED
  BY <1>3, <1>5, <1>6 DEF IInv

\* agent_completed only wakes the drain or leaves it an edge.
LEMMA AnnounceSafe ==
  ASSUME IInv, NEW e \in Entry, Announce(e)
  PROVE  IInv'
<1>1. UNCHANGED <<turnVars, log>> /\ inbox' = inbox /\ paused' = paused /\ NotifyAt(drain)
      /\ unannounced' \subseteq unannounced
  BY DEF Announce
<1>2. /\ drain' = IF drain = "idle" THEN "sleeping" ELSE drain
      /\ drain' \in DrainState /\ rerun' \in BOOLEAN /\ pendingIds' = pendingIds /\ batch' = batch
  BY <1>1, NotifyMoves DEF IInv, TypeOK
<1>3. /\ TurnShape' /\ OnePacketPerBatch' /\ PacketOnBranch' /\ \A x : Answered(x)' <=> Answered(x)
      /\ turn' = turn /\ rewindPoint' = rewindPoint /\ conversation' = conversation /\ log' = log
  BY <1>1, <1>2, TurnStays
<1>4. TypeOK'
  BY <1>1, <1>2, <1>3 DEF IInv, TypeOK
<1>5. AcksAnswered' /\ PausedAtRest'
  BY <1>1, <1>2, <1>3 DEF IInv, AcksAnswered, PausedAtRest
<1>6. QED
  BY <1>3, <1>4, <1>5 DEF IInv

\* /agents retry unpauses, which binds the drain to less.
LEMMA RetrySafe ==
  ASSUME IInv, RetryDelivery
  PROVE  IInv'
<1>1. UNCHANGED <<turnVars, log>> /\ UNCHANGED inboxVars /\ paused' = FALSE /\ NotifyAt(drain)
  BY DEF RetryDelivery
<1>2. /\ drain' = IF drain = "idle" THEN "sleeping" ELSE drain
      /\ drain' \in DrainState /\ rerun' \in BOOLEAN /\ pendingIds' = pendingIds /\ batch' = batch
  BY <1>1, NotifyMoves DEF IInv, TypeOK
<1>3. /\ TurnShape' /\ OnePacketPerBatch' /\ PacketOnBranch' /\ \A x : Answered(x)' <=> Answered(x)
      /\ turn' = turn /\ rewindPoint' = rewindPoint /\ conversation' = conversation /\ log' = log
  BY <1>1, <1>2, TurnStays
<1>4. TypeOK'
  BY <1>1, <1>2, <1>3 DEF IInv, TypeOK, inboxVars
<1>5. AcksAnswered' /\ PausedAtRest'
  BY <1>1, <1>2, <1>3 DEF IInv, AcksAnswered, PausedAtRest
<1>6. QED
  BY <1>3, <1>4, <1>5 DEF IInv

\* A drain goes on to the inbox only from a parent that is idle and not paused.
LEMMA WakeSafe ==
  ASSUME IInv, Wake
  PROVE  IInv'
<1>1. UNCHANGED <<turnVars, log>> /\ UNCHANGED inboxVars /\ paused' = paused /\ drain = "sleeping"
  BY DEF Wake
<1>2. batch = {} /\ turn.kind # "delivery"
  BY <1>1 DEF IInv, TypeOK
<1>3. /\ TurnShape' /\ OnePacketPerBatch' /\ PacketOnBranch' /\ \A x : Answered(x)' <=> Answered(x)
      /\ turn' = turn /\ rewindPoint' = rewindPoint /\ conversation' = conversation /\ log' = log
  BY <1>1, <1>2, TurnStays
<1>4. /\ drain' \in {"listing", "sleeping", "idle"} /\ drain' \in DrainState /\ rerun' \in BOOLEAN
      /\ pendingIds' \subseteq Entry /\ batch' = {}
      /\ drain' = "listing" => ~paused
  <2>1. CASE ParentIdle
    BY <1>2, <2>1 DEF Wake, ParentIdle, IInv, TypeOK, DrainState
  <2>2. CASE ~ParentIdle
    <3>1. EndDrain(rerun) /\ rerun \in BOOLEAN
      BY <2>2 DEF Wake, IInv, TypeOK
    <3>2. QED
      BY <3>1, EndMoves
  <2>3. QED
    BY <2>1, <2>2
<1>5. TypeOK'
  BY <1>1, <1>2, <1>3, <1>4 DEF IInv, TypeOK, inboxVars
<1>6. AcksAnswered' /\ PausedAtRest'
  BY <1>1, <1>4 DEF IInv, AcksAnswered, PausedAtRest
<1>7. QED
  BY <1>3, <1>5, <1>6 DEF IInv

\* The batch comes into being with the drain that holds it.
LEMMA ListSafe ==
  ASSUME IInv, ListInbox
  PROVE  IInv'
<1>1. UNCHANGED <<turnVars, log>> /\ UNCHANGED inboxVars /\ paused' = paused /\ drain = "listing"
  BY DEF ListInbox
<1>2. turn.kind # "delivery" /\ ~paused
  BY <1>1 DEF IInv, TypeOK, PausedAtRest
<1>3. /\ TurnShape' /\ OnePacketPerBatch' /\ PacketOnBranch' /\ \A x : Answered(x)' <=> Answered(x)
      /\ turn' = turn /\ rewindPoint' = rewindPoint /\ conversation' = conversation /\ log' = log
  BY <1>1, <1>2, TurnStays
<1>4. /\ drain' \in {"marking", "sleeping", "idle"} /\ drain' \in DrainState /\ rerun' \in BOOLEAN
      /\ pendingIds' \subseteq Entry /\ batch' \subseteq Entry
      /\ (batch' # {}) <=> (drain' = "marking")
  <2>. DEFINE pending == {e \in Entry : inbox[e] = "pending"}
              ids == pending \cup {e \in Entry : inbox[e] = "delivered"}
  <2>1. CASE ids = {}
    <3>1. EndDrain(rerun) /\ rerun \in BOOLEAN
      BY <2>1 DEF ListInbox, IInv, TypeOK
    <3>2. QED
      BY <3>1, EndMoves
  <2>2. CASE ids # {}
    <3>1. pendingIds' = pending /\ batch' = ids /\ drain' = "marking" /\ rerun' = rerun
      BY <2>2 DEF ListInbox
    <3>2. QED
      BY <2>2, <3>1 DEF IInv, TypeOK, DrainState
  <2>3. QED
    BY <2>1, <2>2
<1>5. TypeOK'
  BY <1>1, <1>2, <1>3, <1>4 DEF IInv, TypeOK, inboxVars
<1>6. AcksAnswered' /\ PausedAtRest'
  BY <1>1, <1>2, <1>4 DEF AcksAnswered, PausedAtRest
<1>7. QED
  BY <1>3, <1>5, <1>6 DEF IInv

\* Marking moves the drain to the delivery and touches no file but the inbox.
LEMMA MarkSafe ==
  ASSUME IInv, MarkDelivered
  PROVE  IInv'
<1>1. /\ UNCHANGED <<turnVars, log>> /\ drain = "marking" /\ drain' = "delivering" /\ pendingIds' = {}
      /\ unannounced' = unannounced /\ rerun' = rerun /\ batch' = batch /\ paused' = paused
  BY DEF MarkDelivered
<1>2. turn.kind # "delivery" /\ ~paused /\ batch # {}
  BY <1>1 DEF IInv, TypeOK, PausedAtRest
<1>3. /\ TurnShape' /\ OnePacketPerBatch' /\ PacketOnBranch' /\ \A x : Answered(x)' <=> Answered(x)
      /\ turn' = turn /\ rewindPoint' = rewindPoint /\ conversation' = conversation /\ log' = log
  BY <1>1, <1>2, TurnStays
<1>4. inbox' \in [Entry -> InboxState]
  BY DEF MarkDelivered, IInv, TypeOK, InboxState
<1>5. TypeOK'
  BY <1>1, <1>2, <1>3, <1>4 DEF IInv, TypeOK, DrainState
<1>6. AcksAnswered' /\ PausedAtRest'
  BY <1>1, <1>2 DEF AcksAnswered, PausedAtRest
<1>7. QED
  BY <1>3, <1>5, <1>6 DEF IInv

\* What is left of the batch is still answered.
LEMMA AckSafe ==
  ASSUME IInv, NEW e \in Entry, AckDelivered(e)
  PROVE  IInv'
<1>1. UNCHANGED <<turnVars, log>> /\ drain = "acking" /\ unannounced' = unannounced /\ paused' = paused
  BY DEF AckDelivered
<1>2. turn.kind # "delivery" /\ ~paused
  BY <1>1 DEF IInv, TypeOK, PausedAtRest
<1>3. /\ TurnShape' /\ OnePacketPerBatch' /\ PacketOnBranch' /\ \A x : Answered(x)' <=> Answered(x)
      /\ turn' = turn /\ rewindPoint' = rewindPoint /\ conversation' = conversation /\ log' = log
  BY <1>1, <1>2, TurnStays
<1>4. inbox' \in [Entry -> InboxState]
  BY DEF AckDelivered, IInv, TypeOK, InboxState
<1>5. /\ drain' \in {"acking", "sleeping", "idle"} /\ drain' \in DrainState /\ rerun' \in BOOLEAN
      /\ pendingIds' \subseteq Entry /\ batch' \subseteq batch
      /\ (batch' # {}) <=> (drain' = "acking")
  <2>1. CASE batch = {e}
    <3>1. EndDrain(rerun) /\ rerun \in BOOLEAN
      BY <2>1 DEF AckDelivered, IInv, TypeOK
    <3>2. QED
      BY <3>1, EndMoves
  <2>2. CASE batch # {e}
    <3>1. batch' = batch \ {e} /\ drain' = drain /\ rerun' = rerun /\ pendingIds' = pendingIds /\ e \in batch
      BY <2>2 DEF AckDelivered
    <3>2. QED
      BY <1>1, <2>2, <3>1 DEF IInv, TypeOK
  <2>3. QED
    BY <2>1, <2>2
<1>6. TypeOK'
  BY <1>1, <1>2, <1>3, <1>4, <1>5 DEF IInv, TypeOK
<1>7. AcksAnswered'
  BY <1>1, <1>3, <1>5 DEF IInv, AcksAnswered
<1>8. PausedAtRest'
  BY <1>1, <1>2 DEF PausedAtRest
<1>9. QED
  BY <1>3, <1>6, <1>7, <1>8 DEF IInv

-----------------------------------------------------------------------------
(* The turns.                                                                *)

\* A turn in one of the stages it holds busy for, of either kind.
LEMMA TurnParts ==
  ASSUME IInv
  PROVE  /\ turn \in Turns /\ turn.messages \in Seq(Nat) /\ Range(turn.messages) \subseteq 1..Len(log)
         /\ conversation \in Seq(Nat) /\ Range(conversation) \subseteq 1..Len(log)
         /\ turn.parent \subseteq 0..Len(log) /\ rewindPoint \subseteq 0..Len(log)
         /\ Len(log) \in Nat /\ DOMAIN log = 1..Len(log) /\ log \in Seq(Records)
  BY DEF IInv, TypeOK, TurnShape, Turns

\* What one more record means for the file.
LEMMA Recorded ==
  ASSUME IInv, NEW kind \in {"snapshot", "failed", "reply", "call", "tool"}, NEW ids \in SUBSET Entry,
         AppendRecord(kind, ids)
  PROVE  /\ Writes(Record(kind, ids, Len(log)))
         /\ log' \in Seq(Records) /\ Len(log') = Len(log) + 1 /\ DOMAIN log' = 1..(Len(log) + 1)
         /\ \A i \in DOMAIN log' : log'[i].parent < i
         /\ OnePacketPerBatch' /\ \A e : Answered(e) => Answered(e)'
         /\ PacketOnBranch /\ turn'.kind = turn.kind /\ batch' = batch
              /\ (turn.stage = "input" => turn'.stage = "input") => PacketOnBranch'
<1>. DEFINE record == Record(kind, ids, Len(log))
<1>0. TypeOK /\ OnePacketPerBatch /\ Len(log) \in Nat
  BY TurnParts DEF IInv
<1>1. /\ record \in Records /\ record.parent = Len(log) /\ record.kind # "packet"
      /\ Len(log) \in 0..Len(log) /\ log' = Append(log, record)
  BY <1>0 DEF Record, Records, AppendRecord
<1>. HIDE DEF record
<1>2. Writes(record)
  BY <1>1 DEF Writes, Fresh
<1>3. /\ log' \in Seq(Records) /\ Len(log') = Len(log) + 1 /\ DOMAIN log' = 1..(Len(log) + 1)
      /\ \A i \in DOMAIN log' : log'[i].parent < i
  BY <1>0, <1>2, AppendKeeps
<1>4. /\ OnePacketPerBatch' /\ \A e : Answered(e) => Answered(e)'
      /\ \A x : (\E j \in Range(ActiveBranch(log)) : log[j].kind = "packet" /\ log[j].ids = x)
                => (\E j \in Range(ActiveBranch(log)') : log'[j].kind = "packet" /\ log'[j].ids = x)
  BY <1>0, <1>1, <1>2, AppendSafe
<1>5. PacketOnBranch /\ turn'.kind = turn.kind /\ batch' = batch
        /\ (turn.stage = "input" => turn'.stage = "input") => PacketOnBranch'
  BY <1>4 DEF PacketOnBranch
<1>6. QED
  BY <1>2, <1>3, <1>4, <1>5 DEF record

\* A message more, for the record just written.
LEMMA MoreMessages ==
  ASSUME NEW n \in Nat, NEW messages \in Seq(Nat), Range(messages) \subseteq 1..n, NEW i \in 1..(n + 1)
  PROVE  Append(messages, i) \in Seq(Nat) /\ Range(Append(messages, i)) \subseteq 1..(n + 1)
<1>1. i \in Nat
  OBVIOUS
<1>2. Append(messages, i) \in Seq(Nat) /\ Range(Append(messages, i)) = Range(messages) \cup {i}
  BY <1>1, AppendRange
<1>3. QED
  BY <1>2

\* The session's history from the file is made of its records.
LEMMA ShownWithin ==
  ASSUME NEW records, Tree(records), NEW head \in 0..Len(records)
  PROVE  /\ Shown(records, head) \in Seq(Nat)
         /\ Range(Shown(records, head)) \subseteq 1..Len(records)
<1>1. /\ Shown(records, head) \in Seq(Nat)
      /\ Range(Shown(records, head)) \subseteq 1..head
  BY ProjectWithin DEF Shown
<1>2. Len(records) \in Nat
  BY DEF Tree
<1>3. QED
  BY <1>1, <1>2

\* A prompt's turn begins with the rewind point as its parent and unpauses.
LEMMA SubmitSafe ==
  ASSUME IInv, SubmitPrompt
  PROVE  IInv'
<1>0. /\ turn = NoTurn
      /\ turn' = [kind |-> "prompt", stage |-> "input", parent |-> rewindPoint, input |-> 0,
                  wait |-> NoEntry, messages |-> conversation]
  BY DEF SubmitPrompt, Busy, NoTurn
<1>1. /\ paused' = FALSE /\ rewindPoint' = {} /\ conversation' = conversation /\ log' = log
      /\ inbox' = inbox /\ unannounced' = unannounced
      /\ drain' = drain /\ rerun' = rerun /\ pendingIds' = pendingIds /\ batch' = batch
  BY DEF SubmitPrompt, inboxVars, drainVars
<1>2. /\ turn.kind = "none" /\ turn'.kind = "prompt" /\ turn'.stage = "input" /\ turn'.parent = rewindPoint
      /\ turn'.input = 0 /\ turn'.wait = NoEntry /\ turn'.messages = conversation
  BY <1>0 DEF NoTurn
<1>3. rewindPoint \subseteq Nat /\ Len(log) \in Nat
  BY TurnParts
<1>4. TypeOK'
  <2>1. /\ inbox' \in [Entry -> InboxState] /\ unannounced' \subseteq Entry
        /\ drain' \in DrainState /\ rerun' \in BOOLEAN
        /\ pendingIds' \subseteq Entry /\ batch' \subseteq Entry
        /\ (batch' # {}) <=> drain' \in {"marking", "delivering", "delivered", "acking"}
        /\ paused' \in BOOLEAN
    BY <1>1 DEF IInv, TypeOK
  <2>2. /\ (drain' = "delivered") <=> (turn'.kind = "delivery")
        /\ turn'.kind \in {"none", "prompt", "delivery"}
        /\ turn'.stage \in {"none", "input", "snapshot", "provider", "waiting", "recording"}
        /\ turn'.wait \in Entry \cup {NoEntry}
    BY <1>1, <1>2 DEF IInv, TypeOK
  <2>3. /\ turn'.input \in 0..Len(log') /\ Range(turn'.messages) \subseteq 1..Len(log')
    BY <1>1, <1>2, <1>3, TurnParts
  <2>4. /\ Range(conversation') \subseteq 1..Len(log') /\ rewindPoint' \subseteq 0..Len(log')
    BY <1>1, <1>2, <1>3, TurnParts
  <2>5. log' \in Seq(Records) /\ \A i \in DOMAIN log' : log'[i].parent < i
    BY <1>1 DEF IInv, TypeOK
  <2>6. QED
    BY <2>1, <2>2, <2>3, <2>4, <2>5 DEF TypeOK
<1>5. TurnShape'
  BY <1>0, <1>1, <1>2, <1>3, TurnParts DEF TurnShape, Turns
<1>6. OnePacketPerBatch'
  BY <1>1 DEF IInv, OnePacketPerBatch
<1>7. PacketOnBranch' /\ PausedAtRest'
  BY <1>1, <1>2 DEF PacketOnBranch, PausedAtRest
<1>8. AcksAnswered'
  BY <1>1 DEF IInv, AcksAnswered, Answered
<1>9. QED
  BY <1>4, <1>5, <1>6, <1>7, <1>8 DEF IInv

\* The delivery's turn and the drain that awaits it begin in one step.
LEMMA DeliverSafe ==
  ASSUME IInv, Deliver
  PROVE  IInv'
<1>1. /\ drain = "delivering" /\ UNCHANGED inboxVars /\ paused' = paused /\ rewindPoint' = rewindPoint
      /\ conversation' = conversation /\ log' = log
  BY DEF Deliver
<1>2. turn.kind # "delivery" /\ ~paused /\ batch # {}
  BY <1>1 DEF IInv, TypeOK, PausedAtRest
<1>3. OnePacketPerBatch'
  BY <1>1 DEF IInv, OnePacketPerBatch
<1>4. PausedAtRest'
  BY <1>1, <1>2 DEF PausedAtRest
<1>5. CASE Busy
  <2>1. turn' = turn /\ EndDrain(rerun) /\ rerun \in BOOLEAN
    BY <1>5 DEF Deliver, IInv, TypeOK
  <2>2. /\ drain' \in {"sleeping", "idle"} /\ drain' \in DrainState
        /\ rerun' \in BOOLEAN /\ pendingIds' = {} /\ batch' = {}
    BY <2>1, EndMoves
  <2>3. TypeOK'
    BY <1>1, <1>2, <2>1, <2>2 DEF IInv, TypeOK, inboxVars
  <2>4. TurnShape' /\ PacketOnBranch' /\ AcksAnswered'
    BY <1>1, <1>2, <2>1, <2>2 DEF IInv, TurnShape, PacketOnBranch, AcksAnswered
  <2>5. QED
    BY <1>3, <1>4, <2>3, <2>4 DEF IInv
<1>6. CASE ~Busy
  <2>1. /\ turn' = [kind |-> "delivery", stage |-> "input", parent |-> {}, input |-> 0,
                    wait |-> NoEntry, messages |-> conversation]
        /\ drain' = "delivered" /\ rerun' = rerun /\ pendingIds' = pendingIds /\ batch' = batch
    BY <1>6 DEF Deliver, NoTurn
  <2>2. turn'.kind = "delivery" /\ turn'.stage = "input" /\ turn'.parent = {}
        /\ turn'.input = 0 /\ turn'.wait = NoEntry /\ turn'.messages = conversation
    BY <2>1
  <2>3. Len(log) \in Nat
    BY TurnParts
  <2>4. TypeOK'
    BY <1>1, <1>2, <2>1, <2>2, <2>3 DEF IInv, TypeOK, inboxVars, DrainState
  <2>5. TurnShape'
    BY <1>1, <2>1, <2>2, <2>3, TurnParts DEF TurnShape, Turns
  <2>6. PacketOnBranch' /\ AcksAnswered'
    BY <2>1, <2>2 DEF PacketOnBranch, AcksAnswered
  <2>7. QED
    BY <1>3, <1>4, <2>4, <2>5, <2>6 DEF IInv
<1>7. QED
  BY <1>5, <1>6

\* The input record, written or found: a packet is written only when its branch
\* has none of these entries.
LEMMA InputSafe ==
  ASSUME IInv, AppendInput
  PROVE  IInv'
<1>. DEFINE persisted == IF turn.kind = "delivery" THEN PersistedDelivery(batch) ELSE {}
            parent == IF turn.parent = {} THEN Len(log) ELSE Max(turn.parent)
            ids == IF turn.kind = "delivery" THEN batch ELSE {}
            kind == IF turn.kind = "delivery" THEN "packet" ELSE "prompt"
            input == IF persisted = {} THEN Len(log) + 1 ELSE Min(persisted)
            record == Record(kind, ids, parent)
<1>1. /\ turn.stage = "input" /\ paused' = paused /\ rewindPoint' = rewindPoint /\ conversation' = conversation
      /\ UNCHANGED inboxVars /\ drain' = drain /\ rerun' = rerun /\ pendingIds' = pendingIds /\ batch' = batch
  BY DEF AppendInput, drainVars
<1>2. /\ log' = IF persisted = {} THEN Append(log, record) ELSE log
      /\ turn' = [turn EXCEPT !.stage = "snapshot", !.parent = {}, !.input = input,
                              !.messages = Append(turn.messages, input)]
  BY DEF AppendInput
<1>3. /\ turn'.kind = turn.kind /\ turn'.stage = "snapshot" /\ turn'.parent = {} /\ turn'.wait = turn.wait
      /\ turn'.input = input /\ turn'.messages = Append(turn.messages, input)
      /\ turn'.input \in Nat /\ turn'.messages \in Seq(Nat) => turn' \in Turns
  <2>. HIDE DEF input
  <2>1. QED
    BY <1>2, TurnParts DEF Turns
<1>4. parent \in 0..Len(log) /\ (turn.kind = "delivery" => parent = Len(log))
  <2>1. CASE turn.parent = {}
    BY <2>1, TurnParts
  <2>2. CASE turn.parent # {}
    <3>1. Max(turn.parent) \in turn.parent
      BY <2>2, TurnParts, MaxWithin
    <3>2. turn.kind # "delivery"
      BY <2>2 DEF IInv, TurnShape
    <3>3. QED
      BY <2>2, <3>1, <3>2, TurnParts
  <2>3. QED
    BY <2>1, <2>2
<1>. HIDE DEF parent
<1>5. /\ record \in Records /\ record.parent = parent /\ record.kind = kind /\ record.ids = ids
  <2>1. ids \in SUBSET Entry /\ kind \in {"prompt", "packet"} /\ parent \in Nat
    BY <1>4, TurnParts DEF IInv, TypeOK
  <2>2. QED
    BY <2>1 DEF Record, Records
<1>6. PersistedDelivery(batch) = {i \in Range(ActiveBranch(log)) : log[i].kind = "packet" /\ log[i].ids = batch}
  BY DEF PersistedDelivery
<1>7. Range(ActiveBranch(log)) \subseteq 1..Len(log)
  <2>1. Tree(log) /\ Len(log) \in 0..Len(log)
    BY TurnParts, LogTree DEF IInv
  <2>2. QED
    BY <2>1, BranchSteps DEF ActiveBranch
<1>8. CASE persisted = {}
  <2>. DEFINE n == Len(log)
  <2>0. n \in Nat
    BY TurnParts
  <2>1. Fresh(record)
    <3>1. CASE turn.kind = "delivery"
      BY <1>4, <1>5, <1>6, <1>8, <3>1 DEF Fresh, ActiveBranch
    <3>2. CASE turn.kind # "delivery"
      BY <1>4, <1>5, <3>2 DEF Fresh
    <3>3. QED
      BY <3>1, <3>2
  <2>2. Writes(record) /\ input = n + 1
    BY <1>2, <1>8, <2>1 DEF Writes
  <2>3. /\ log' \in Seq(Records) /\ Len(log') = n + 1 /\ DOMAIN log' = 1..(n + 1)
        /\ \A i \in DOMAIN log' : log'[i].parent < i
        /\ log'[n + 1] = record
        /\ Range(Branch(log', n + 1)) = Range(Branch(log, record.parent)) \cup {n + 1}
    BY <2>2, AppendKeeps DEF IInv
  <2>4. OnePacketPerBatch' /\ \A e : Answered(e) => Answered(e)'
    BY <2>2, AppendSafe DEF IInv
  <2>5. input \in 1..(n + 1)
    BY <2>0, <2>2
  <2>. HIDE DEF record, persisted, input
  <2>6. Append(turn.messages, input) \in Seq(Nat) /\ Range(Append(turn.messages, input)) \subseteq 1..(n + 1)
    BY <2>0, <2>5, MoreMessages, TurnParts
  <2>7. TypeOK'
    BY <1>1, <1>3, <2>0, <2>3, <2>5, <2>6 DEF IInv, TypeOK, inboxVars
  <2>8. TurnShape'
    BY <1>1, <1>3, <2>0, <2>3, <2>5, <2>6, TurnParts DEF TurnShape
  <2>9. PacketOnBranch'
    <3>. SUFFICES ASSUME turn.kind = "delivery"
                  PROVE  \E j \in Range(ActiveBranch(log)') : log'[j].kind = "packet" /\ log'[j].ids = batch
      BY <1>1, <1>3 DEF PacketOnBranch
    <3>1. n + 1 \in Range(ActiveBranch(log)')
      BY <2>3 DEF ActiveBranch
    <3>2. log'[n + 1].kind = "packet" /\ log'[n + 1].ids = batch
      BY <1>5, <2>3
    <3>3. QED
      BY <3>1, <3>2
  <2>10. AcksAnswered' /\ PausedAtRest'
    BY <1>1, <2>4 DEF IInv, AcksAnswered, PausedAtRest
  <2>11. QED
    BY <2>4, <2>7, <2>8, <2>9, <2>10 DEF IInv
<1>9. CASE persisted # {}
  <2>1. turn.kind = "delivery" /\ persisted = PersistedDelivery(batch) /\ persisted \subseteq 1..Len(log)
    BY <1>6, <1>7, <1>9
  <2>2. log' = log /\ input = Min(persisted) /\ input \in persisted /\ input \in 1..Len(log)
    <3>1. Min(persisted) \in persisted
      <4>. HIDE DEF persisted
      <4>1. QED
        BY <1>9, <2>1, FirstIndex, TurnParts
    <3>2. QED
      BY <1>2, <1>9, <2>1, <3>1
  <2>3. \E j \in Range(ActiveBranch(log)) : log[j].kind = "packet" /\ log[j].ids = batch
    BY <1>6, <1>9, <2>1
  <2>. HIDE DEF persisted, input
  <2>4. Len(log) \in Nat /\ input \in Nat /\ input \in 0..Len(log)
    BY <2>2, TurnParts
  <2>5. Append(turn.messages, input) \in Seq(Nat) /\ Range(Append(turn.messages, input)) \subseteq 1..Len(log)
    <3>1. Append(turn.messages, input) \in Seq(Nat) /\ Range(Append(turn.messages, input)) = Range(turn.messages) \cup {input}
      BY <2>4, AppendRange, TurnParts
    <3>2. QED
      BY <2>2, <3>1, TurnParts
  <2>6. TypeOK'
    BY <1>1, <1>3, <2>2, <2>4, <2>5 DEF IInv, TypeOK, inboxVars
  <2>7. TurnShape'
    BY <1>1, <1>3, <2>2, <2>4, <2>5, TurnParts DEF TurnShape
  <2>8. PacketOnBranch' /\ OnePacketPerBatch'
    BY <1>1, <2>2, <2>3 DEF IInv, PacketOnBranch, OnePacketPerBatch
  <2>9. AcksAnswered' /\ PausedAtRest'
    BY <1>1, <2>2 DEF IInv, AcksAnswered, Answered, PausedAtRest
  <2>10. QED
    BY <2>6, <2>7, <2>8, <2>9 DEF IInv
<1>10. QED
  BY <1>8, <1>9

\* The snapshot record, if written, goes behind the input.
LEMMA SnapshotSafe ==
  ASSUME IInv, Snapshot
  PROVE  IInv'
<1>1. /\ turn.stage = "snapshot" /\ paused' = paused /\ rewindPoint' = rewindPoint /\ conversation' = conversation
      /\ inbox' = inbox /\ unannounced' = unannounced
      /\ drain' = drain /\ rerun' = rerun /\ pendingIds' = pendingIds /\ batch' = batch
      /\ turn' = [turn EXCEPT !.stage = "provider"]
  BY DEF Snapshot, inboxVars, drainVars
<1>2. /\ turn' \in Turns /\ turn'.kind = turn.kind /\ turn'.stage = "provider" /\ turn'.parent = turn.parent
      /\ turn'.wait = turn.wait /\ turn'.input = turn.input /\ turn'.messages = turn.messages
  BY <1>1, TurnParts DEF Turns
<1>3. /\ log' \in Seq(Records) /\ Len(log') \in Nat /\ Len(log) <= Len(log') /\ DOMAIN log' = 1..Len(log')
      /\ \A i \in DOMAIN log' : log'[i].parent < i
      /\ OnePacketPerBatch' /\ PacketOnBranch' /\ \A e : Answered(e) => Answered(e)'
  <2>1. CASE Checkpointing
    <3>1. AppendRecord("snapshot", {}) /\ Len(log) \in Nat
      BY <2>1, TurnParts DEF Snapshot
    <3>2. PacketOnBranch
      BY DEF IInv
    <3>3. QED
      BY <1>1, <1>2, <3>1, <3>2, Recorded
  <2>2. CASE ~Checkpointing
    <3>1. log' = log
      BY <2>2 DEF Snapshot
    <3>2. OnePacketPerBatch' /\ PacketOnBranch'
      BY <1>1, <1>2, <3>1 DEF IInv, OnePacketPerBatch, PacketOnBranch
    <3>3. \A e : Answered(e) => Answered(e)'
      BY <3>1 DEF Answered
    <3>4. QED
      BY <3>1, <3>2, <3>3, TurnParts DEF IInv, TypeOK
  <2>3. QED
    BY <2>1, <2>2
<1>4. TypeOK'
  BY <1>1, <1>2, <1>3 DEF IInv, TypeOK
<1>5. TurnShape'
  BY <1>1, <1>2, <1>3, TurnParts DEF IInv, TurnShape
<1>6. AcksAnswered' /\ PausedAtRest'
  BY <1>1, <1>3 DEF IInv, AcksAnswered, PausedAtRest
<1>7. QED
  BY <1>3, <1>4, <1>5, <1>6 DEF IInv

\* A delivery's reply answers every entry of its batch.
LEMMA ReplySafe ==
  ASSUME IInv, Reply
  PROVE  IInv'
<1>. DEFINE n == Len(log)
            position == IF turn.kind = "delivery" THEN "acking" ELSE drain
<1>1. /\ turn.stage = "provider" /\ paused' = paused /\ rewindPoint' = rewindPoint
      /\ inbox' = inbox /\ unannounced' = unannounced
      /\ conversation' = Append(turn.messages, n + 1) /\ turn' = NoTurn
      /\ AppendRecord("reply", {}) /\ NotifyAt(position)
  BY DEF Reply, inboxVars
<1>2. /\ Writes(Record("reply", {}, n))
      /\ log' \in Seq(Records) /\ Len(log') = n + 1 /\ DOMAIN log' = 1..(n + 1)
      /\ \A i \in DOMAIN log' : log'[i].parent < i
      /\ OnePacketPerBatch' /\ \A e : Answered(e) => Answered(e)'
  BY <1>1, Recorded
<1>3. n \in Nat /\ turn.messages \in Seq(Nat) /\ Range(turn.messages) \subseteq 1..n /\ n + 1 \in 1..(n + 1)
  BY TurnParts
<1>4. conversation' \in Seq(Nat) /\ Range(conversation') \subseteq 1..(n + 1)
  BY <1>1, <1>3, MoreMessages
<1>5. /\ drain' = IF position = "idle" THEN "sleeping" ELSE position
      /\ drain' \in DrainState /\ rerun' \in BOOLEAN /\ pendingIds' = pendingIds /\ batch' = batch
  <2>1. position \in DrainState
    BY DEF IInv, TypeOK, DrainState
  <2>. HIDE DEF position
  <2>2. QED
    BY <1>1, <2>1, NotifyMoves
<1>6. /\ turn'.kind = "none" /\ turn'.stage = "none" /\ turn'.parent = {} /\ turn'.input = 0
      /\ turn'.wait = NoEntry /\ turn'.messages = <<>> /\ turn' \in Turns /\ Range(turn'.messages) = {}
  BY <1>1 DEF NoTurn, Turns, Range
<1>7. /\ (batch' # {}) <=> drain' \in {"marking", "delivering", "delivered", "acking"}
      /\ drain' # "delivered"
  BY <1>5 DEF IInv, TypeOK
<1>8. rewindPoint' \subseteq 0..(n + 1)
  BY <1>1, <1>3, TurnParts
<1>9. TypeOK'
  BY <1>1, <1>2, <1>3, <1>4, <1>5, <1>6, <1>7, <1>8 DEF IInv, TypeOK
<1>10. TurnShape' /\ PacketOnBranch'
  BY <1>2, <1>4, <1>6 DEF TurnShape, PacketOnBranch
<1>11. AcksAnswered'
  <2>1. CASE turn.kind = "delivery"
    <3>1. PICK j \in Range(ActiveBranch(log)) : log[j].kind = "packet" /\ log[j].ids = batch
      BY <1>1, <2>1 DEF IInv, PacketOnBranch
    <3>2. /\ log'[n + 1] = Record("reply", {}, n) /\ \A i \in 1..n : log'[i] = log[i]
          /\ Range(Branch(log', n + 1)) = Range(Branch(log, Record("reply", {}, n).parent)) \cup {n + 1}
          /\ \A i \in 0..n : Range(Branch(log, i)) \subseteq 1..i
      BY <1>2, AppendKeeps DEF IInv
    <3>3. Record("reply", {}, n).parent = n /\ Record("reply", {}, n).kind = "reply"
      BY DEF Record
    <3>4. j \in Range(Branch(log', n + 1)) /\ j \in 1..n
      BY <1>3, <3>1, <3>2, <3>3 DEF ActiveBranch
    <3>5. n + 1 \in DOMAIN log' /\ log'[n + 1].kind = "reply"
      BY <1>2, <1>3, <3>2, <3>3
    <3>6. log'[j].kind = "packet" /\ log'[j].ids = batch
      BY <3>1, <3>2, <3>4
    <3>7. \A e \in batch : Answered(e)'
      BY <3>4, <3>5, <3>6 DEF Answered
    <3>8. QED
      BY <1>5, <3>7 DEF AcksAnswered
  <2>2. CASE turn.kind # "delivery"
    BY <1>2, <1>5, <2>2 DEF IInv, AcksAnswered
  <2>3. QED
    BY <2>1, <2>2
<1>12. PausedAtRest'
  BY <1>1, <1>5 DEF IInv, TypeOK, PausedAtRest
<1>13. QED
  BY <1>2, <1>9, <1>10, <1>11, <1>12 DEF IInv

\* The call's record goes behind the messages the turn has.
LEMMA CallSafe ==
  ASSUME IInv, NEW e \in Entry, CallWaitAgent(e)
  PROVE  IInv'
<1>. DEFINE n == Len(log)
<1>1. /\ turn.stage = "provider" /\ paused' = paused /\ rewindPoint' = rewindPoint /\ conversation' = conversation
      /\ inbox' = inbox /\ unannounced' = unannounced
      /\ drain' = drain /\ rerun' = rerun /\ pendingIds' = pendingIds /\ batch' = batch
      /\ turn' = [turn EXCEPT !.stage = "waiting", !.wait = e, !.messages = Append(turn.messages, n + 1)]
      /\ AppendRecord("call", {})
  BY DEF CallWaitAgent, inboxVars, drainVars
<1>2. /\ n \in Nat /\ Append(turn.messages, n + 1) \in Seq(Nat)
      /\ Range(Append(turn.messages, n + 1)) \subseteq 1..(n + 1)
  <2>1. n \in Nat /\ turn.messages \in Seq(Nat) /\ Range(turn.messages) \subseteq 1..n /\ n + 1 \in 1..(n + 1)
    BY TurnParts
  <2>. HIDE DEF n
  <2>2. QED
    BY <2>1, MoreMessages
<1>3. /\ turn' \in Turns /\ turn'.kind = turn.kind /\ turn'.stage = "waiting" /\ turn'.parent = turn.parent
      /\ turn'.wait = e /\ turn'.input = turn.input /\ turn'.messages = Append(turn.messages, n + 1)
  BY <1>1, <1>2, TurnParts DEF Turns
<1>4. /\ log' \in Seq(Records) /\ Len(log') = n + 1 /\ DOMAIN log' = 1..(n + 1)
      /\ \A i \in DOMAIN log' : log'[i].parent < i
      /\ OnePacketPerBatch' /\ PacketOnBranch' /\ \A x : Answered(x) => Answered(x)'
  <2>1. PacketOnBranch
    BY DEF IInv
  <2>2. QED
    BY <1>1, <1>3, <2>1, Recorded
<1>. HIDE DEF n
<1>5. Len(log) = n
  BY DEF n
<1>6. TypeOK'
  BY <1>1, <1>2, <1>3, <1>4, <1>5 DEF IInv, TypeOK
<1>7. TurnShape'
  BY <1>1, <1>2, <1>3, <1>4, <1>5, TurnParts DEF IInv, TurnShape
<1>8. AcksAnswered' /\ PausedAtRest'
  BY <1>1, <1>4 DEF IInv, AcksAnswered, PausedAtRest
<1>9. QED
  BY <1>4, <1>6, <1>7, <1>8 DEF IInv

\* The result's record goes behind its call.
LEMMA ResultSafe ==
  ASSUME IInv, RecordToolResult
  PROVE  IInv'
<1>. DEFINE n == Len(log)
<1>1. /\ turn.stage = "recording" /\ paused' = paused /\ rewindPoint' = rewindPoint /\ conversation' = conversation
      /\ inbox' = inbox /\ unannounced' = unannounced
      /\ drain' = drain /\ rerun' = rerun /\ pendingIds' = pendingIds /\ batch' = batch
      /\ turn' = [turn EXCEPT !.stage = "provider", !.wait = NoEntry, !.messages = Append(turn.messages, n + 1)]
      /\ AppendRecord("tool", {turn.wait})
  BY DEF RecordToolResult, inboxVars, drainVars
<1>2. /\ n \in Nat /\ Append(turn.messages, n + 1) \in Seq(Nat)
      /\ Range(Append(turn.messages, n + 1)) \subseteq 1..(n + 1)
  <2>1. n \in Nat /\ turn.messages \in Seq(Nat) /\ Range(turn.messages) \subseteq 1..n /\ n + 1 \in 1..(n + 1)
    BY TurnParts
  <2>. HIDE DEF n
  <2>2. QED
    BY <2>1, MoreMessages
<1>3. /\ turn' \in Turns /\ turn'.kind = turn.kind /\ turn'.stage = "provider" /\ turn'.parent = turn.parent
      /\ turn'.wait = NoEntry /\ turn'.input = turn.input /\ turn'.messages = Append(turn.messages, n + 1)
  BY <1>1, <1>2, TurnParts DEF Turns
<1>4. /\ log' \in Seq(Records) /\ Len(log') = n + 1 /\ DOMAIN log' = 1..(n + 1)
      /\ \A i \in DOMAIN log' : log'[i].parent < i
      /\ OnePacketPerBatch' /\ PacketOnBranch' /\ \A x : Answered(x) => Answered(x)'
  <2>1. PacketOnBranch /\ {turn.wait} \in SUBSET Entry
    BY <1>1 DEF IInv, TurnShape
  <2>2. PICK ids \in SUBSET Entry : ids = {turn.wait}
    BY <2>1
  <2>3. AppendRecord("tool", ids)
    BY <1>1, <2>2
  <2>4. QED
    BY <1>1, <1>3, <2>1, <2>3, Recorded
<1>. HIDE DEF n
<1>5. Len(log) = n
  BY DEF n
<1>6. TypeOK'
  BY <1>1, <1>2, <1>3, <1>4, <1>5 DEF IInv, TypeOK
<1>7. TurnShape'
  BY <1>1, <1>2, <1>3, <1>4, <1>5, TurnParts DEF IInv, TurnShape
<1>8. AcksAnswered' /\ PausedAtRest'
  BY <1>1, <1>4 DEF IInv, AcksAnswered, PausedAtRest
<1>9. QED
  BY <1>4, <1>6, <1>7, <1>8 DEF IInv

\* wait_agent's acknowledgement leaves file and drain alone.
LEMMA WaitSafe ==
  ASSUME IInv, WaitConsumes
  PROVE  IInv'
<1>1. /\ turn.stage = "waiting" /\ paused' = paused /\ rewindPoint' = rewindPoint /\ conversation' = conversation
      /\ inbox' = [inbox EXCEPT ![turn.wait] = "acknowledged"] /\ unannounced' = unannounced
      /\ drain' = drain /\ rerun' = rerun /\ pendingIds' = pendingIds /\ batch' = batch
      /\ turn' = [turn EXCEPT !.stage = "recording"] /\ log' = log
  BY DEF WaitConsumes, drainVars
<1>2. /\ turn' \in Turns /\ turn'.kind = turn.kind /\ turn'.stage = "recording" /\ turn'.parent = turn.parent
      /\ turn'.wait = turn.wait /\ turn'.input = turn.input /\ turn'.messages = turn.messages
  BY <1>1, TurnParts DEF Turns
<1>3. inbox' \in [Entry -> InboxState]
  BY <1>1 DEF IInv, TypeOK, InboxState
<1>. DEFINE steps == /\ turn.stage = "waiting" /\ paused' = paused /\ rewindPoint' = rewindPoint
                     /\ conversation' = conversation /\ unannounced' = unannounced
                     /\ drain' = drain /\ rerun' = rerun /\ pendingIds' = pendingIds /\ batch' = batch
                     /\ log' = log
<1>4. steps
  BY <1>1
<1>5. TypeOK'
  BY <1>2, <1>3, <1>4 DEF IInv, TypeOK
<1>6. TurnShape'
  BY <1>2, <1>4, TurnParts DEF IInv, TurnShape
<1>7. OnePacketPerBatch' /\ PacketOnBranch'
  BY <1>2, <1>4 DEF IInv, OnePacketPerBatch, PacketOnBranch
<1>8. AcksAnswered' /\ PausedAtRest'
  BY <1>4 DEF IInv, AcksAnswered, Answered, PausedAtRest
<1>9. QED
  BY <1>5, <1>6, <1>7, <1>8 DEF IInv

\* A turn that ends, in whatever way, leaves a conversation of the file's records.
LEMMA TurnEnds ==
  ASSUME IInv, turn' = NoTurn, NEW n \in Nat, Len(log') = n, Len(log) <= n,
         log' \in Seq(Records), \A i \in DOMAIN log' : log'[i].parent < i,
         OnePacketPerBatch', \A e : Answered(e) => Answered(e)',
         conversation' \in Seq(Nat), Range(conversation') \subseteq 1..n, rewindPoint' \subseteq 0..n,
         inbox' = inbox, unannounced' \subseteq unannounced, paused' \in BOOLEAN,
         drain' \in DrainState, rerun' \in BOOLEAN, pendingIds' \subseteq Entry, batch' \subseteq batch,
         (batch' # {}) <=> drain' \in {"marking", "delivering", "acking"}, drain' # "delivered",
         drain' = "acking" => drain = "acking", paused' => drain' \in {"idle", "sleeping"}
  PROVE  IInv'
<1>1. /\ turn'.kind = "none" /\ turn'.stage = "none" /\ turn'.parent = {} /\ turn'.input = 0
      /\ turn'.wait = NoEntry /\ turn'.messages = <<>> /\ turn' \in Turns /\ Range(turn'.messages) = {}
  BY DEF NoTurn, Turns, Range
<1>2. TypeOK'
  BY <1>1 DEF IInv, TypeOK
<1>3. TurnShape' /\ PacketOnBranch'
  BY <1>1 DEF TurnShape, PacketOnBranch
<1>4. AcksAnswered' /\ PausedAtRest'
  BY DEF IInv, AcksAnswered, PausedAtRest
<1>5. QED
  BY <1>2, <1>3, <1>4 DEF IInv

\* A failed prompt rebuilds the conversation from the file, marked or not.
LEMMA FailPromptSafe ==
  ASSUME IInv, FailPrompt
  PROVE  IInv'
<1>1. /\ turn' = NoTurn /\ turn.kind = "prompt" /\ inbox' = inbox /\ unannounced' = unannounced
      /\ paused' = paused /\ rewindPoint' = rewindPoint /\ NotifyAt(drain)
      /\ conversation' = Shown(log', Len(log'))
  BY DEF FailPrompt, inboxVars
<1>2. /\ log' \in Seq(Records) /\ Len(log') \in Nat /\ Len(log) <= Len(log') /\ DOMAIN log' = 1..Len(log')
      /\ \A i \in DOMAIN log' : log'[i].parent < i
      /\ OnePacketPerBatch' /\ \A e : Answered(e) => Answered(e)'
  <2>1. CASE Markable
    <3>1. AppendRecord("failed", {}) /\ Len(log) \in Nat
      BY <2>1, TurnParts DEF FailPrompt
    <3>2. QED
      BY <3>1, Recorded
  <2>2. CASE ~Markable
    <3>1. log' = log
      BY <2>2 DEF FailPrompt
    <3>2. OnePacketPerBatch' /\ \A e : Answered(e) => Answered(e)'
      BY <3>1 DEF IInv, OnePacketPerBatch, Answered
    <3>3. QED
      BY <3>1, <3>2, TurnParts DEF IInv, TypeOK
  <2>3. QED
    BY <2>1, <2>2
<1>3. Tree(log')
  <2>1. \A i \in 1..Len(log') : log'[i] \in Records
    BY <1>2
  <2>2. \A i \in 1..Len(log') : log'[i].parent \in Nat
    BY <2>1 DEF Records
  <2>3. QED
    BY <1>2, <2>2 DEF Tree
<1>4. conversation' \in Seq(Nat) /\ Range(conversation') \subseteq 1..Len(log')
  <2>1. Len(log') \in 0..Len(log')
    BY <1>2
  <2>2. QED
    BY <1>1, <1>3, <2>1, ShownWithin
<1>5. /\ drain' = IF drain = "idle" THEN "sleeping" ELSE drain
      /\ drain' \in DrainState /\ rerun' \in BOOLEAN /\ pendingIds' = pendingIds /\ batch' = batch
  BY <1>1, NotifyMoves DEF IInv, TypeOK
<1>6. /\ pendingIds' \subseteq Entry /\ batch' \subseteq batch
      /\ (batch' # {}) <=> drain' \in {"marking", "delivering", "acking"}
      /\ drain' # "delivered" /\ (drain' = "acking" => drain = "acking")
      /\ paused' \in BOOLEAN /\ (paused' => drain' \in {"idle", "sleeping"})
  BY <1>1, <1>5 DEF IInv, TypeOK, PausedAtRest
<1>7. rewindPoint' \subseteq 0..Len(log') /\ unannounced' \subseteq unannounced
  BY <1>1, <1>2, TurnParts
<1>8. QED
  BY <1>1, <1>2, <1>4, <1>5, <1>6, <1>7, TurnEnds

\* Turns that end without a record.
LEMMA EndsUnwritten ==
  ASSUME IInv, turn' = NoTurn, log' = log, inbox' = inbox, unannounced' \subseteq unannounced
  PROVE  /\ log' \in Seq(Records) /\ Len(log') = Len(log) /\ Len(log) \in Nat /\ Len(log) <= Len(log)
         /\ \A i \in DOMAIN log' : log'[i].parent < i
         /\ OnePacketPerBatch' /\ \A e : Answered(e) => Answered(e)'
<1>1. OnePacketPerBatch' /\ \A e : Answered(e) => Answered(e)'
  BY DEF IInv, OnePacketPerBatch, Answered
<1>2. QED
  BY <1>1, TurnParts DEF IInv, TypeOK

\* A failed delivery leaves the session paused and the drain at rest.
LEMMA FailDeliverySafe ==
  ASSUME IInv, FailDelivery
  PROVE  IInv'
<1>1. /\ turn' = NoTurn /\ inbox' = inbox /\ unannounced' = unannounced
      /\ paused' = TRUE /\ rewindPoint' = rewindPoint /\ conversation' = conversation /\ log' = log
      /\ drain' = "idle" /\ rerun' = FALSE /\ pendingIds' = {} /\ batch' = {}
  BY DEF FailDelivery, EndDrain, inboxVars
<1>2. /\ log' \in Seq(Records) /\ Len(log') = Len(log) /\ Len(log) \in Nat /\ Len(log) <= Len(log)
      /\ \A i \in DOMAIN log' : log'[i].parent < i
      /\ OnePacketPerBatch' /\ \A e : Answered(e) => Answered(e)'
  BY <1>1, EndsUnwritten
<1>3. /\ conversation' \in Seq(Nat) /\ Range(conversation') \subseteq 1..Len(log)
      /\ rewindPoint' \subseteq 0..Len(log) /\ unannounced' \subseteq unannounced
  BY <1>1, TurnParts
<1>4. /\ pendingIds' \subseteq Entry /\ batch' \subseteq batch /\ drain' \in DrainState /\ rerun' \in BOOLEAN
      /\ (batch' # {}) <=> drain' \in {"marking", "delivering", "acking"}
      /\ drain' # "delivered" /\ (drain' = "acking" => drain = "acking")
      /\ paused' \in BOOLEAN /\ (paused' => drain' \in {"idle", "sleeping"})
  BY <1>1 DEF DrainState
<1>5. QED
  BY <1>1, <1>2, <1>3, <1>4, TurnEnds

\* An interrupted delivery leaves the session paused and the drain before its timer.
LEMMA InterruptDeliverySafe ==
  ASSUME IInv, InterruptDelivery
  PROVE  IInv'
<1>1. /\ turn' = NoTurn /\ inbox' = inbox /\ unannounced' = unannounced
      /\ paused' = TRUE /\ rewindPoint' = rewindPoint /\ conversation' = conversation /\ log' = log
      /\ drain' = "sleeping" /\ rerun' = FALSE /\ pendingIds' = {} /\ batch' = {}
  BY DEF InterruptDelivery, EndDrain, inboxVars
<1>2. /\ log' \in Seq(Records) /\ Len(log') = Len(log) /\ Len(log) \in Nat /\ Len(log) <= Len(log)
      /\ \A i \in DOMAIN log' : log'[i].parent < i
      /\ OnePacketPerBatch' /\ \A e : Answered(e) => Answered(e)'
  BY <1>1, EndsUnwritten
<1>3. /\ conversation' \in Seq(Nat) /\ Range(conversation') \subseteq 1..Len(log)
      /\ rewindPoint' \subseteq 0..Len(log) /\ unannounced' \subseteq unannounced
  BY <1>1, TurnParts
<1>4. /\ pendingIds' \subseteq Entry /\ batch' \subseteq batch /\ drain' \in DrainState /\ rerun' \in BOOLEAN
      /\ (batch' # {}) <=> drain' \in {"marking", "delivering", "acking"}
      /\ drain' # "delivered" /\ (drain' = "acking" => drain = "acking")
      /\ paused' \in BOOLEAN /\ (paused' => drain' \in {"idle", "sleeping"})
  BY <1>1 DEF DrainState
<1>5. QED
  BY <1>1, <1>2, <1>3, <1>4, TurnEnds

\* A rewound prompt leaves the parent of its input as the rewind point.
LEMMA InterruptPromptSafe ==
  ASSUME IInv, NEW sawResponse \in BOOLEAN, InterruptPrompt(sawResponse)
  PROVE  IInv'
<1>1. /\ turn' = NoTurn /\ turn.kind = "prompt" /\ turn.stage = "provider" /\ inbox' = inbox
      /\ unannounced' = unannounced /\ paused' = paused /\ log' = log /\ NotifyAt(drain)
  BY DEF InterruptPrompt, inboxVars
<1>2. /\ log' \in Seq(Records) /\ Len(log') = Len(log) /\ Len(log) \in Nat /\ Len(log) <= Len(log)
      /\ \A i \in DOMAIN log' : log'[i].parent < i
      /\ OnePacketPerBatch' /\ \A e : Answered(e) => Answered(e)'
  BY <1>1, EndsUnwritten
<1>3. /\ conversation' \in Seq(Nat) /\ Range(conversation') \subseteq 1..Len(log)
      /\ rewindPoint' \subseteq 0..Len(log) /\ unannounced' \subseteq unannounced
  <2>1. CASE sawResponse
    BY <1>1, <2>1, TurnParts DEF InterruptPrompt
  <2>2. CASE ~sawResponse
    <3>1. turn.input \in 1..Len(log) /\ Tree(log)
      BY <1>1, TurnParts, LogTree DEF IInv, TurnShape
    <3>2. PICK parent : parent = log[turn.input].parent
      OBVIOUS
    <3>3. parent \in 0..Len(log)
      BY <1>2, <3>1, <3>2 DEF Tree
    <3>4. rewindPoint' = {parent} /\ conversation' = Shown(log, parent)
      BY <2>2, <3>2 DEF InterruptPrompt
    <3>5. QED
      BY <1>1, <3>1, <3>3, <3>4, ShownWithin
  <2>3. QED
    BY <2>1, <2>2
<1>4. /\ drain' = IF drain = "idle" THEN "sleeping" ELSE drain
      /\ drain' \in DrainState /\ rerun' \in BOOLEAN /\ pendingIds' = pendingIds /\ batch' = batch
  BY <1>1, NotifyMoves DEF IInv, TypeOK
<1>5. /\ pendingIds' \subseteq Entry /\ batch' \subseteq batch
      /\ (batch' # {}) <=> drain' \in {"marking", "delivering", "acking"}
      /\ drain' # "delivered" /\ (drain' = "acking" => drain = "acking")
      /\ paused' \in BOOLEAN /\ (paused' => drain' \in {"idle", "sleeping"})
  BY <1>1, <1>4 DEF IInv, TypeOK, PausedAtRest
<1>6. QED
  BY <1>1, <1>2, <1>3, <1>4, <1>5, TurnEnds

\* A restart rebuilds everything in memory from the file.
LEMMA RestartSafe ==
  ASSUME IInv, Restart
  PROVE  IInv'
<1>1. /\ turn' = NoTurn /\ inbox' = inbox /\ unannounced' = {}
      /\ paused' = FALSE /\ rewindPoint' = {} /\ conversation' = Shown(log, Len(log)) /\ log' = log
      /\ drain' = "sleeping" /\ rerun' = FALSE /\ pendingIds' = {} /\ batch' = {}
  BY DEF Restart, EndDrain
<1>2. /\ log' \in Seq(Records) /\ Len(log') = Len(log) /\ Len(log) \in Nat /\ Len(log) <= Len(log)
      /\ \A i \in DOMAIN log' : log'[i].parent < i
      /\ OnePacketPerBatch' /\ \A e : Answered(e) => Answered(e)'
  BY <1>1, EndsUnwritten
<1>3. /\ conversation' \in Seq(Nat) /\ Range(conversation') \subseteq 1..Len(log)
      /\ rewindPoint' \subseteq 0..Len(log) /\ unannounced' \subseteq unannounced
  <2>1. Tree(log) /\ Len(log) \in 0..Len(log)
    BY <1>2, LogTree DEF IInv
  <2>2. QED
    BY <1>1, <2>1, ShownWithin
<1>4. /\ pendingIds' \subseteq Entry /\ batch' \subseteq batch /\ drain' \in DrainState /\ rerun' \in BOOLEAN
      /\ (batch' # {}) <=> drain' \in {"marking", "delivering", "acking"}
      /\ drain' # "delivered" /\ (drain' = "acking" => drain = "acking")
      /\ paused' \in BOOLEAN /\ (paused' => drain' \in {"idle", "sleeping"})
  BY <1>1 DEF DrainState
<1>5. QED
  BY <1>1, <1>2, <1>3, <1>4, TurnEnds

-----------------------------------------------------------------------------
(* The theorems.                                                             *)

\* The invariant holds of a session without a record.
LEMMA InitSafe ==
  ASSUME Init
  PROVE  IInv
<1>1. /\ log = <<>> /\ turn = NoTurn /\ conversation = <<>> /\ drain = "idle" /\ paused = FALSE
      /\ inbox = [e \in Entry |-> "absent"] /\ unannounced = {} /\ rerun = FALSE
      /\ pendingIds = {} /\ batch = {} /\ rewindPoint = {}
  BY DEF Init
<1>2. /\ Len(log) = 0 /\ log \in Seq(Records) /\ DOMAIN log = {}
      /\ conversation \in Seq(Nat) /\ Range(conversation) = {}
  BY <1>1 DEF Range
<1>3. /\ turn.kind = "none" /\ turn.stage = "none" /\ turn.parent = {} /\ turn.input = 0
      /\ turn.wait = NoEntry /\ turn.messages = <<>> /\ turn \in Turns /\ Range(turn.messages) = {}
  BY <1>1 DEF NoTurn, Turns, Range
<1>4. /\ inbox \in [Entry -> InboxState] /\ unannounced \subseteq Entry
      /\ drain \in DrainState /\ rerun \in BOOLEAN
      /\ pendingIds \subseteq Entry /\ batch \subseteq Entry
      /\ (batch # {}) <=> drain \in {"marking", "delivering", "delivered", "acking"}
      /\ (drain = "delivered") <=> (turn.kind = "delivery")
      /\ paused \in BOOLEAN
  BY <1>1, <1>3 DEF InboxState, DrainState
<1>5. TypeOK
  <2>1. /\ turn.input \in 0..Len(log) /\ Range(turn.messages) \subseteq 1..Len(log)
        /\ Range(conversation) \subseteq 1..Len(log) /\ rewindPoint \subseteq 0..Len(log)
        /\ \A i \in DOMAIN log : log[i].parent < i
    BY <1>1, <1>2, <1>3
  <2>2. QED
    BY <1>2, <1>3, <1>4, <2>1 DEF TypeOK
<1>6. TurnShape
  BY <1>2, <1>3 DEF TurnShape
<1>7. PacketOnBranch /\ AcksAnswered /\ PausedAtRest /\ OnePacketPerBatch
  BY <1>1, <1>2, <1>3 DEF PacketOnBranch, AcksAnswered, PausedAtRest, OnePacketPerBatch
<1>8. QED
  BY <1>5, <1>6, <1>7 DEF IInv

\* Every step keeps the invariant.
LEMMA NextSafe ==
  ASSUME IInv, [Next]_vars
  PROVE  IInv'
<1>1. ASSUME NEW e \in Entry, Enqueue(e) \/ Announce(e) \/ CallWaitAgent(e) \/ AckDelivered(e) PROVE IInv'
  BY <1>1, EnqueueSafe, AnnounceSafe, CallSafe, AckSafe
<1>2. ASSUME Wake \/ ListInbox \/ MarkDelivered \/ Deliver PROVE IInv'
  BY <1>2, WakeSafe, ListSafe, MarkSafe, DeliverSafe
<1>3. ASSUME TurnStep PROVE IInv'
  BY <1>3, InputSafe, SnapshotSafe, ReplySafe, WaitSafe, ResultSafe DEF TurnStep
<1>4. ASSUME SubmitPrompt \/ RetryDelivery \/ FailPrompt \/ FailDelivery \/ InterruptDelivery \/ Restart PROVE IInv'
  BY <1>4, SubmitSafe, RetrySafe, FailPromptSafe, FailDeliverySafe, InterruptDeliverySafe, RestartSafe
<1>5. ASSUME NEW saw \in BOOLEAN, InterruptPrompt(saw) PROVE IInv'
  BY <1>5, InterruptPromptSafe
<1>6. CASE UNCHANGED vars
  <2>1. /\ inbox' = inbox /\ unannounced' = unannounced /\ drain' = drain /\ rerun' = rerun
        /\ pendingIds' = pendingIds /\ batch' = batch /\ paused' = paused /\ UNCHANGED <<turnVars, log>>
    BY <1>6 DEF vars, inboxVars, drainVars
  <2>2. /\ TurnShape' /\ OnePacketPerBatch' /\ PacketOnBranch' /\ \A x : Answered(x)' <=> Answered(x)
        /\ turn' = turn /\ rewindPoint' = rewindPoint /\ conversation' = conversation /\ log' = log
    BY <2>1, TurnStays
  <2>3. TypeOK' /\ AcksAnswered' /\ PausedAtRest'
    BY <2>1, <2>2 DEF IInv, TypeOK, AcksAnswered, PausedAtRest
  <2>4. QED
    BY <2>2, <2>3 DEF IInv
<1>7. QED
  BY <1>1, <1>2, <1>3, <1>4, <1>5, <1>6 DEF Next, DrainStep

\* The inductive invariant: whatever fails, is interrupted, crashes and is
\* retried, drain, turn and session file agree.
THEOREM DeliveryInvariant == Spec => []IInv
<1>1. Init => IInv
  BY InitSafe
<1>2. IInv /\ [Next]_vars => IInv'
  BY NextSafe
<1>3. QED
  BY <1>1, <1>2, PTL DEF Spec

\* A delivery turn runs exactly while its drain awaits it, a batch is held
\* exactly between listing and acknowledgement, and turns and conversation are
\* made of records the file has.
THEOREM DeliveryTypes == Spec => []TypeOK
<1>1. IInv => TypeOK
  BY DEF IInv
<1>2. QED
  BY <1>1, DeliveryInvariant, PTL

\* No branch of the session ever carries two packets for one batch, whatever the
\* number of entries, prompts, failures and crashes.
THEOREM OnePacket == Spec => []OnePacketPerBatch
<1>1. IInv => OnePacketPerBatch
  BY DEF IInv
<1>2. QED
  BY <1>1, DeliveryInvariant, PTL

\* An entry is acknowledged only once the model has durably answered a packet
\* with it, or by the wait_agent call that holds its result.
THEOREM Acknowledgement == Spec => AcknowledgedOnlyWhenConsumed
<1>. DEFINE Consumed == \A e \in Entry : inbox'[e] = "acknowledged" /\ inbox[e] # "acknowledged"
                                          => Answered(e) \/ turn.wait = e
<1>1. ASSUME IInv, [Next]_vars PROVE [Consumed]_vars
  <2>. SUFFICES ASSUME NEW e \in Entry, inbox'[e] = "acknowledged", inbox[e] # "acknowledged"
                PROVE  Answered(e) \/ turn.wait = e
    OBVIOUS
  <2>1. inbox \in [Entry -> InboxState] /\ pendingIds \subseteq Entry
    BY <1>1 DEF IInv, TypeOK
  <2>2. ASSUME NEW d \in Entry, Enqueue(d) PROVE FALSE
    BY <2>1, <2>2 DEF Enqueue
  <2>3. ASSUME NEW d \in Entry, Announce(d) \/ CallWaitAgent(d) PROVE FALSE
    BY <2>3 DEF Announce, CallWaitAgent, inboxVars
  <2>4. ASSUME NEW d \in Entry, AckDelivered(d) PROVE Answered(e)
    <3>1. d = e
      BY <2>1, <2>4 DEF AckDelivered
    <3>2. QED
      BY <1>1, <2>4, <3>1 DEF AckDelivered, IInv, AcksAnswered
  <2>5. ASSUME Wake \/ ListInbox \/ Deliver PROVE FALSE
    BY <2>5 DEF Wake, ListInbox, Deliver, inboxVars
  <2>6. ASSUME MarkDelivered PROVE FALSE
    BY <2>1, <2>6 DEF MarkDelivered
  <2>7. ASSUME AppendInput \/ Snapshot \/ Reply \/ RecordToolResult PROVE FALSE
    BY <2>7 DEF AppendInput, Snapshot, Reply, RecordToolResult, inboxVars
  <2>8. ASSUME WaitConsumes PROVE turn.wait = e
    BY <2>1, <2>8 DEF WaitConsumes
  <2>9. ASSUME SubmitPrompt \/ RetryDelivery \/ FailPrompt \/ FailDelivery \/ InterruptDelivery \/ Restart PROVE FALSE
    BY <2>9 DEF SubmitPrompt, RetryDelivery, FailPrompt, FailDelivery, InterruptDelivery, Restart, inboxVars
  <2>10. ASSUME NEW saw \in BOOLEAN, InterruptPrompt(saw) PROVE FALSE
    BY <2>10 DEF InterruptPrompt, inboxVars
  <2>11. CASE UNCHANGED vars
    BY <2>11 DEF vars, inboxVars
  <2>12. QED
    BY <1>1, <2>2, <2>3, <2>4, <2>5, <2>6, <2>7, <2>8, <2>9, <2>10, <2>11 DEF Next, DrainStep, TurnStep
<1>. HIDE DEF Consumed
<1>2. Spec => [][Consumed]_vars
  BY <1>1, DeliveryInvariant, PTL DEF Spec
<1>3. QED
  BY <1>2 DEF Consumed, AcknowledgedOnlyWhenConsumed

\* No delivery starts while the session is paused: one that failed waits for the
\* user (the safety half of DeliversUntilPaused).
THEOREM PausedDeliveries == Spec => PausedUntilUserActs
<1>. DEFINE Unpaused == turn.kind # "delivery" /\ turn'.kind = "delivery" => ~paused
<1>1. ASSUME IInv, [Next]_vars PROVE [Unpaused]_vars
  <2>. SUFFICES ASSUME turn.kind # "delivery", turn'.kind = "delivery" PROVE ~paused
    OBVIOUS
  <2>1. turn \in Turns
    BY <1>1 DEF IInv, TurnShape
  <2>2. ASSUME NEW d \in Entry, Enqueue(d) \/ Announce(d) \/ AckDelivered(d) PROVE FALSE
    BY <2>2 DEF Enqueue, Announce, AckDelivered, turnVars
  <2>3. ASSUME NEW d \in Entry, CallWaitAgent(d) PROVE FALSE
    BY <2>1, <2>3 DEF CallWaitAgent, Turns
  <2>4. ASSUME Wake \/ ListInbox \/ MarkDelivered \/ RetryDelivery PROVE FALSE
    BY <2>4 DEF Wake, ListInbox, MarkDelivered, RetryDelivery, turnVars
  <2>5. ASSUME Deliver PROVE ~paused
    BY <1>1, <2>5 DEF Deliver, IInv, PausedAtRest
  <2>6. ASSUME AppendInput PROVE FALSE
    BY <2>1, <2>6 DEF AppendInput, Turns
  <2>7. ASSUME Snapshot \/ WaitConsumes \/ RecordToolResult PROVE FALSE
    BY <2>1, <2>7 DEF Snapshot, WaitConsumes, RecordToolResult, Turns
  <2>8. ASSUME Reply \/ FailPrompt \/ FailDelivery \/ InterruptDelivery \/ Restart PROVE FALSE
    <3>1. turn' = NoTurn
      BY <2>8 DEF Reply, FailPrompt, FailDelivery, InterruptDelivery, Restart
    <3>2. QED
      BY <3>1 DEF NoTurn
  <2>9. ASSUME SubmitPrompt PROVE FALSE
    BY <2>9 DEF SubmitPrompt, NoTurn
  <2>10. ASSUME NEW saw \in BOOLEAN, InterruptPrompt(saw) PROVE FALSE
    BY <2>10 DEF InterruptPrompt, NoTurn
  <2>11. CASE UNCHANGED vars
    BY <2>11 DEF vars, turnVars
  <2>12. QED
    BY <1>1, <2>2, <2>3, <2>4, <2>5, <2>6, <2>7, <2>8, <2>9, <2>10, <2>11 DEF Next, DrainStep, TurnStep
<1>. HIDE DEF Unpaused
<1>2. Spec => [][Unpaused]_vars
  BY <1>1, DeliveryInvariant, PTL DEF Spec
<1>3. QED
  BY <1>2 DEF Unpaused, PausedUntilUserActs
==============================================================================
