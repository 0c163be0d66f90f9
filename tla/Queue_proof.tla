------------------------------ MODULE Queue_proof ------------------------------
(***************************************************************************)
(* The composer's queue is safe for every number of entries, commands      *)
(* among them, and turns.                                                  *)
(*                                                                         *)
(* Every entry has one place: it waits, is in the hands of a turn, has     *)
(* been recorded or started, or is in the prompt history.  The places      *)
(* agree with the order of entry, whichever way entries move between them, *)
(* because those that wait were entered after those that left before them  *)
(* (Places).  What a regeneration replaces has its places as well, since   *)
(* its marker can bring it back (Remembered).  And what an interrupted     *)
(* turn releases is the queue whose head was at Escape (Taken).            *)
(***************************************************************************)
EXTENDS MCHost, DataLemmas

-----------------------------------------------------------------------------
(* The inductive invariant.                                                  *)

\* What may hold the host's busy flag.
QueueTurns == [kind : {"none", "prompt", "delivery", "resolution", "regenerate", "work"},
               stage : {"none", "fork", "boot", "provider", "commands", "inject", "rebuild", "reload"},
               prompt : Nat, by : Nat, aborted : BOOLEAN, head : Nat, todo : Seq(Nat), seen : SUBSET Nat,
               old : Seq(Nat)]

\* The entries that are messages, those that are commands, and those that were
\* queued.
Messages == Queue!Is({"message"})
Commands == Queue!Is(Queue!Command)
QueuedOnes == {n \in DOMAIN wEntries : wEntries[n].queued}

\* The entries a turn took from the queue and works on: commands it runs,
\* messages it is about to record.
Todo(stage) == IF wTurn.stage = stage THEN Range(wTurn.todo) ELSE {}

\* The prompt of a turn that has not been recorded yet.
Booting == IF wTurn.stage = "boot" /\ wTurn.kind = "prompt" THEN {wTurn.prompt} ELSE {}

\* Types of the queue's variables.
QueueTypes ==
  /\ wEntries \in Seq([input : Queue!Input, queued : BOOLEAN])
  /\ wDraft \in Queue!Input \cup {Queue!Nothing}
  /\ wItems \in Seq(Nat) /\ wLog \in Seq(Nat) /\ wRan \in Seq(Nat)
  /\ wTurn \in QueueTurns
  /\ wConversation \in SUBSET Nat /\ wCaptured \in Nat
  /\ wReady \in {"no", "turn", "command"}

\* What a turn holds at each of its stages.
Hands ==
  /\ wTurn.kind = "none" <=> wTurn.stage = "none"
  /\ wTurn.stage = "none" => ~wTurn.aborted
  /\ wTurn.stage \notin {"commands", "inject"} => wTurn.todo = <<>>
  /\ wTurn.stage = "inject" => wTurn.todo # <<>>
  /\ wTurn.kind = "work" => wTurn.stage = "provider"
  /\ wTurn.stage = "fork" => wTurn.kind = "regenerate"
  /\ wTurn.stage = "rebuild" => wTurn.kind # "regenerate"
  /\ wTurn.prompt \in wElsewhere \cup {0} /\ wTurn.by \in Range(wRan) \cup {0}
  /\ wTurn.kind = "prompt" => wTurn.prompt # 0
  /\ wExecuting \subseteq Range(wRan)

\* Entries of the queue are queued ones that went nowhere yet; messages and
\* commands each wait in the order they were entered, behind those the turn has
\* taken before them.
Waiting ==
  /\ Range(wItems) \subseteq QueuedOnes \ (wElsewhere \cup Range(wRan))
  /\ InOrder(wItems, Messages) /\ InOrder(wItems, Commands)
  /\ Todo("commands") \subseteq (Commands \cap QueuedOnes) \ (Range(wItems) \cup wElsewhere \cup Range(wRan))
  /\ Todo("inject") \subseteq (Messages \cap QueuedOnes \cap wElsewhere) \ Queue!Users(wLog)
  /\ InOrder(wTurn.todo, Nat)
  /\ Precede(Todo("commands"), Range(wItems) \cap Commands)
  /\ Precede(Todo("inject"), Range(wItems) \cap Messages)

\* Records of the session are of the prompt history, once each and, of the
\* queued messages, in their order: whatever still waits was entered later.
Recorded ==
  /\ Queue!Users(wLog) \subseteq wElsewhere /\ wElsewhere \subseteq DOMAIN wEntries
  /\ OnceEach(wLog) /\ InOrder(wLog, Messages \cap QueuedOnes)
  /\ Booting \cap Queue!Users(wLog) = {}
  /\ Precede(Booting \cap Messages \cap QueuedOnes, Range(wItems) \cap Messages)
  /\ Precede(Queue!Users(wLog) \cap Messages \cap QueuedOnes,
             ((Range(wItems) \cup Todo("inject") \cup Booting) \cap Messages) \cap QueuedOnes)

\* A regeneration forks at a recorded prompt, and what the log held before, which
\* its marker can bring back, was in order as well.
Remembered ==
  /\ wTurn.kind = "regenerate" /\ wTurn.stage \in {"fork", "boot"} => wTurn.prompt \in Queue!Users(wLog)
  /\ Queue!Users(wTurn.old) \subseteq wElsewhere
  /\ OnceEach(wTurn.old) /\ InOrder(wTurn.old, Messages \cap QueuedOnes)
  /\ Precede(Queue!Users(wTurn.old) \cap Messages \cap QueuedOnes, Range(wItems) \cap Messages)

\* Commands are started once, the queued ones in their order: whatever still
\* waits was entered later.
Started ==
  /\ Range(wRan) \subseteq Commands /\ IsInjective(wRan) /\ InOrder(wRan, QueuedOnes)
  /\ Precede(Range(wRan) \cap QueuedOnes, (Range(wItems) \cup Todo("commands")) \cap Commands)

\* No entry is lost.
Kept == DOMAIN wEntries \subseteq Range(wItems) \cup Range(wTurn.todo) \cup Range(wRan) \cup wElsewhere

\* What an interrupted turn released is the queue whose head was at Escape, for
\* a conversation that holds what the session holds.
Taken ==
  /\ wInterrupted = "turn" /\ wReady = "turn" =>
       /\ wItems # <<>> /\ Head(wItems) = wAsked /\ wConversation = Queue!Users(wLog) /\ ~Queue!Busy
  /\ wTurn.aborted /\ wTurn.stage # "rebuild" => wAsked = wCaptured
  /\ wTurn.stage = "rebuild" => wAsked = wTurn.head
  /\ wTurn.kind \notin {"none", "regenerate", "work"} => wReady # "turn"

\* Every entry has its place, and the places agree with the order of entry.
Places == Waiting /\ Recorded /\ Remembered /\ Started /\ Kept

\* The inductive invariant of the queue.
QueueInv == QueueTypes /\ Hands /\ Places /\ Taken

-----------------------------------------------------------------------------
(* What it says of entries and of the log.                                   *)

\* The names of the community modules inside the queue's instance.
LEMMA QueueNames ==
  ASSUME NEW s, NEW A
  PROVE  /\ Queue!Range(s) = Range(s) /\ Queue!IsInjective(s) = IsInjective(s)
         /\ Queue!Only(s, A) = Only(s, A)
<1>1. Queue!Range(s) = Range(s)
  BY DEF Queue!Range, Range
<1>2. Queue!IsInjective(s) = IsInjective(s)
  BY DEF Queue!IsInjective, IsInjective
<1>3. Queue!Only(s, A) = Only(s, A)
  BY Zenon DEF Queue!Only, Only
<1> QED  BY <1>1, <1>2, <1>3

\* An entry is a message or a command.
LEMMA KindFacts ==
  ASSUME wEntries \in Seq([input : Queue!Input, queued : BOOLEAN])
  PROVE  /\ DOMAIN wEntries = 1..Len(wEntries) /\ Len(wEntries) \in Nat
         /\ Messages \cap Commands = {} /\ Messages \cup Commands = DOMAIN wEntries
         /\ QueuedOnes \subseteq DOMAIN wEntries /\ 0 \notin DOMAIN wEntries /\ DOMAIN wEntries \subseteq Nat
<1>0. wEntries \in [1..Len(wEntries) -> [input : Queue!Input, queued : BOOLEAN]] /\ Len(wEntries) \in Nat
  BY LenProperties
<1>1. /\ DOMAIN wEntries = 1..Len(wEntries) /\ Len(wEntries) \in Nat
      /\ \A n \in DOMAIN wEntries : wEntries[n].input \in Queue!Input
  BY <1>0
<1>2. Messages = {n \in DOMAIN wEntries : wEntries[n].input = "message"}
  BY DEF Messages, Queue!Is
<1>3. Commands = {n \in DOMAIN wEntries : wEntries[n].input \in {"tool", "loop", "skill"}}
  BY DEF Commands, Queue!Is, Queue!Command
<1>4. Queue!Input = {"message", "tool", "loop", "skill"}
  BY DEF Queue!Input, Queue!Command
<1> QED  BY <1>1, <1>2, <1>3, <1>4 DEF QueuedOnes

\* The user's records are the numbered ones.
LEMMA UsersAre ==
  ASSUME NEW records
  PROVE  Queue!Users(records) = Range(records) \ {0}
BY QueueNames DEF Queue!Users

\* What the invariant says of the numbers of entries.
LEMMA QueueFacts ==
  ASSUME QueueInv
  PROVE  /\ DOMAIN wEntries = 1..Len(wEntries) /\ Len(wEntries) \in Nat
         /\ Messages \cap Commands = {} /\ Messages \cup Commands = DOMAIN wEntries
         /\ QueuedOnes \subseteq DOMAIN wEntries /\ 0 \notin DOMAIN wEntries /\ DOMAIN wEntries \subseteq Nat
         /\ Range(wItems) \subseteq DOMAIN wEntries /\ Range(wRan) \subseteq DOMAIN wEntries
         /\ Queue!Users(wLog) \subseteq DOMAIN wEntries /\ wElsewhere \subseteq DOMAIN wEntries
         /\ IsInjective(wItems) /\ wTurn.todo \in Seq(Nat)
         /\ wItems \in Seq(Nat) /\ wLog \in Seq(Nat) /\ wRan \in Seq(Nat)
<1>1. wEntries \in Seq([input : Queue!Input, queued : BOOLEAN]) /\ wItems \in Seq(Nat)
/\ wLog \in Seq(Nat) /\ wRan \in Seq(Nat)
      /\ wTurn \in QueueTurns
  BY DEF QueueInv, QueueTypes
<1>2. /\ DOMAIN wEntries = 1..Len(wEntries) /\ Len(wEntries) \in Nat
      /\ Messages \cap Commands = {} /\ Messages \cup Commands = DOMAIN wEntries
      /\ QueuedOnes \subseteq DOMAIN wEntries /\ 0 \notin DOMAIN wEntries /\ DOMAIN wEntries \subseteq Nat
  BY <1>1, KindFacts
<1>3. /\ Range(wItems) \subseteq DOMAIN wEntries /\ Range(wRan) \subseteq DOMAIN wEntries
      /\ Queue!Users(wLog) \subseteq DOMAIN wEntries /\ wElsewhere \subseteq DOMAIN wEntries
  BY <1>2 DEF QueueInv, Places, Waiting, Recorded, Started
<1>4. IsInjective(wItems)
  BY <1>1, <1>2, <1>3, OrderInjective DEF QueueInv, Places, Waiting
<1>5. wTurn.todo \in Seq(Nat)
  BY <1>1 DEF QueueTurns
<1> QED  BY <1>1, <1>2, <1>3, <1>4, <1>5

\* What was entered stays what it is.
Grown ==
  \A n \in DOMAIN wEntries : /\ n \in DOMAIN wEntries'
                             /\ n \in Messages' <=> n \in Messages
                             /\ n \in Commands' <=> n \in Commands
                             /\ n \in QueuedOnes' <=> n \in QueuedOnes

\* Nothing was entered.
LEMMA SameEntries ==
  ASSUME wEntries' = wEntries
  PROVE  Grown /\ Messages' = Messages /\ Commands' = Commands /\ QueuedOnes' = QueuedOnes
BY DEF Grown, Messages, Commands, QueuedOnes, Queue!Is

\* Enter makes the latest entry.
LEMMA Enters ==
  ASSUME QueueTypes, NEW queued \in BOOLEAN, Queue!Enter(queued)
  PROVE  /\ wEntries' \in Seq([input : Queue!Input, queued : BOOLEAN]) /\ wDraft' = Queue!Nothing
         /\ DOMAIN wEntries' = DOMAIN wEntries \cup {Queue!Entered} /\ Queue!Entered \in Nat \ {0}
         /\ Queue!Entered \notin DOMAIN wEntries
         /\ \A n \in DOMAIN wEntries : n < Queue!Entered
         /\ Grown
         /\ Queue!Entered \in Messages' <=> wDraft = "message"
         /\ Queue!Entered \in Commands' <=> wDraft \in Queue!Command
         /\ Queue!Entered \in QueuedOnes' <=> queued
<1> DEFINE e == Len(wEntries) + 1
           new == [input |-> wDraft, queued |-> queued]
<1>1. /\ wEntries \in Seq([input : Queue!Input, queued : BOOLEAN]) /\ wDraft \in Queue!Input
      /\ wEntries' = Append(wEntries, new) /\ wDraft' = Queue!Nothing /\ Queue!Entered = e
  BY DEF QueueTypes, Queue!Enter, Queue!Entered
<1>2. new \in [input : Queue!Input, queued : BOOLEAN] /\ new.input = wDraft /\ new.queued = queued
  BY <1>1
<1> HIDE DEF new
<1>3. /\ wEntries' \in Seq([input : Queue!Input, queued : BOOLEAN])
      /\ DOMAIN wEntries = 1..Len(wEntries) /\ Len(wEntries) \in Nat /\ DOMAIN wEntries' = 1..e
      /\ wEntries'[e] = new /\ \A n \in 1..Len(wEntries) : wEntries'[n] = wEntries[n]
  BY <1>1, <1>2
<1>4. /\ DOMAIN wEntries' = DOMAIN wEntries \cup {e} /\ e \in Nat \ {0} /\ e \notin DOMAIN wEntries
      /\ \A n \in DOMAIN wEntries : n < e
  BY <1>3
<1> HIDE DEF e
<1>5. Grown
  BY <1>3, <1>4 DEF Grown, Messages, Commands, QueuedOnes, Queue!Is
<1>6. /\ e \in Messages' <=> wDraft = "message"
      /\ e \in Commands' <=> wDraft \in Queue!Command
      /\ e \in QueuedOnes' <=> queued
  BY <1>2, <1>3, <1>4 DEF Messages, Commands, QueuedOnes, Queue!Is
<1> QED  BY <1>1, <1>3, <1>4, <1>5, <1>6

\* A list in order stays so when something later is appended.
LEMMA AppendOnce ==
  ASSUME NEW s \in Seq(Nat), NEW n \in Nat, OnceEach(s), n \notin Queue!Users(s), NEW K, InOrder(s, K),
         n \in K => \A m \in Queue!Users(s) \cap K : m < n, 0 \notin K
  PROVE  /\ Append(s, n) \in Seq(Nat) /\ OnceEach(Append(s, n)) /\ InOrder(Append(s, n), K)
         /\ Queue!Users(Append(s, n)) = Queue!Users(s) \cup ({n} \ {0})
<1>1. Queue!Users(s) = Range(s) \ {0} /\ Queue!Users(Append(s, n)) = Range(Append(s, n)) \ {0}
  BY UsersAre
<1>2. Append(s, n) \in Seq(Nat) /\ Range(Append(s, n)) = Range(s) \cup {n}
  BY AppendRange
<1>3. InOrder(Append(s, n), K)
  BY <1>1, AppendOrder
<1>4. OnceEach(Append(s, n))
  <2> DEFINE t == Append(s, n)
  <2>1. /\ DOMAIN t = 1..(Len(s) + 1) /\ DOMAIN s = 1..Len(s) /\ Len(s) \in Nat
        /\ t[Len(s) + 1] = n /\ \A i \in 1..Len(s) : t[i] = s[i]
    OBVIOUS
  <2> HIDE DEF t
  <2>2. OnceEach(t)
    BY <1>1, <2>1 DEF OnceEach, Range
  <2> QED  BY <2>2 DEF t
<1> QED  BY <1>1, <1>2, <1>3, <1>4

\* A record that is a beginning of the log, or the log and an answer.
LogKept ==
  /\ wLog' \in Seq(Nat) /\ OnceEach(wLog)' /\ \A K : 0 \notin K /\ InOrder(wLog, K) => InOrder(wLog', K)
  /\ Queue!Users(wLog)' \subseteq Queue!Users(wLog)

\* The log is left alone.
LEMMA SameLog ==
  ASSUME QueueInv, wLog' = wLog
  PROVE  LogKept
BY QueueFacts DEF LogKept, QueueInv, Places, Recorded, OnceEach

\* An answer closes the log.
LEMMA LogAnswered ==
  ASSUME QueueInv, wLog' = Queue!Answered
  PROVE  LogKept /\ Queue!Users(wLog)' = Queue!Users(wLog)
<1>1. CASE wLog' = wLog
  BY <1>1, SameLog
<1>2. CASE wLog' = Append(wLog, 0)
  <2>1. OnceEach(wLog) /\ 0 \notin Queue!Users(wLog) /\ wLog \in Seq(Nat)
    BY UsersAre, QueueFacts DEF QueueInv, Places, Recorded
  <2>0. InOrder(wLog, {})
    BY DEF InOrder
  <2>2. Append(wLog, 0) \in Seq(Nat) /\ OnceEach(Append(wLog, 0))
                                     /\ Queue!Users(Append(wLog, 0)) = Queue!Users(wLog) \cup ({0} \ {0})
    BY <2>0, <2>1, AppendOnce
  <2>3. \A K : 0 \notin K /\ InOrder(wLog, K) => InOrder(Append(wLog, 0), K)
    BY <2>1, AppendOrder
  <2> QED  BY <1>2, <2>2, <2>3 DEF LogKept, OnceEach, Queue!Users
<1> QED  BY <1>1, <1>2 DEF Queue!Answered

\* A beginning of the log is kept.
LEMMA LogCut ==
  ASSUME QueueInv, NEW n \in 0..Len(wLog), wLog' = SubSeq(wLog, 1, n)
  PROVE  LogKept
<1> DEFINE t == SubSeq(wLog, 1, n)
<1>1. wLog \in Seq(Nat) /\ OnceEach(wLog)
  BY QueueFacts DEF QueueInv, Places, Recorded
<1>2. /\ t \in Seq(Nat) /\ \A K : InOrder(wLog, K) => InOrder(t, K)
      /\ Range(t) \subseteq Range(wLog)
  <2>1. InOrder(wLog, {})
    BY DEF InOrder
  <2> QED  BY <1>1, <2>1, PrefixOrder
<1>3. OnceEach(t)
  <2>1. /\ DOMAIN t = 1..n /\ DOMAIN wLog = 1..Len(wLog) /\ Len(wLog) \in Nat
        /\ \A i \in 1..n : t[i] = wLog[i] /\ i \in DOMAIN wLog
    BY <1>1
  <2> HIDE DEF t
  <2> QED  BY <1>1, <2>1 DEF OnceEach
<1> HIDE DEF t
<1>4. wLog' = t
  BY DEF t
<1>5. Queue!Users(wLog)' = Range(t) \ {0} /\ Queue!Users(wLog) = Range(wLog) \ {0}
  BY <1>4, UsersAre
<1> QED  BY <1>2, <1>3, <1>4, <1>5 DEF LogKept, OnceEach

-----------------------------------------------------------------------------
(* Steps that leave the entries in their places.                             *)

\* A turn that has nothing to bring back.
LEMMA NothingRemembered ==
  ASSUME wTurn'.old = <<>>, wTurn'.kind # "regenerate" \/ wTurn'.stage \notin {"fork", "boot"}
  PROVE  Remembered'
<1>1. Range(<<>>) = {}
  BY DEF Range
<1>2. Queue!Users(wTurn.old)' = {}
  BY <1>1, UsersAre DEF Queue!Users, Queue!Range
<1> QED  BY <1>2 DEF Remembered, OnceEach, InOrder, Precede

\* Nor does it forget what it has, while the queue grows at its end.
LEMMA RememberedKept ==
  ASSUME QueueInv, Grown, wEntries' \in Seq([input : Queue!Input, queued : BOOLEAN]),
         wTurn'.old \in {wTurn.old, <<>>}, wElsewhere \subseteq wElsewhere',
         \A n \in Range(wItems') : n \in Range(wItems) \/ \A m \in DOMAIN wEntries : m < n,
         wTurn'.kind = "regenerate" /\ wTurn'.stage \in {"fork", "boot"} =>
           wTurn.kind = "regenerate" /\ wTurn.stage \in {"fork", "boot"} /\ wTurn'.prompt = wTurn.prompt /\ wLog' = wLog
  PROVE  Remembered'
<1> DEFINE forks == wTurn.kind = "regenerate" /\ wTurn.stage \in {"fork", "boot"} => wTurn.prompt \in Queue!Users(wLog)
<1>1. forks'
  BY DEF QueueInv, Places, Remembered, Queue!Users
<1>2. CASE wTurn'.old = <<>>
  <2>1. Range(<<>>) = {}
    BY DEF Range
  <2>2. Queue!Users(wTurn.old)' = {}
    BY <1>2, <2>1, UsersAre DEF Queue!Users, Queue!Range
  <2> QED  BY <1>1, <1>2, <2>2 DEF Remembered, OnceEach, InOrder, Precede
<1>3. CASE wTurn'.old = wTurn.old
  <2>1. Queue!Users(wTurn.old)' = Queue!Users(wTurn.old)
    BY <1>3 DEF Queue!Users
  <2>2. /\ Queue!Users(wTurn.old) \subseteq DOMAIN wEntries /\ 0 \notin DOMAIN wEntries
        /\ Queue!Users(wTurn.old) = Range(wTurn.old) \ {0} /\ Range(wItems) \subseteq DOMAIN wEntries
    BY UsersAre, QueueFacts DEF QueueInv, Places, Remembered, Recorded
  <2>3. 0 \notin DOMAIN wEntries' /\ QueuedOnes' \subseteq DOMAIN wEntries'
    <3>1. DOMAIN wEntries' = 1..Len(wEntries') /\ Len(wEntries') \in Nat
      BY LenProperties
    <3> QED  BY <3>1 DEF QueuedOnes
  <2>4. Range(wTurn.old) \cap (Messages' \cap QueuedOnes') \subseteq Messages \cap QueuedOnes
    BY <2>2, <2>3 DEF Grown
  <2>5. OnceEach(wTurn.old)' /\ InOrder(wTurn.old, Messages \cap QueuedOnes)'
    <3>1. OnceEach(wTurn.old) /\ InOrder(wTurn.old, Messages \cap QueuedOnes)
      BY DEF QueueInv, Places, Remembered
    <3>2. InOrder(wTurn.old, Messages' \cap QueuedOnes')
      BY <2>4, <3>1, OrderWithin
    <3> QED  BY <1>3, <3>1, <3>2 DEF OnceEach
  <2>6. Precede(Queue!Users(wTurn.old) \cap Messages \cap QueuedOnes, Range(wItems) \cap Messages)'
    <3> SUFFICES ASSUME NEW n \in (Queue!Users(wTurn.old) \cap Messages \cap QueuedOnes)',
                        NEW m \in (Range(wItems) \cap Messages)'
                 PROVE  n < m
      BY DEF Precede
    <3>1. n \in Queue!Users(wTurn.old) \cap Messages \cap QueuedOnes /\ n \in DOMAIN wEntries
      BY <2>1, <2>2 DEF Grown
    <3>2. CASE m \in Range(wItems)
      BY <2>2, <3>1, <3>2 DEF QueueInv, Places, Remembered, Precede, Grown
    <3>3. CASE \A k \in DOMAIN wEntries : k < m
      BY <3>1, <3>3
    <3> QED  BY <3>2, <3>3
  <2> QED  BY <1>1, <2>1, <2>5, <2>6 DEF QueueInv, Places, Remembered
<1> QED  BY <1>2, <1>3

\* What a step of the turn alone does to the places of the entries.
LEMMA PlacesKept ==
  ASSUME QueueInv, LogKept, wTurn' \in QueueTurns, wTurn'.old \in {wTurn.old, <<>>},
         wTurn'.kind = "regenerate" /\ wTurn'.stage \in {"fork", "boot"} =>
           wTurn.kind = "regenerate" /\ wTurn.stage \in {"fork", "boot"} /\ wTurn'.prompt = wTurn.prompt /\ wLog' = wLog,
         wEntries' = wEntries, wItems' = wItems, wRan' = wRan, wElsewhere' = wElsewhere,
         wTurn'.todo \in {wTurn.todo, <<>>},
         Todo("commands")' \subseteq Todo("commands"), Todo("inject")' \subseteq Todo("inject"),
         Booting' \subseteq Booting, Range(wTurn.todo) \subseteq Range(wTurn'.todo) \cup wElsewhere
  PROVE  Places'
<1>1. Messages' = Messages /\ Commands' = Commands /\ QueuedOnes' = QueuedOnes
  BY SameEntries
<1>2. InOrder(wTurn'.todo, Nat)
  <2>1. InOrder(<<>>, Nat)
    BY DEF InOrder
  <2> QED  BY <2>1 DEF QueueInv, Places, Waiting
<1>3. Waiting'
  BY <1>1, <1>2 DEF LogKept, QueueInv, Places, Waiting, Precede
<1>7. Remembered'
  <2>1. wEntries' \in Seq([input : Queue!Input, queued : BOOLEAN]) /\ Grown
    BY SameEntries DEF QueueInv, QueueTypes
  <2> QED  BY <2>1, RememberedKept
<1>4. Recorded'
  <2>1. 0 \notin Messages \cap QueuedOnes
    BY QueueFacts
  <2>2. InOrder(wLog', Messages \cap QueuedOnes)
    BY <2>1 DEF LogKept, QueueInv, Places, Recorded
  <2> QED  BY <1>1, <2>2 DEF LogKept, QueueInv, Places, Recorded, Precede
<1>5. Started'
  BY <1>1 DEF QueueInv, Places, Started, Precede
<1>6. Kept'
  BY DEF QueueInv, Places, Kept
<1> QED  BY <1>3, <1>4, <1>5, <1>6, <1>7 DEF Places

\* Typing.
LEMMA TypeKeeps ==
  ASSUME QueueInv, Queue!Type
  PROVE  QueueInv'
<1>1. /\ wDraft' \in Queue!Input
      /\ wEntries' = wEntries /\ wItems' = wItems /\ wReady' = wReady /\ wCaptured' = wCaptured
      /\ wTurn' = wTurn /\ wExecuting' = wExecuting /\ wLog' = wLog
      /\ wConversation' = wConversation /\ wRan' = wRan /\ wElsewhere' = wElsewhere
      /\ wInterrupted' = wInterrupted /\ wAsked' = wAsked
  BY DEF Queue!Type
<1>2. LogKept
  BY <1>1, SameLog
<1>3. Todo("commands")' = Todo("commands") /\ Todo("inject")' = Todo("inject") /\ Booting' = Booting
  BY <1>1 DEF Todo, Booting
<1>4. QueueTypes' /\ Hands' /\ Taken'
  BY <1>1 DEF QueueInv, QueueTypes, Hands, Taken, Queue!Busy, Queue!Users
<1>5. Places'
  BY <1>1, <1>2, <1>3, <1>4, PlacesKept DEF QueueTypes
<1> QED  BY <1>4, <1>5 DEF QueueInv

\* Escape remembers the head of the queue.
LEMMA EscapeKeeps ==
  ASSUME QueueInv, Queue!Escape
  PROVE  QueueInv'
<1>1. /\ Queue!Busy /\ wTurn.stage \notin {"fork", "rebuild", "reload"} /\ wTurn' = [wTurn EXCEPT !.aborted = TRUE]
      /\ wAsked' = wCaptured'
      /\ wEntries' = wEntries /\ wDraft' = wDraft /\ wItems' = wItems /\ wReady' = wReady
      /\ wExecuting' = wExecuting /\ wLog' = wLog
      /\ wConversation' = wConversation /\ wRan' = wRan /\ wElsewhere' = wElsewhere
      /\ wInterrupted' = wInterrupted
  BY DEF Queue!Escape, Queue!At
<1>2. /\ wTurn' \in QueueTurns /\ wTurn'.kind = wTurn.kind /\ wTurn'.stage = wTurn.stage
      /\ wTurn'.prompt = wTurn.prompt /\ wTurn'.by = wTurn.by /\ wTurn'.todo = wTurn.todo
      /\ wTurn'.aborted /\ wTurn'.old = wTurn.old
  BY <1>1 DEF QueueInv, QueueTypes, QueueTurns
<1>3. LogKept
  BY <1>1, SameLog
<1>4. Todo("commands")' = Todo("commands") /\ Todo("inject")' = Todo("inject") /\ Booting' = Booting
  BY <1>2 DEF Todo, Booting
<1>5. wCaptured' \in Nat
  <2>1. wItems # <<>> => Head(wItems) \in Nat
    BY DEF QueueInv, QueueTypes
  <2> QED  BY <2>1 DEF Queue!Escape
<1>6. QueueTypes' /\ Hands' /\ Taken'
  BY <1>1, <1>2, <1>5 DEF QueueInv, QueueTypes, Hands, Taken, Queue!Busy
<1>7. Places'
  BY <1>1, <1>2, <1>3, <1>4, PlacesKept
<1> QED  BY <1>6, <1>7 DEF QueueInv

\* A command that was awaited settles and may release the queue.
LEMMA SettleKeeps ==
  ASSUME QueueInv, Queue!Settle
  PROVE  QueueInv'
<1>1. /\ wExecuting' \subseteq wExecuting
      /\ wReady' = "turn" => wReady = "turn"
      /\ wEntries' = wEntries /\ wDraft' = wDraft /\ wItems' = wItems /\ wCaptured' = wCaptured
      /\ wTurn' = wTurn /\ wLog' = wLog
      /\ wConversation' = wConversation /\ wRan' = wRan /\ wElsewhere' = wElsewhere
      /\ wInterrupted' = wInterrupted /\ wAsked' = wAsked
  BY DEF Queue!Settle
<1>2. LogKept
  BY <1>1, SameLog
<1>3. Todo("commands")' = Todo("commands") /\ Todo("inject")' = Todo("inject") /\ Booting' = Booting
  BY <1>1 DEF Todo, Booting
<1>4. QueueTypes' /\ Hands' /\ Taken'
  <2>1. wReady' \in {"no", "turn", "command"}
    BY DEF QueueInv, QueueTypes, Queue!Settle
  <2> QED  BY <1>1, <2>1 DEF QueueInv, QueueTypes, Hands, Taken, Queue!Busy, Queue!Users
<1>5. Places'
  BY <1>1, <1>2, <1>3, <1>4, PlacesKept DEF QueueTypes
<1> QED  BY <1>4, <1>5 DEF QueueInv

\* An idle host holds nothing.
LEMMA IdleHolds ==
  ASSUME QueueInv, ~Queue!Busy
  PROVE  wTurn.kind = "none" /\ wTurn.stage = "none" /\ wTurn.todo = <<>>
         /\ Range(wTurn.todo) = {} /\ Todo("commands") = {} /\ Todo("inject") = {} /\ Booting = {}
<1>1. wTurn.kind = "none" /\ wTurn.stage = "none" /\ wTurn.todo = <<>>
  BY DEF QueueInv, Hands, Queue!Busy
<1> QED  BY <1>1 DEF Todo, Booting, Range

\* Nothing is in the hands of a turn that ends.
LEMMA EndHolds ==
  ASSUME QueueInv, wTurn'.todo = <<>>, wTurn'.stage \notin {"boot", "inject", "commands"}
  PROVE  Range(wTurn'.todo) = {} /\ Todo("commands")' = {} /\ Todo("inject")' = {} /\ Booting' = {}
BY DEF Todo, Booting, Range

\* A background result or a retried resolution takes the host.
LEMMA DeliverKeeps ==
  ASSUME QueueInv, Queue!Deliver
  PROVE  QueueInv'
<1>1. /\ ~Queue!Busy /\ wReady' = "no" /\ wCaptured' = 0
      /\ wEntries' = wEntries /\ wDraft' = wDraft /\ wItems' = wItems
      /\ wExecuting' = wExecuting /\ wLog' = wLog
      /\ wConversation' = wConversation /\ wRan' = wRan /\ wElsewhere' = wElsewhere
  BY DEF Queue!Deliver, Queue!Block
<1>2. /\ wTurn' \in QueueTurns /\ wTurn'.kind = "delivery" /\ wTurn'.stage = "provider"
      /\ wTurn'.prompt = 0 /\ wTurn'.by = 0 /\ wTurn'.todo = <<>> /\ ~wTurn'.aborted /\ wTurn'.old = <<>>
  <2>1. wTurn' = [Queue!NoTurn EXCEPT !.kind = "delivery", !.stage = "provider", !.seen = wConversation]
    BY DEF Queue!Deliver
  <2>2. wConversation \in SUBSET Nat /\ <<>> \in Seq(Nat)
    BY DEF QueueInv, QueueTypes
  <2> QED  BY <2>1, <2>2 DEF QueueTurns, Queue!NoTurn
<1>3. LogKept
  BY <1>1, SameLog
<1>4. QueueTypes' /\ Hands'
  BY <1>1, <1>2 DEF QueueInv, QueueTypes, Hands
<1>5. Taken'
  BY <1>1, <1>2 DEF Taken
<1>6. Places'
  BY <1>1, <1>2, <1>3, IdleHolds, EndHolds, PlacesKept
<1> QED  BY <1>4, <1>5, <1>6 DEF QueueInv

\* The user decides on a panel.
LEMMA DecideKeeps ==
  ASSUME QueueInv, Queue!Decide
  PROVE  QueueInv'
<1>1. /\ ~Queue!Busy /\ wReady' = "no"
      /\ wEntries' = wEntries /\ wDraft' = wDraft /\ wItems' = wItems
      /\ wExecuting' = wExecuting /\ wLog' = wLog /\ wCaptured' = wCaptured
      /\ wConversation' = wConversation /\ wRan' = wRan /\ wElsewhere' = wElsewhere
  BY DEF Queue!Decide, Queue!Block
<1>2. /\ wTurn' \in QueueTurns /\ wTurn'.kind = "resolution" /\ wTurn'.stage = "boot"
      /\ wTurn'.prompt = 0 /\ wTurn'.by = 0 /\ wTurn'.todo = <<>> /\ ~wTurn'.aborted /\ wTurn'.old = <<>>
  <2>1. wTurn' = [Queue!NoTurn EXCEPT !.kind = "resolution", !.stage = "boot", !.seen = wConversation]
    BY DEF Queue!Decide
  <2>2. wConversation \in SUBSET Nat /\ <<>> \in Seq(Nat)
    BY DEF QueueInv, QueueTypes
  <2> QED  BY <2>1, <2>2 DEF QueueTurns, Queue!NoTurn
<1>3. LogKept
  BY <1>1, SameLog
<1>4. QueueTypes' /\ Hands'
  BY <1>1, <1>2 DEF QueueInv, QueueTypes, Hands
<1>5. Taken'
  BY <1>1, <1>2 DEF Taken
<1>6. Todo("commands")' = {} /\ Todo("inject")' = {} /\ Booting' = {}
  BY <1>2 DEF Todo, Booting
<1>7. Places'
  BY <1>1, <1>2, <1>3, <1>6, IdleHolds, PlacesKept
<1> QED  BY <1>4, <1>5, <1>7 DEF QueueInv

-----------------------------------------------------------------------------
(* The ends of a turn.                                                       *)

\* dropFailedTurnInput keeps a beginning of the log.
LEMMA LogDropped ==
  ASSUME QueueInv, wLog' = Queue!Dropped
  PROVE  LogKept
<1> DEFINE answers == {i \in DOMAIN wLog : wLog[i] = 0}
<1>1. wLog \in Seq(Nat) /\ DOMAIN wLog = 1..Len(wLog) /\ Len(wLog) \in Nat
  <2>1. wLog \in Seq(Nat)
    BY QueueFacts
  <2> QED  BY <2>1
<1>2. Queue!Max(answers) = Max(answers)
  BY DEF Queue!Max, Max
<1>3. wLog' = SubSeq(wLog, 1, IF answers = {} THEN 0 ELSE Max(answers))
  BY <1>2 DEF Queue!Dropped
<1>4. (IF answers = {} THEN 0 ELSE Max(answers)) \in 0..Len(wLog)
  <2>1. CASE answers = {}
    BY <1>1, <2>1
  <2>2. CASE answers # {}
    <3>1. answers \subseteq 1..Len(wLog)
      BY <1>1
    <3> HIDE DEF answers
    <3>2. Max(answers) \in answers
      BY <1>1, <2>2, <3>1, LastIndex
    <3>3. Max(answers) \in 1..Len(wLog)
      BY <3>1, <3>2
    <3>4. 1..Len(wLog) \subseteq 0..Len(wLog)
      BY <1>1
    <3> QED  BY <2>2, <3>3, <3>4
  <2> QED  BY <2>1, <2>2
<1> HIDE DEF answers
<1> QED  BY <1>3, <1>4, LogCut

\* So does restoreInterruptedPrompt, which takes the last record back.
LEMMA LogRewound ==
  ASSUME QueueInv, wLog # <<>>, wLog' = Queue!Front(wLog)
  PROVE  LogKept
<1>1. wLog \in Seq(Nat)
  BY QueueFacts
<1>2. Len(wLog) \in Nat \ {0}
  BY <1>1
<1>3. Len(wLog) - 1 \in 0..Len(wLog) /\ wLog' = SubSeq(wLog, 1, Len(wLog) - 1)
  BY <1>2 DEF Queue!Front
<1> QED  BY <1>3, LogCut

\* A turn ends: its commands have run, its messages are in the prompt history.
LEMMA EndKeeps ==
  ASSUME QueueInv, Queue!EndTurn, LogKept, wTurn.stage # "commands",
         wEntries' = wEntries, wItems' = wItems, wRan' = wRan, wElsewhere' = wElsewhere,
         wDraft' \in Queue!Input \cup {Queue!Nothing}, wConversation' \in SUBSET Nat, wCaptured' \in Nat,
         wReady' \in {"no", "turn", "command"}
  PROVE  /\ QueueTypes' /\ Hands' /\ Places'
         /\ ~wTurn'.aborted /\ wTurn'.stage = "none" /\ wTurn'.kind = "none"
<1>1. /\ wTurn' \in QueueTurns /\ wTurn'.kind = "none" /\ wTurn'.stage = "none"
      /\ wTurn'.prompt = 0 /\ wTurn'.by = 0 /\ wTurn'.todo = <<>> /\ ~wTurn'.aborted /\ wTurn'.old = <<>>
  <2>1. wTurn' = Queue!NoTurn
    BY DEF Queue!EndTurn
  <2>2. <<>> \in Seq(Nat)
    OBVIOUS
  <2> QED  BY <2>1, <2>2 DEF QueueTurns, Queue!NoTurn
<1>2. wExecuting' = wExecuting \cup ({wTurn.by} \ {0})
  BY DEF Queue!EndTurn
<1>3. QueueTypes'
  BY <1>1 DEF QueueInv, QueueTypes, LogKept
<1>4. Hands'
  BY <1>1, <1>2 DEF QueueInv, Hands
<1>5. Range(wTurn.todo) \subseteq wElsewhere
  <2>1. CASE wTurn.stage = "inject"
    BY <2>1 DEF QueueInv, Places, Waiting, Todo
  <2>2. CASE wTurn.stage # "inject"
    <3>1. wTurn.todo = <<>>
      BY <2>2 DEF QueueInv, Hands
    <3> QED  BY <3>1 DEF Range
  <2> QED  BY <2>1, <2>2
<1>6. Todo("commands")' = {} /\ Todo("inject")' = {} /\ Booting' = {}
  BY <1>1 DEF Todo, Booting
<1>7. Places'
  BY <1>1, <1>5, <1>6, PlacesKept
<1> QED  BY <1>1, <1>3, <1>4, <1>7

\* A turn completes and releases the queue.
LEMMA CompleteKeeps ==
  ASSUME QueueInv, Queue!Complete
  PROVE  QueueInv'
<1>1. /\ Queue!EndTurn /\ wTurn.stage = "provider" /\ wLog' = Queue!Answered /\ wConversation' = wTurn.seen
      /\ wInterrupted' = "no"
      /\ wEntries' = wEntries /\ wDraft' = wDraft /\ wItems' = wItems /\ wRan' = wRan
      /\ wElsewhere' = wElsewhere
      /\ wCaptured' = wCaptured /\ wReady' \in {"no", "turn", "command"}
  BY DEF Queue!Complete, Queue!At, Queue!NotInterrupted
<1>2. LogKept
  BY <1>1, LogAnswered
<1>3. wDraft' \in Queue!Input \cup {Queue!Nothing} /\ wConversation' \in SUBSET Nat /\ wCaptured' \in Nat
  BY <1>1 DEF QueueInv, QueueTypes, QueueTurns
<1>4. /\ QueueTypes' /\ Hands' /\ Places'
      /\ ~wTurn'.aborted /\ wTurn'.stage = "none" /\ wTurn'.kind = "none"
  BY <1>1, <1>2, <1>3, EndKeeps
<1>5. Taken'
  BY <1>1, <1>4 DEF Taken
<1> QED  BY <1>4, <1>5 DEF QueueInv

\* Records are numbered.
LEMMA UsersCount ==
  ASSUME QueueInv
  PROVE  Queue!Users(wLog) \in SUBSET Nat
BY QueueFacts

\* A command that held the host ends.
LEMMA FinishWorkKeeps ==
  ASSUME QueueInv, Queue!FinishWork
  PROVE  QueueInv'
<1>1. /\ Queue!EndTurn /\ wTurn.kind = "work"
      /\ \/ wDraft' = wDraft /\ wLog' = wLog /\ wConversation' = wConversation
         \/ wDraft' = Queue!Nothing /\ wLog' = Queue!Answered /\ wConversation' = Queue!Users(wLog)
      /\ wEntries' = wEntries /\ wItems' = wItems /\ wRan' = wRan /\ wElsewhere' = wElsewhere
      /\ wReady' = wReady /\ wInterrupted' = wInterrupted /\ wCaptured' = wCaptured
  BY DEF Queue!FinishWork
<1>2. LogKept
  BY <1>1, SameLog, LogAnswered
<1>3. wDraft' \in Queue!Input \cup {Queue!Nothing} /\ wConversation' \in SUBSET Nat /\ wCaptured' \in Nat
      /\ wTurn.stage # "commands"
  BY <1>1, UsersCount DEF QueueInv, QueueTypes, Hands
<1>4. /\ QueueTypes' /\ Hands' /\ Places'
      /\ ~wTurn'.aborted /\ wTurn'.stage = "none" /\ wTurn'.kind = "none"
  <2>1. wReady' \in {"no", "turn", "command"}
    BY <1>1 DEF QueueInv, QueueTypes
  <2> QED  BY <1>1, <1>2, <1>3, <2>1, EndKeeps
<1>5. Taken'
  BY <1>1, <1>4 DEF QueueInv, Taken, Queue!Busy
<1> QED  BY <1>4, <1>5 DEF QueueInv

\* A prompt that is put back into the composer is in the prompt history.
LEMMA RestoredElsewhere ==
  ASSUME QueueInv, wTurn.kind = "prompt"
  PROVE  wElsewhere \cup {wTurn.prompt} = wElsewhere
BY DEF QueueInv, Hands

\* A turn fails and its prompt may return to the composer.
LEMMA FailKeeps ==
  ASSUME QueueInv, Queue!Fail
  PROVE  QueueInv'
<1>1. /\ Queue!EndTurn /\ wTurn.stage \in {"boot", "provider", "inject"} /\ wInterrupted' = "no" /\ wReady' = "no"
      /\ wEntries' = wEntries /\ wItems' = wItems /\ wRan' = wRan /\ wCaptured' = wCaptured
  BY DEF Queue!Fail, Queue!At, Queue!NotInterrupted, Queue!Block
<1>2. wElsewhere' = wElsewhere /\ wDraft' \in Queue!Input \cup {Queue!Nothing}
  BY RestoredElsewhere DEF Queue!Fail, QueueInv, QueueTypes, Queue!Input
<1>0. wCaptured' \in Nat
  BY <1>1 DEF QueueInv, QueueTypes
<1>3. LogKept /\ wConversation' \in SUBSET Nat
  <2>1. CASE wTurn.kind = "resolution"
    <3>1. wLog' = wLog /\ (wConversation' = wConversation \/ wConversation' = Queue!Users(wLog))
      BY <2>1 DEF Queue!Fail, Queue!PanelReturns
    <3> QED  BY <3>1, SameLog, UsersCount DEF QueueInv, QueueTypes
  <2>2. CASE wTurn.kind # "resolution"
    <3>1. wLog' \in {wLog, Queue!Dropped} /\ wConversation' \in {wConversation, Queue!Users(wLog')}
      BY <2>2 DEF Queue!Fail
    <3>2. LogKept
      BY <3>1, SameLog, LogDropped
    <3>3. Queue!Users(wLog') = Queue!Users(wLog)'
      OBVIOUS
    <3> QED  BY <3>1, <3>2, <3>3, UsersCount DEF LogKept, QueueInv, QueueTypes
  <2> QED  BY <2>1, <2>2
<1>4. /\ QueueTypes' /\ Hands' /\ Places'
      /\ ~wTurn'.aborted /\ wTurn'.stage = "none" /\ wTurn'.kind = "none"
  BY <1>0, <1>1, <1>2, <1>3, EndKeeps
<1>5. Taken'
  BY <1>1, <1>4 DEF Taken
<1> QED  BY <1>4, <1>5 DEF QueueInv

\* No queued head takes over.
LEMMA NoTakeoverKeeps ==
  ASSUME QueueInv, NEW messages \in SUBSET Nat, Queue!NoTakeover(messages),
         wTurn.stage \notin {"none", "commands"}, wTurn.kind \notin {"regenerate", "work"},
         wEntries' = wEntries, wItems' = wItems, wRan' = wRan, wReady' \in {wReady, "no"},
         wCaptured' \in Nat
  PROVE  QueueInv'
<1>1. Queue!EndTurn
  BY DEF Queue!NoTakeover
<1>2. wElsewhere' = wElsewhere /\ wDraft' \in Queue!Input \cup {Queue!Nothing}
  BY RestoredElsewhere DEF Queue!NoTakeover, QueueInv, QueueTypes, Queue!Input
<1>3. LogKept /\ wConversation' \in SUBSET Nat
  <2>1. CASE wLog # <<>> /\ wLog' = Queue!Front(wLog) /\ wConversation' = Queue!Users(wLog')
    <3>1. LogKept
      BY <2>1, LogRewound
    <3>2. Queue!Users(wLog') = Queue!Users(wLog)'
      OBVIOUS
    <3> QED  BY <2>1, <3>1, <3>2, UsersCount DEF LogKept
  <2>2. CASE wLog' = wLog /\ wConversation' \in {messages, Queue!Users(wLog)}
    BY <2>2, SameLog, UsersCount
  <2> QED  BY <2>1, <2>2 DEF Queue!NoTakeover, Queue!PanelReturns
<1>4. /\ QueueTypes' /\ Hands' /\ Places'
      /\ ~wTurn'.aborted /\ wTurn'.stage = "none" /\ wTurn'.kind = "none"
  <2>1. wReady' \in {"no", "turn", "command"}
    BY DEF QueueInv, QueueTypes
  <2> QED  BY <1>1, <1>2, <1>3, <2>1, EndKeeps
<1>5. wReady # "turn"
  BY DEF QueueInv, Taken, Hands
<1>6. Taken'
  BY <1>4, <1>5 DEF Taken
<1> QED  BY <1>4, <1>6 DEF QueueInv

\* An interrupted turn lets the queue take over, or gives its prompt back.
LEMMA InterruptKeeps ==
  ASSUME QueueInv, Queue!Interrupt
  PROVE  QueueInv'
<1>1. /\ wTurn.aborted /\ wTurn.stage \in {"boot", "provider", "inject"} /\ wTurn.kind \notin {"regenerate", "work"}
      /\ wEntries' = wEntries /\ wItems' = wItems /\ wRan' = wRan /\ wReady' = wReady /\ wAsked' = wAsked
      /\ wCaptured' = 0
  BY DEF Queue!Interrupt, Queue!At
<1>2. CASE Queue!NoTakeover(wConversation)
  <2>1. wConversation \in SUBSET Nat
    BY DEF QueueInv, QueueTypes
  <2> QED  BY <1>1, <1>2, <2>1, NoTakeoverKeeps
<1>3. CASE /\ wTurn' = [wTurn EXCEPT !.stage = "rebuild", !.todo = <<>>, !.head = wCaptured]
           /\ wDraft' = wDraft /\ wExecuting' = wExecuting /\ wLog' = wLog /\ wConversation' = wConversation
           /\ wElsewhere' = wElsewhere /\ wInterrupted' = wInterrupted /\ wCaptured # 0
  <2>1. wCaptured = wAsked
    BY <1>1 DEF QueueInv, Taken
  <2>2. wCaptured \in Nat
    BY DEF QueueInv, QueueTypes
  <2>3. /\ wTurn' \in QueueTurns /\ wTurn'.kind = wTurn.kind /\ wTurn'.stage = "rebuild"
        /\ wTurn'.prompt = wTurn.prompt /\ wTurn'.by = wTurn.by /\ wTurn'.todo = <<>>
        /\ wTurn'.head = wCaptured /\ wTurn'.old = wTurn.old
    <3>1. wTurn \in QueueTurns /\ <<>> \in Seq(Nat)
      BY DEF QueueInv, QueueTypes
    <3> QED  BY <1>3, <2>2, <3>1 DEF QueueTurns
  <2>4. LogKept
    BY <1>3, SameLog
  <2>5. Range(wTurn.todo) \subseteq wElsewhere
    <3>1. CASE wTurn.stage = "inject"
      BY <3>1 DEF QueueInv, Places, Waiting, Todo
    <3>2. CASE wTurn.stage # "inject"
      <4>1. wTurn.todo = <<>>
        BY <1>1, <3>2 DEF QueueInv, Hands
      <4> QED  BY <4>1 DEF Range
    <3> QED  BY <3>1, <3>2
  <2>6. Todo("commands")' = {} /\ Todo("inject")' = {} /\ Booting' = {}
    BY <2>3 DEF Todo, Booting
  <2>7. Places'
    BY <1>1, <1>3, <2>3, <2>4, <2>5, <2>6, PlacesKept
  <2>8. QueueTypes'
    BY <1>1, <1>3, <2>3 DEF QueueInv, QueueTypes
  <2>9. Hands'
    BY <1>1, <1>3, <2>3 DEF QueueInv, Hands
  <2>10. Taken'
    BY <1>1, <1>3, <2>1, <2>3 DEF QueueInv, Taken, Hands, Queue!Busy
  <2> QED  BY <2>7, <2>8, <2>9, <2>10 DEF QueueInv
<1> QED  BY <1>2, <1>3 DEF Queue!Interrupt

\* The conversation is rebuilt from the session before the queue's head is
\* sent.
LEMMA RebuildKeeps ==
  ASSUME QueueInv, Queue!Rebuild
  PROVE  QueueInv'
<1>1. /\ wTurn.stage = "rebuild" /\ wTurn.kind \notin {"regenerate", "work"}
      /\ wEntries' = wEntries /\ wItems' = wItems /\ wRan' = wRan /\ wAsked' = wAsked
      /\ wCaptured' = wCaptured /\ wCaptured \in Nat
  BY DEF Queue!Rebuild, Queue!At, QueueInv, QueueTypes, Hands
<1>2. CASE Queue!StillLeads /\ Queue!EndTurn /\ wReady' = "turn" /\ wConversation' = Queue!Users(wLog)
           /\ wDraft' = wDraft /\ wLog' = wLog /\ wElsewhere' = wElsewhere
  <2>1. LogKept
    BY <1>2, SameLog
  <2>2. wDraft' \in Queue!Input \cup {Queue!Nothing} /\ wConversation' \in SUBSET Nat
    BY <1>2, UsersCount DEF QueueInv, QueueTypes
  <2>3. /\ QueueTypes' /\ Hands' /\ Places'
        /\ ~wTurn'.aborted /\ wTurn'.stage = "none" /\ wTurn'.kind = "none"
    BY <1>1, <1>2, <2>1, <2>2, EndKeeps
  <2>4. wItems # <<>> /\ Head(wItems) = wAsked
    BY <1>1, <1>2 DEF Queue!StillLeads, QueueInv, Taken
  <2>5. Queue!Users(wLog)' = Queue!Users(wLog)
    BY <1>2 DEF Queue!Users
  <2>6. Taken'
    BY <1>1, <1>2, <2>3, <2>4, <2>5 DEF Taken, Queue!Busy
  <2> QED  BY <2>3, <2>6 DEF QueueInv
<1>3. CASE (Queue!NoTakeover(wConversation) \/ Queue!NoTakeover(Queue!Users(wLog)))
/\ wReady' \in {wReady, "no"}
  <2>1. wConversation \in SUBSET Nat /\ Queue!Users(wLog) \in SUBSET Nat
    BY UsersCount DEF QueueInv, QueueTypes
  <2> QED  BY <1>1, <1>3, <2>1, NoTakeoverKeeps
<1> QED  BY <1>2, <1>3 DEF Queue!Rebuild, Queue!Block

-----------------------------------------------------------------------------
(* The composer.                                                             *)

\* What is known of an entry by its kind.
LEMMA EntryKind ==
  ASSUME wEntries \in Seq([input : Queue!Input, queued : BOOLEAN]), NEW n \in DOMAIN wEntries
  PROVE  /\ wEntries[n].input \in Queue!Input /\ wEntries[n].queued \in BOOLEAN
         /\ n \in Messages <=> wEntries[n].input = "message"
         /\ n \in Commands <=> wEntries[n].input \in Queue!Command
<1>1. wEntries \in [1..Len(wEntries) -> [input : Queue!Input, queued : BOOLEAN]]
  BY LenProperties
<1>2. wEntries[n].input \in Queue!Input /\ wEntries[n].queued \in BOOLEAN
  BY <1>1
<1> QED  BY <1>2 DEF Messages, Commands, Queue!Is

\* What Enter adds.
LEMMA Enlarged ==
  ASSUME QueueInv, NEW queued \in BOOLEAN, Queue!Enter(queued), NEW e, e = Queue!Entered
  PROVE  /\ wEntries' \in Seq([input : Queue!Input, queued : BOOLEAN]) /\ wDraft' = Queue!Nothing
         /\ e \in Nat \ {0} /\ e \notin DOMAIN wEntries /\ \A n \in DOMAIN wEntries : n < e
         /\ DOMAIN wEntries' = DOMAIN wEntries \cup {e}
         /\ Messages' = Messages \cup (IF wDraft = "message" THEN {e} ELSE {})
         /\ Commands' = Commands \cup (IF wDraft \in Queue!Command THEN {e} ELSE {})
         /\ QueuedOnes' = QueuedOnes \cup (IF queued THEN {e} ELSE {})
         /\ Range(wItems) \subseteq DOMAIN wEntries /\ Range(wRan) \subseteq DOMAIN wEntries
         /\ Queue!Users(wLog) \subseteq DOMAIN wEntries /\ wElsewhere \subseteq DOMAIN wEntries
<1>1. QueueTypes
  BY DEF QueueInv
<1>2. /\ wEntries' \in Seq([input : Queue!Input, queued : BOOLEAN]) /\ wDraft' = Queue!Nothing
      /\ DOMAIN wEntries' = DOMAIN wEntries \cup {e} /\ e \in Nat \ {0}
      /\ e \notin DOMAIN wEntries
      /\ \A n \in DOMAIN wEntries : n < e
      /\ Grown
      /\ e \in Messages' <=> wDraft = "message"
      /\ e \in Commands' <=> wDraft \in Queue!Command
      /\ e \in QueuedOnes' <=> queued
  BY <1>1, Enters
<1>3. /\ Messages \subseteq DOMAIN wEntries /\ Commands \subseteq DOMAIN wEntries
      /\ QueuedOnes \subseteq DOMAIN wEntries /\ Messages' \subseteq DOMAIN wEntries'
      /\ Commands' \subseteq DOMAIN wEntries' /\ QueuedOnes' \subseteq DOMAIN wEntries'
  BY DEF Messages, Commands, QueuedOnes, Queue!Is
<1>4. /\ Range(wItems) \subseteq DOMAIN wEntries /\ Range(wRan) \subseteq DOMAIN wEntries
      /\ Queue!Users(wLog) \subseteq DOMAIN wEntries /\ wElsewhere \subseteq DOMAIN wEntries
  BY QueueFacts
<1> QED  BY <1>2, <1>3, <1>4 DEF Grown

\* Enter while the host is busy: the latest entry waits at the end.
LEMMA EnqueueInputKeeps ==
  ASSUME QueueInv, Queue!EnqueueInput
  PROVE  QueueInv'
<1> DEFINE e == Queue!Entered
<1>1. /\ Queue!Busy /\ Queue!Enter(TRUE) /\ wItems' = Append(wItems, e)
      /\ wReady' = wReady /\ wCaptured' = wCaptured /\ wTurn' = wTurn /\ wExecuting' = wExecuting
      /\ wLog' = wLog /\ wConversation' = wConversation /\ wRan' = wRan /\ wElsewhere' = wElsewhere
      /\ wInterrupted' = wInterrupted /\ wAsked' = wAsked
  BY DEF Queue!EnqueueInput
<1>2. /\ wEntries' \in Seq([input : Queue!Input, queued : BOOLEAN]) /\ wDraft' = Queue!Nothing
      /\ e \in Nat \ {0} /\ e \notin DOMAIN wEntries /\ \A n \in DOMAIN wEntries : n < e
      /\ DOMAIN wEntries' = DOMAIN wEntries \cup {e}
      /\ Messages' \subseteq Messages \cup {e} /\ Messages \subseteq Messages'
      /\ Commands' \subseteq Commands \cup {e} /\ Commands \subseteq Commands'
      /\ QueuedOnes' = QueuedOnes \cup {e}
      /\ Range(wItems) \subseteq DOMAIN wEntries /\ Range(wRan) \subseteq DOMAIN wEntries
      /\ Queue!Users(wLog) \subseteq DOMAIN wEntries /\ wElsewhere \subseteq DOMAIN wEntries
  BY <1>1, Enlarged
<1> HIDE DEF e
<1>3. wItems' \in Seq(Nat) /\ Range(wItems') = Range(wItems) \cup {e}
  <2>1. wItems \in Seq(Nat)
    BY QueueFacts
  <2> QED  BY <1>1, <1>2, <2>1, AppendRange
<1>4. InOrder(wItems', Messages') /\ InOrder(wItems', Commands')
  <2>1. wItems \in Seq(Nat) /\ InOrder(wItems, Messages) /\ InOrder(wItems, Commands)
    BY QueueFacts DEF QueueInv, Places, Waiting
  <2>2. InOrder(wItems, Messages') /\ InOrder(wItems, Commands')
    BY <1>2, <2>1, OrderWithin
  <2>3. \A m \in Range(wItems) : m < e
    BY <1>2
  <2> QED  BY <1>1, <1>2, <2>1, <2>2, <2>3, AppendOrder
<1>5. Todo("commands")' = Todo("commands") /\ Todo("inject")' = Todo("inject") /\ Booting' = Booting
      /\ Queue!Users(wLog)' = Queue!Users(wLog)
  BY <1>1 DEF Todo, Booting, Queue!Users
<1>6. Todo("commands") \subseteq DOMAIN wEntries /\ Todo("inject") \subseteq DOMAIN wEntries
      /\ Booting \subseteq DOMAIN wEntries
  BY QueueFacts DEF QueueInv, Places, Waiting, Hands, Booting
<1>7. Waiting'
  BY <1>1, <1>2, <1>3, <1>4, <1>5, <1>6 DEF QueueInv, Places, Waiting, Precede
<1>8. Recorded'
  <2>1. InOrder(wLog, (Messages \cap QueuedOnes)')
    <3>1. InOrder(wLog, Messages \cap QueuedOnes)
    /\ Range(wLog) \cap (Messages \cap QueuedOnes)' \subseteq Messages \cap QueuedOnes
      <4>1. Range(wLog) \subseteq DOMAIN wEntries \cup {0}
        BY <1>2, UsersAre
      <4> QED  BY <1>2, <4>1 DEF QueueInv, Places, Recorded
    <3> QED  BY <3>1, OrderWithin
  <2>2. InOrder(wLog, (Messages \cap QueuedOnes))'
    BY <1>1, <2>1
  <2> QED  BY <1>1, <1>2, <1>3, <1>5, <1>6, <2>2 DEF QueueInv, Places, Recorded, Precede
<1>9. Started'
  <2>1. InOrder(wRan, QueuedOnes')
    <3>1. InOrder(wRan, QueuedOnes) /\ Range(wRan) \cap QueuedOnes' \subseteq QueuedOnes
      BY <1>2 DEF QueueInv, Places, Started
    <3> QED  BY <3>1, OrderWithin
  <2>2. InOrder(wRan, QueuedOnes)'
    BY <1>1, <2>1
  <2> QED  BY <1>1, <1>2, <1>3, <1>5, <1>6, <2>2 DEF QueueInv, Places, Started, Precede
<1>10. Kept'
  BY <1>1, <1>2, <1>3 DEF QueueInv, Places, Kept
<1>11. QueueTypes' /\ Hands' /\ Taken'
  BY <1>1, <1>2, <1>3 DEF QueueInv, QueueTypes, Hands, Taken, Queue!Busy
<1>12. Remembered'
  <2>1. Grown
    BY <1>1, Enters DEF QueueInv
  <2> QED  BY <1>1, <1>2, <1>3, <2>1, RememberedKept
<1> QED  BY <1>7, <1>8, <1>9, <1>10, <1>11, <1>12 DEF QueueInv, Places

\* Up takes the last entry back into the composer.
LEMMA RecallKeeps ==
  ASSUME QueueInv, Queue!Recall
  PROVE  QueueInv'
<1> DEFINE last == Queue!Last(wItems)
<1>1. /\ Queue!Busy /\ wItems # <<>> /\ wItems' = Queue!Front(wItems)
      /\ wDraft' = wEntries[last].input /\ wElsewhere' = wElsewhere \cup {last}
      /\ wEntries' = wEntries
      /\ wReady' = wReady /\ wCaptured' = wCaptured /\ wTurn' = wTurn /\ wExecuting' = wExecuting
      /\ wLog' = wLog /\ wConversation' = wConversation /\ wRan' = wRan
      /\ wInterrupted' = wInterrupted /\ wAsked' = wAsked
  BY DEF Queue!Recall
<1>2. wItems \in Seq(Nat) /\ InOrder(wItems, Messages) /\ InOrder(wItems, Commands) /\ IsInjective(wItems)
      /\ wEntries \in Seq([input : Queue!Input, queued : BOOLEAN])
  BY QueueFacts DEF QueueInv, Places, Waiting, QueueTypes
<1>3. /\ wItems' \in Seq(Nat) /\ InOrder(wItems', Messages) /\ InOrder(wItems', Commands)
      /\ Range(wItems) = Range(wItems') \cup {last} /\ last \notin Range(wItems')
  <2>1. wItems' = SubSeq(wItems, 1, Len(wItems) - 1) /\ last = wItems[Len(wItems)]
    BY <1>1 DEF Queue!Front, Queue!Last
  <2> HIDE DEF last
  <2> QED  BY <1>1, <1>2, <2>1, FrontOrder
<1> HIDE DEF last
<1>4. Messages' = Messages /\ Commands' = Commands /\ QueuedOnes' = QueuedOnes
  BY <1>1, SameEntries
<1>5. Todo("commands")' = Todo("commands") /\ Todo("inject")' = Todo("inject") /\ Booting' = Booting
      /\ Queue!Users(wLog)' = Queue!Users(wLog)
  BY <1>1 DEF Todo, Booting, Queue!Users
<1>6. last \in DOMAIN wEntries /\ wDraft' \in Queue!Input
  <2>1. last \in DOMAIN wEntries
    BY <1>3, QueueFacts
  <2> QED  BY <1>1, <1>2, <2>1, EntryKind
<1>7. Waiting'
  BY <1>1, <1>3, <1>4, <1>5 DEF QueueInv, Places, Waiting, Precede
<1>8. Recorded'
  BY <1>1, <1>3, <1>4, <1>5, <1>6 DEF QueueInv, Places, Recorded, Precede
<1>9. Started'
  BY <1>1, <1>3, <1>4, <1>5 DEF QueueInv, Places, Started, Precede
<1>10. Kept'
  BY <1>1, <1>3 DEF QueueInv, Places, Kept
<1>11. QueueTypes' /\ Hands' /\ Taken'
  BY <1>1, <1>2, <1>3, <1>6 DEF QueueInv, QueueTypes, Hands, Taken, Queue!Busy
<1>12. Remembered'
  BY <1>1, <1>2, <1>3, SameEntries, RememberedKept
<1> QED  BY <1>7, <1>8, <1>9, <1>10, <1>11, <1>12 DEF QueueInv, Places

-----------------------------------------------------------------------------
(* Prompts.                                                                  *)

\* A prompt takes the host.
LEMMA Begins ==
  ASSUME QueueInv, NEW n \in Nat, NEW by \in Nat, Queue!Begin(n, by)
  PROVE  /\ wTurn' \in QueueTurns /\ wTurn'.old = <<>> /\ wTurn'.kind = "prompt" /\ wTurn'.stage = "boot"
         /\ wTurn'.prompt = n /\ wTurn'.by = by /\ wTurn'.todo = <<>> /\ ~wTurn'.aborted /\ Remembered'
         /\ wReady' = "no" /\ wCaptured' = 0 /\ wElsewhere' = wElsewhere \cup {n}
         /\ Todo("commands")' = {} /\ Todo("inject")' = {} /\ Booting' = {n}
<1>1. wTurn' = [Queue!NoTurn EXCEPT !.kind = "prompt", !.stage = "boot", !.prompt = n, !.by = by,
                                    !.seen = wConversation \cup {n}]
  BY DEF Queue!Begin
<1>2. wConversation \cup {n} \in SUBSET Nat /\ <<>> \in Seq(Nat)
  BY DEF QueueInv, QueueTypes
<1>3. /\ wTurn' \in QueueTurns /\ wTurn'.kind = "prompt" /\ wTurn'.stage = "boot"
      /\ wTurn'.prompt = n /\ wTurn'.by = by /\ wTurn'.todo = <<>> /\ ~wTurn'.aborted /\ wTurn'.old = <<>>
  BY <1>1, <1>2 DEF QueueTurns, Queue!NoTurn
<1>4. wReady' = "no" /\ wCaptured' = 0 /\ wElsewhere' = wElsewhere \cup {n}
  BY DEF Queue!Begin, Queue!Block
<1>5. Todo("commands")' = {} /\ Todo("inject")' = {} /\ Booting' = {n}
  BY <1>3 DEF Todo, Booting
<1>6. Remembered'
  BY <1>3, NothingRemembered
<1> QED  BY <1>3, <1>4, <1>5, <1>6

\* Whether it is sent or refused, a prompt is in the prompt history.
LEMMA BeginsOrRefuses ==
  ASSUME QueueInv, NEW n \in Nat \ {0}, ~Queue!Busy, Queue!Begin(n, 0) \/ Queue!Refuse(n)
  PROVE  /\ wTurn' \in QueueTurns /\ wTurn'.todo = <<>> /\ ~wTurn'.aborted
         /\ wTurn'.kind = "none" <=> wTurn'.stage = "none"
         /\ wTurn'.stage \notin {"fork", "inject", "rebuild"} /\ wTurn'.kind \notin {"regenerate", "work"}
         /\ wTurn'.prompt \in wElsewhere' \cup {0} /\ wTurn'.by \in Range(wRan) \cup {0}
         /\ wTurn'.kind = "prompt" => wTurn'.prompt # 0
         /\ wTurn'.old \in {wTurn.old, <<>>}
         /\ wReady' = "no" /\ wCaptured' \in Nat /\ wElsewhere' = wElsewhere \cup {n}
         /\ Todo("commands")' = {} /\ Todo("inject")' = {} /\ Booting' \subseteq {n}
<1>1. CASE Queue!Begin(n, 0)
  <2>1. /\ wTurn' \in QueueTurns /\ wTurn'.kind = "prompt" /\ wTurn'.stage = "boot"
        /\ wTurn'.prompt = n /\ wTurn'.by = 0 /\ wTurn'.todo = <<>> /\ ~wTurn'.aborted /\ wTurn'.old = <<>>
        /\ wReady' = "no" /\ wCaptured' = 0 /\ wElsewhere' = wElsewhere \cup {n}
        /\ Todo("commands")' = {} /\ Todo("inject")' = {} /\ Booting' = {n}
    BY <1>1, Begins
  <2> QED  BY <2>1
<1>2. CASE Queue!Refuse(n)
  <2>1. wTurn' = wTurn /\ wCaptured' = wCaptured /\ wReady' = "no" /\ wElsewhere' = wElsewhere \cup {n}
    BY <1>2 DEF Queue!Refuse, Queue!Block
  <2>2. wTurn.kind = "none" /\ wTurn.stage = "none" /\ wTurn.todo = <<>>
    BY IdleHolds
  <2>3. Todo("commands")' = {} /\ Todo("inject")' = {} /\ Booting' = {}
    BY <2>1, <2>2 DEF Todo, Booting
  <2> QED  BY <2>1, <2>2, <2>3 DEF QueueInv, QueueTypes, Hands
<1> QED  BY <1>1, <1>2

\* Enter on an idle host: a prompt is sent or refused.
LEMMA EnterPromptKeeps ==
  ASSUME QueueInv, Queue!EnterPrompt
  PROVE  QueueInv'
<1> DEFINE e == Queue!Entered
<1>1. /\ ~Queue!Busy /\ wDraft = "message" /\ Queue!Enter(FALSE)
      /\ Queue!Begin(e, 0) \/ Queue!Refuse(e)
      /\ wItems' = wItems /\ wExecuting' = wExecuting
      /\ wLog' = wLog /\ wConversation' = wConversation /\ wRan' = wRan
  BY DEF Queue!EnterPrompt
<1>2. /\ wEntries' \in Seq([input : Queue!Input, queued : BOOLEAN]) /\ wDraft' = Queue!Nothing
      /\ e \in Nat \ {0} /\ e \notin DOMAIN wEntries
      /\ DOMAIN wEntries' = DOMAIN wEntries \cup {e}
      /\ Messages' = Messages \cup {e} /\ Commands' = Commands /\ QueuedOnes' = QueuedOnes
      /\ Range(wItems) \subseteq DOMAIN wEntries /\ Range(wRan) \subseteq DOMAIN wEntries
      /\ Queue!Users(wLog) \subseteq DOMAIN wEntries /\ wElsewhere \subseteq DOMAIN wEntries
  <2>1. "message" \notin Queue!Command
    BY DEF Queue!Command
  <2>2. Messages' = Messages \cup (IF wDraft = "message" THEN {e} ELSE {})
        /\ Commands' = Commands \cup (IF wDraft \in Queue!Command THEN {e} ELSE {})
        /\ QueuedOnes' = QueuedOnes \cup (IF FALSE THEN {e} ELSE {})
    BY <1>1, Enlarged
  <2>3. Messages' = Messages \cup {e} /\ Commands' = Commands /\ QueuedOnes' = QueuedOnes
    BY <1>1, <2>1, <2>2
  <2> QED  BY <1>1, <2>3, Enlarged
<1> HIDE DEF e
<1>3. /\ wTurn' \in QueueTurns /\ wTurn'.todo = <<>> /\ ~wTurn'.aborted
      /\ wTurn'.kind = "none" <=> wTurn'.stage = "none"
      /\ wTurn'.stage \notin {"fork", "inject", "rebuild"} /\ wTurn'.kind \notin {"regenerate", "work"}
      /\ wTurn'.prompt \in wElsewhere' \cup {0} /\ wTurn'.by \in Range(wRan) \cup {0}
      /\ wTurn'.kind = "prompt" => wTurn'.prompt # 0
      /\ wTurn'.old \in {wTurn.old, <<>>}
      /\ wReady' = "no" /\ wCaptured' \in Nat /\ wElsewhere' = wElsewhere \cup {e}
      /\ Todo("commands")' = {} /\ Todo("inject")' = {} /\ Booting' \subseteq {e}
  BY <1>1, <1>2, BeginsOrRefuses
<1>4. /\ Range(wTurn.todo) = {} /\ QueuedOnes \subseteq DOMAIN wEntries
      /\ Queue!Users(wLog)' = Queue!Users(wLog)
  BY <1>1, IdleHolds, QueueFacts DEF Queue!Users
<1>5. InOrder(wTurn'.todo, Nat)
  BY <1>3 DEF InOrder
<1>6. InOrder(wItems, Messages') /\ Messages' \cap QueuedOnes' = Messages \cap QueuedOnes
  <2>1. wItems \in Seq(Nat) /\ InOrder(wItems, Messages) /\ Range(wItems) \cap Messages' \subseteq Messages
    BY <1>2, QueueFacts DEF QueueInv, Places, Waiting
  <2>2. InOrder(wItems, Messages')
    BY <2>1, OrderWithin
  <2> QED  BY <1>2, <1>4, <2>2
<1>7. Waiting'
  BY <1>1, <1>2, <1>3, <1>4, <1>5, <1>6 DEF QueueInv, Places, Waiting, Precede
<1>8. Recorded'
  <2>1. InOrder(wLog, Messages \cap QueuedOnes)'
    BY <1>1, <1>6 DEF QueueInv, Places, Recorded
  <2>2. Booting' \cap QueuedOnes' = {}
    BY <1>2, <1>3, <1>4
  <2> QED  BY <1>1, <1>2, <1>3, <1>4, <1>6, <2>1, <2>2 DEF QueueInv, Places, Recorded, Precede
<1>9. Started'
  BY <1>1, <1>2, <1>3 DEF QueueInv, Places, Started, Precede
<1>10. Kept'
  BY <1>1, <1>2, <1>3, <1>4 DEF QueueInv, Places, Kept
<1>11. QueueTypes' /\ Hands' /\ Taken'
  BY <1>1, <1>2, <1>3 DEF QueueInv, QueueTypes, Hands, Taken
<1>12. Remembered'
  <2>1. Grown
    BY <1>1, Enters DEF QueueInv
  <2> QED  BY <1>1, <1>2, <1>3, <2>1, RememberedKept
<1> QED  BY <1>7, <1>8, <1>9, <1>10, <1>11, <1>12 DEF QueueInv, Places

\* A started /skill command submits its prompt.
LEMMA SubmitSkillPromptKeeps ==
  ASSUME QueueInv, Queue!SubmitSkillPrompt
  PROVE  QueueInv'
<1>1. PICK n \in wExecuting : /\ n \notin wElsewhere /\ Queue!Begin(n, n) /\ wExecuting' = wExecuting \ {n}
  BY DEF Queue!SubmitSkillPrompt
<1>2. /\ ~Queue!Busy
      /\ wEntries' = wEntries /\ wDraft' = wDraft /\ wItems' = wItems
      /\ wLog' = wLog /\ wConversation' = wConversation /\ wRan' = wRan
  BY DEF Queue!SubmitSkillPrompt
<1>3. n \in Range(wRan) /\ n \in Commands /\ n \in DOMAIN wEntries /\ n \in Nat \ {0}
      /\ n \notin Messages
  BY <1>1, QueueFacts DEF QueueInv, Hands, Places, Started
<1>4. /\ wTurn' \in QueueTurns /\ wTurn'.kind = "prompt" /\ wTurn'.stage = "boot"
      /\ wTurn'.prompt = n /\ wTurn'.by = n /\ wTurn'.todo = <<>> /\ ~wTurn'.aborted /\ Remembered'
      /\ wReady' = "no" /\ wCaptured' = 0 /\ wElsewhere' = wElsewhere \cup {n}
      /\ Todo("commands")' = {} /\ Todo("inject")' = {} /\ Booting' = {n}
  BY <1>1, <1>3, Begins
<1>5. Messages' = Messages /\ Commands' = Commands /\ QueuedOnes' = QueuedOnes
  BY <1>2, SameEntries
<1>6. Range(wTurn.todo) = {} /\ Queue!Users(wLog)' = Queue!Users(wLog)
  BY <1>2, IdleHolds DEF Queue!Users
<1>7. InOrder(wTurn'.todo, Nat)
  BY <1>4 DEF InOrder
<1>8. Waiting'
  BY <1>2, <1>3, <1>4, <1>5, <1>7 DEF QueueInv, Places, Waiting, Precede
<1>9. Recorded'
  <2>1. Booting' \cap Messages' = {}
    BY <1>3, <1>4, <1>5
  <2> QED  BY <1>1, <1>2, <1>3, <1>4, <1>5, <1>6, <2>1 DEF QueueInv, Places, Recorded, Precede
<1>10. Started'
  BY <1>2, <1>4, <1>5 DEF QueueInv, Places, Started, Precede
<1>11. Kept'
  BY <1>2, <1>4, <1>6 DEF QueueInv, Places, Kept
<1>12. QueueTypes' /\ Hands' /\ Taken'
  BY <1>1, <1>2, <1>3, <1>4 DEF QueueInv, QueueTypes, Hands, Taken
<1> QED  BY <1>4, <1>8, <1>9, <1>10, <1>11, <1>12 DEF QueueInv, Places

-----------------------------------------------------------------------------
(* Commands, and the drain of the idle host.                                 *)

\* The empty log and the empty queue are in every order.
LEMMA EmptyOrder ==
  ASSUME NEW K
  PROVE  InOrder(<<>>, K) /\ OnceEach(<<>>) /\ Range(<<>>) = {} /\ Queue!Users(<<>>) = {}
<1>1. InOrder(<<>>, K) /\ OnceEach(<<>>) /\ Range(<<>>) = {}
  BY DEF InOrder, OnceEach, Range
<1> QED  BY <1>1, UsersAre

\* What the start of a command does to the host.
LEMMA Starts ==
  ASSUME QueueInv, ~Queue!Busy, NEW n \in Nat \ {0}, NEW input, NEW queue \in Seq(Nat), Queue!Start(n,
  input, queue)
  PROVE  /\ wRan' = Append(wRan, n)
         /\ wTurn' \in QueueTurns /\ wTurn'.todo = <<>> /\ ~wTurn'.aborted /\ wTurn'.old \in {wTurn.old, <<>>}
         /\ \/ wTurn'.kind = "none" /\ wTurn'.stage = "none" /\ wTurn' = wTurn
            \/ wTurn'.kind = "work" /\ wTurn'.stage = "provider" /\ wTurn'.prompt = 0
         /\ wTurn'.by \in Range(wRan) \cup {0, n} /\ wExecuting' \subseteq wExecuting \cup {n}
         /\ Todo("commands")' = {} /\ Todo("inject")' = {} /\ Booting' = {}
         /\ \/ wItems' = queue /\ wElsewhere' = wElsewhere /\ wLog' = wLog /\ wConversation' = wConversation
            \/ /\ wItems' = <<>> /\ wElsewhere' = wElsewhere \cup Range(queue)
               /\ wLog' = <<>> /\ wConversation' = {}
<1>1. /\ wTurn.kind = "none" /\ wTurn.stage = "none" /\ wTurn.todo = <<>> /\ ~wTurn.aborted
      /\ wTurn \in QueueTurns /\ wTurn.by \in Range(wRan) \cup {0}
  BY IdleHolds DEF QueueInv, QueueTypes, Hands
<1>2. /\ wTurn' \in QueueTurns /\ wTurn'.todo = <<>> /\ ~wTurn'.aborted /\ wTurn'.old \in {wTurn.old, <<>>}
      /\ \/ wTurn'.kind = "none" /\ wTurn'.stage = "none" /\ wTurn' = wTurn
         \/ wTurn'.kind = "work" /\ wTurn'.stage = "provider" /\ wTurn'.prompt = 0
      /\ wTurn'.by \in Range(wRan) \cup {0, n}
  <2>1. CASE wTurn' = wTurn
    BY <1>1, <2>1
  <2>2. CASE wTurn' = [Queue!NoTurn EXCEPT !.kind = "work", !.stage = "provider", !.by = n]
    <3>1. <<>> \in Seq(Nat)
      OBVIOUS
    <3> QED  BY <2>2, <3>1 DEF QueueTurns, Queue!NoTurn
  <2> QED  BY <2>1, <2>2 DEF Queue!Start
<1>3. Todo("commands")' = {} /\ Todo("inject")' = {} /\ Booting' = {}
  BY <1>2 DEF Todo, Booting
<1>4. wRan' = Append(wRan, n) /\ wExecuting' \subseteq wExecuting \cup {n}
  BY DEF Queue!Start
<1>5. \/ wItems' = queue /\ wElsewhere' = wElsewhere /\ wLog' = wLog /\ wConversation' = wConversation
      \/ /\ wItems' = <<>> /\ wElsewhere' = wElsewhere \cup Range(queue)
         /\ wLog' = <<>> /\ wConversation' = {}
  BY QueueNames DEF Queue!Start
<1> QED  BY <1>2, <1>3, <1>4, <1>5

\* A command leaves the composer, or the head of the queue.
LEMMA StartPlaces ==
  ASSUME QueueInv, ~Queue!Busy, NEW n \in Nat \ {0}, NEW input, NEW queue \in Seq(Nat), Queue!Start(n,
  input, queue),
         wEntries' \in Seq([input : Queue!Input, queued : BOOLEAN]), Grown,
         DOMAIN wEntries' = DOMAIN wEntries \cup {n}, Messages' = Messages, QueuedOnes' = QueuedOnes,
         Commands' = Commands \cup {n},
         Range(queue) \subseteq Range(wItems), n \notin Range(queue),
         Range(wItems) \subseteq Range(queue) \cup {n},
         InOrder(queue, Messages), InOrder(queue, Commands'),
         n \notin Range(wRan), n \in QueuedOnes => \A m \in Range(wRan) \cap QueuedOnes : m < n,
         n \in QueuedOnes => \A m \in Range(queue) \cap Commands' : n < m
  PROVE  Places'
<1>1. /\ wRan' = Append(wRan, n) /\ wTurn'.todo = <<>>
      /\ wTurn'.kind # "regenerate" /\ wTurn'.old \in {wTurn.old, <<>>}
      /\ Todo("commands")' = {} /\ Todo("inject")' = {} /\ Booting' = {}
      /\ \/ wItems' = queue /\ wElsewhere' = wElsewhere /\ wLog' = wLog
         \/ wItems' = <<>> /\ wElsewhere' = wElsewhere \cup Range(queue) /\ wLog' = <<>>
  BY Starts
<1>2. /\ wRan \in Seq(Nat) /\ Range(wItems) \subseteq DOMAIN wEntries /\ Range(wRan) \subseteq DOMAIN wEntries
      /\ Queue!Users(wLog) \subseteq DOMAIN wEntries /\ wElsewhere \subseteq DOMAIN wEntries
      /\ QueuedOnes \subseteq DOMAIN wEntries
  BY QueueFacts
<1>3. Range(wRan') = Range(wRan) \cup {n} /\ IsInjective(wRan') /\ InOrder(wRan', QueuedOnes)
  <2>1. InOrder(wRan, QueuedOnes) /\ IsInjective(wRan)
    BY DEF QueueInv, Places, Started
  <2> QED  BY <1>1, <1>2, <2>1, AppendRange, AppendOrder
<1>4. InOrder(wTurn'.todo, Nat)
  BY <1>1, EmptyOrder
<1>5. /\ InOrder(wItems', Messages) /\ InOrder(wItems', Commands')
      /\ \/ Range(wItems') = Range(queue) /\ wElsewhere' = wElsewhere
         \/ Range(wItems') = {} /\ wElsewhere' = wElsewhere \cup Range(queue)
  BY <1>1, EmptyOrder
<1>6. InOrder(wLog', Messages \cap QueuedOnes) /\ OnceEach(wLog')
/\ Queue!Users(wLog') \subseteq Queue!Users(wLog)
  BY <1>1, EmptyOrder DEF QueueInv, Places, Recorded
<1>7. Queue!Users(wLog') = Queue!Users(wLog)'
  OBVIOUS
<1>8. Range(wTurn.todo) = {}
  BY IdleHolds
<1>9. Waiting'
  BY <1>1, <1>2, <1>3, <1>4, <1>5 DEF QueueInv, Places, Waiting, Precede
<1>10. Recorded'
  <2>1. InOrder(wLog, Messages \cap QueuedOnes)' /\ OnceEach(wLog)'
    BY <1>6
  <2> QED  BY <1>1, <1>2, <1>5, <1>6, <1>7, <2>1 DEF QueueInv, Places, Recorded, Precede
<1>11. Started'
  <2>1. InOrder(wRan, QueuedOnes)'
    BY <1>3
  <2> QED  BY <1>1, <1>3, <1>5, <2>1 DEF QueueInv, Places, Started, Precede
<1>12. Kept'
  BY <1>3, <1>5, <1>8 DEF QueueInv, Places, Kept
<1>13. Remembered'
  BY <1>1, <1>5, RememberedKept
<1> QED  BY <1>9, <1>10, <1>11, <1>12, <1>13 DEF Places

\* Enter on an idle host: a command starts.
LEMMA EnterCommandKeeps ==
  ASSUME QueueInv, Queue!EnterCommand
  PROVE  QueueInv'
<1> DEFINE e == Queue!Entered
<1>1. /\ ~Queue!Busy /\ ~Queue!DrainDue /\ wDraft \in Queue!Command /\ Queue!Enter(FALSE)
      /\ Queue!Start(e, wDraft, wItems) /\ ~wDecision
      /\ wReady' = wReady /\ wCaptured' = wCaptured /\ wInterrupted' = wInterrupted /\ wAsked' = wAsked
  BY DEF Queue!EnterCommand, Queue!Enter
<1>2. /\ wEntries' \in Seq([input : Queue!Input, queued : BOOLEAN]) /\ wDraft' = Queue!Nothing
      /\ e \in Nat \ {0} /\ e \notin DOMAIN wEntries
      /\ DOMAIN wEntries' = DOMAIN wEntries \cup {e}
      /\ Messages' = Messages /\ Commands' = Commands \cup {e} /\ QueuedOnes' = QueuedOnes
      /\ Range(wItems) \subseteq DOMAIN wEntries /\ Range(wRan) \subseteq DOMAIN wEntries
  <2>1. wDraft # "message"
    BY <1>1 DEF Queue!Command
  <2>2. Messages' = Messages \cup (IF wDraft = "message" THEN {e} ELSE {})
        /\ Commands' = Commands \cup (IF wDraft \in Queue!Command THEN {e} ELSE {})
        /\ QueuedOnes' = QueuedOnes \cup (IF FALSE THEN {e} ELSE {})
    BY <1>1, Enlarged
  <2>3. Messages' = Messages /\ Commands' = Commands \cup {e} /\ QueuedOnes' = QueuedOnes
    BY <1>1, <2>1, <2>2
  <2> QED  BY <1>1, <2>3, Enlarged
<1> HIDE DEF e
<1>3. /\ wRan' = Append(wRan, e)
      /\ wTurn' \in QueueTurns /\ wTurn'.todo = <<>> /\ ~wTurn'.aborted
      /\ \/ wTurn'.kind = "none" /\ wTurn'.stage = "none" /\ wTurn' = wTurn
         \/ wTurn'.kind = "work" /\ wTurn'.stage = "provider" /\ wTurn'.prompt = 0
      /\ wTurn'.by \in Range(wRan) \cup {0, e} /\ wExecuting' \subseteq wExecuting \cup {e}
      /\ \/ wItems' = wItems /\ wElsewhere' = wElsewhere /\ wLog' = wLog /\ wConversation' = wConversation
         \/ /\ wItems' = <<>> /\ wElsewhere' = wElsewhere \cup Range(wItems)
            /\ wLog' = <<>> /\ wConversation' = {}
  <2>1. wItems \in Seq(Nat)
    BY QueueFacts
  <2> QED  BY <1>1, <1>2, <2>1, Starts
<1>4. Places'
  <2>1. e \notin QueuedOnes /\ wItems \in Seq(Nat) /\ InOrder(wItems, Messages)
    BY <1>2, QueueFacts DEF QueueInv, Places, Waiting
  <2>2. InOrder(wItems, Commands')
    <3>1. InOrder(wItems, Commands) /\ Range(wItems) \cap Commands' \subseteq Commands
      BY <1>2 DEF QueueInv, Places, Waiting
    <3> QED  BY <3>1, OrderWithin
  <2>3. e \notin Range(wItems) /\ e \notin Range(wRan) /\ Grown
    BY <1>1, <1>2, Enters DEF QueueInv
  <2> QED  BY <1>1, <1>2, <2>1, <2>2, <2>3, StartPlaces
<1>5. wRan' \in Seq(Nat) /\ Range(wRan') = Range(wRan) \cup {e}
  <2>1. wRan \in Seq(Nat)
    BY QueueFacts
  <2> QED  BY <1>2, <1>3, <2>1, AppendRange
<1>6. wItems' \in Seq(Nat) /\ wLog' \in Seq(Nat)
  <2>1. <<>> \in Seq(Nat)
    OBVIOUS
  <2> QED  BY <1>3, <2>1, QueueFacts
<1>7. QueueTypes'
  BY <1>1, <1>2, <1>3, <1>5, <1>6 DEF QueueInv, QueueTypes
<1>8. Hands'
  BY <1>3, <1>5 DEF QueueInv, Hands
<1>9. Taken'
  <2>1. ~(wInterrupted = "turn" /\ wReady = "turn")
    BY <1>1 DEF QueueInv, Taken, Queue!DrainDue
  <2> QED  BY <1>1, <1>3, <2>1 DEF Taken
<1> QED  BY <1>4, <1>7, <1>8, <1>9 DEF QueueInv

\* The idle host takes the head of the queue.
LEMMA DrainKeeps ==
  ASSUME QueueInv, Queue!Drain
  PROVE  QueueInv'
<1> DEFINE next == Head(wItems)
<1>1. /\ ~Queue!Busy /\ wItems # <<>> /\ wReady' = "no" /\ wInterrupted' = "no" /\ wAsked' = 0
      /\ wEntries' = wEntries /\ wDraft' = wDraft /\ wDecision' = wDecision
      /\ \/ /\ next \in Messages /\ wItems' = Tail(wItems) /\ (Queue!Begin(next, 0) \/ Queue!Refuse(next))
            /\ wExecuting' = wExecuting /\ wLog' = wLog /\ wConversation' = wConversation /\ wRan' = wRan
         \/ /\ next \notin Messages /\ Queue!Start(next, wEntries[next].input, Tail(wItems))
            /\ wCaptured' = wCaptured
  BY DEF Queue!Drain, Queue!DrainDue, Queue!Block, Queue!NotInterrupted, Messages
<1>2. wItems \in Seq(Nat) /\ InOrder(wItems, Messages) /\ InOrder(wItems, Commands) /\ IsInjective(wItems)
  BY QueueFacts DEF QueueInv, Places, Waiting
<1>3. /\ next \in Range(wItems) /\ Tail(wItems) \in Seq(Nat)
      /\ Range(wItems) = Range(Tail(wItems)) \cup {next}
      /\ next \notin Range(Tail(wItems))
      /\ InOrder(Tail(wItems), Messages) /\ InOrder(Tail(wItems), Commands)
      /\ next \in Messages => \A m \in Range(Tail(wItems)) \cap Messages : next < m
      /\ next \in Commands => \A m \in Range(Tail(wItems)) \cap Commands : next < m
  BY <1>1, <1>2, TailRange, TailOrder
<1> HIDE DEF next
<1>4. /\ next \in QueuedOnes /\ next \notin wElsewhere \cup Range(wRan) /\ next \in DOMAIN wEntries
      /\ next \in Nat \ {0} /\ next \notin Queue!Users(wLog)
      /\ next \in Messages <=> next \notin Commands
  BY <1>3, QueueFacts DEF QueueInv, Places, Waiting, Recorded
<1>5. Messages' = Messages /\ Commands' = Commands /\ QueuedOnes' = QueuedOnes
  BY <1>1, SameEntries
<1>6. Range(wTurn.todo) = {}
  BY <1>1, IdleHolds
<1>7. CASE /\ next \in Messages /\ wItems' = Tail(wItems) /\ (Queue!Begin(next, 0) \/ Queue!Refuse(next))
           /\ wExecuting' = wExecuting /\ wLog' = wLog /\ wConversation' = wConversation /\ wRan' = wRan
  <2>1. /\ wTurn' \in QueueTurns /\ wTurn'.todo = <<>> /\ ~wTurn'.aborted
        /\ wTurn'.kind = "none" <=> wTurn'.stage = "none"
        /\ wTurn'.stage \notin {"fork", "inject", "rebuild"} /\ wTurn'.kind \notin {"regenerate", "work"}
        /\ wTurn'.prompt \in wElsewhere' \cup {0} /\ wTurn'.by \in Range(wRan) \cup {0}
        /\ wTurn'.kind = "prompt" => wTurn'.prompt # 0
        /\ wTurn'.old \in {wTurn.old, <<>>}
        /\ wReady' = "no" /\ wCaptured' \in Nat /\ wElsewhere' = wElsewhere \cup {next}
        /\ Todo("commands")' = {} /\ Todo("inject")' = {} /\ Booting' \subseteq {next}
    BY <1>1, <1>4, <1>7, BeginsOrRefuses
  <2>2. InOrder(wTurn'.todo, Nat) /\ Queue!Users(wLog)' = Queue!Users(wLog)
    BY <1>7, <2>1, EmptyOrder DEF Queue!Users
  <2>3. Waiting'
    BY <1>3, <1>4, <1>5, <1>7, <2>1, <2>2 DEF QueueInv, Places, Waiting, Precede
  <2>4. Recorded'
    <3>1. InOrder(wLog, Messages \cap QueuedOnes)' /\ OnceEach(wLog)'
      BY <1>5, <1>7 DEF QueueInv, Places, Recorded, OnceEach
    <3> QED  BY <1>1, <1>3, <1>4, <1>5, <1>7, <2>1, <2>2, <3>1 DEF QueueInv, Places, Recorded, Precede
  <2>5. Started'
    BY <1>3, <1>5, <1>7, <2>1 DEF QueueInv, Places, Started, Precede
  <2>6. Kept'
    BY <1>1, <1>3, <1>6, <1>7, <2>1 DEF QueueInv, Places, Kept
  <2>7. QueueTypes' /\ Hands' /\ Taken'
    BY <1>1, <1>3, <1>7, <2>1 DEF QueueInv, QueueTypes, Hands, Taken
  <2>8. Remembered'
    BY <1>1, <1>3, <1>7, <2>1, SameEntries, RememberedKept DEF QueueInv, QueueTypes
  <2> QED  BY <2>3, <2>4, <2>5, <2>6, <2>7, <2>8 DEF QueueInv, Places
<1>8. CASE /\ next \notin Messages /\ Queue!Start(next, wEntries[next].input, Tail(wItems))
           /\ wCaptured' = wCaptured
  <2>1. /\ wRan' = Append(wRan, next)
        /\ wTurn' \in QueueTurns /\ wTurn'.todo = <<>> /\ ~wTurn'.aborted
        /\ \/ wTurn'.kind = "none" /\ wTurn'.stage = "none" /\ wTurn' = wTurn
           \/ wTurn'.kind = "work" /\ wTurn'.stage = "provider" /\ wTurn'.prompt = 0
        /\ wTurn'.by \in Range(wRan) \cup {0, next} /\ wExecuting' \subseteq wExecuting \cup {next}
        /\ \/ /\ wItems' = Tail(wItems) /\ wElsewhere' = wElsewhere
              /\ wLog' = wLog /\ wConversation' = wConversation
           \/ /\ wItems' = <<>> /\ wElsewhere' = wElsewhere \cup Range(Tail(wItems))
              /\ wLog' = <<>> /\ wConversation' = {}
    BY <1>1, <1>3, <1>4, <1>8, Starts
  <2>2. Places'
    <3>1. /\ DOMAIN wEntries' = DOMAIN wEntries \cup {next} /\ Commands' = Commands \cup {next}
          /\ \A m \in Range(wRan) \cap QueuedOnes : m < next
      BY <1>1, <1>3, <1>4, <1>5, <1>8 DEF QueueInv, Places, Started, Precede
    <3>2. InOrder(Tail(wItems), Commands') /\ \A m \in Range(Tail(wItems)) \cap Commands' : next < m
      BY <1>3, <1>4, <1>5, <1>8
    <3>3. Grown /\ wEntries' \in Seq([input : Queue!Input, queued : BOOLEAN])
      BY <1>1, SameEntries DEF QueueInv, QueueTypes
    <3> QED  BY <1>1, <1>3, <1>4, <1>5, <1>8, <3>1, <3>2, <3>3, StartPlaces
  <2>3. wRan' \in Seq(Nat) /\ Range(wRan') = Range(wRan) \cup {next}
    <3>1. wRan \in Seq(Nat)
      BY QueueFacts
    <3> QED  BY <1>4, <2>1, <3>1, AppendRange
  <2>4. wItems' \in Seq(Nat) /\ wLog' \in Seq(Nat)
    <3>1. <<>> \in Seq(Nat)
      OBVIOUS
    <3> QED  BY <1>3, <2>1, <3>1, QueueFacts
  <2>5. QueueTypes'
    BY <1>1, <1>8, <2>1, <2>3, <2>4 DEF QueueInv, QueueTypes
  <2>6. Hands'
    BY <2>1, <2>3 DEF QueueInv, Hands
  <2>7. Taken'
    BY <1>1, <2>1 DEF Taken
  <2> QED  BY <2>2, <2>5, <2>6, <2>7 DEF QueueInv
<1> QED  BY <1>1, <1>7, <1>8

-----------------------------------------------------------------------------
(* The boundaries of a turn.                                                 *)

\* What is left of the queue.
LEMMA Leaves ==
  ASSUME QueueInv, NEW taken
  PROVE  /\ Queue!Without(taken, wItems) \in Seq(Nat)
         /\ Range(Queue!Without(taken, wItems)) = Range(wItems) \ Range(taken)
         /\ InOrder(Queue!Without(taken, wItems), Messages) /\ InOrder(Queue!Without(taken, wItems), Commands)
<1> DEFINE kept == Range(wItems) \ Range(taken)
<1>1. Queue!Without(taken, wItems) = Only(wItems, kept)
  <2>1. Queue!Without(taken, wItems) = Queue!Only(wItems, kept)
    BY QueueNames DEF Queue!Without
  <2> HIDE DEF kept
  <2> QED  BY <2>1, QueueNames
<1>2. wItems \in Seq(Nat) /\ InOrder(wItems, Messages) /\ InOrder(wItems, Commands)
  BY QueueFacts DEF QueueInv, Places, Waiting
<1>3. Range(wItems) \cap kept = Range(wItems) \ Range(taken)
  OBVIOUS
<1> HIDE DEF kept
<1>4. Only(wItems, kept) \in Seq(Nat) /\ Range(Only(wItems, kept)) = Range(wItems) \cap kept
  BY <1>2, OnlyProperties
<1>5. InOrder(Only(wItems, kept), Messages) /\ InOrder(Only(wItems, kept), Commands)
  BY <1>2, OnlyOrder
<1> QED  BY <1>1, <1>3, <1>4, <1>5

\* Those of one kind.
LEMMA Takes ==
  ASSUME QueueInv, NEW kinds, NEW K, K = Queue!Is(kinds), InOrder(wItems, K)
  PROVE  /\ Queue!Of(kinds, wItems) \in Seq(Nat) /\ Range(Queue!Of(kinds, wItems)) = Range(wItems) \cap K
         /\ InOrder(Queue!Of(kinds, wItems), K)
<1>1. Queue!Of(kinds, wItems) = Only(wItems, K)
  <2>1. Queue!Of(kinds, wItems) = Queue!Only(wItems, K)
    BY DEF Queue!Of
  <2> QED  BY <2>1, QueueNames
<1>2. wItems \in Seq(Nat)
  BY QueueFacts
<1> QED  BY <1>1, <1>2, OnlyProperties, OnlyOrder

\* The tool boundary takes the first commands of the queue, up to some point.
LEMMA BoundaryTakes ==
  ASSUME QueueInv, NEW taken, taken = Queue!ToolBoundaryCommands
  PROVE  /\ taken \in Seq(Nat) /\ Range(taken) \subseteq Range(wItems) \cap Commands /\ InOrder(taken, Nat)
         /\ Precede(Range(taken), (Range(wItems) \cap Commands) \ Range(taken))
<1> DEFINE commands == Queue!Of(Queue!Command, wItems)
           later == {i \in DOMAIN commands : commands[i] \notin Queue!Is({"tool"})}
           n == IF later = {} THEN Len(commands) ELSE Queue!Min(later) - 1
<1>1. taken = SubSeq(commands, 1, n)
  BY DEF Queue!ToolBoundaryCommands
<1>2. /\ commands \in Seq(Nat) /\ Range(commands) = Range(wItems) \cap Commands /\ InOrder(commands, Commands)
  <2>1. Commands = Queue!Is(Queue!Command) /\ InOrder(wItems, Commands)
    BY DEF Commands, QueueInv, Places, Waiting
  <2> HIDE DEF commands
  <2> QED  BY <2>1, Takes DEF commands
<1> HIDE DEF commands
<1>3. DOMAIN commands = 1..Len(commands) /\ Len(commands) \in Nat
  BY <1>2
<1>4. n \in 0..Len(commands)
  <2>1. CASE later = {}
    BY <1>3, <2>1
  <2>2. CASE later # {}
    <3>1. later \subseteq 1..Len(commands) /\ Queue!Min(later) = Min(later)
      BY <1>3 DEF Queue!Min, Min
    <3> HIDE DEF later
    <3>2. Min(later) \in later
      BY <1>3, <2>2, <3>1, FirstIndex
    <3>3. Min(later) \in 1..Len(commands)
      BY <3>1, <3>2
    <3>4. Min(later) - 1 \in 0..Len(commands)
      BY <1>3, <3>3
    <3> QED  BY <2>2, <3>1, <3>4
  <2> QED  BY <2>1, <2>2
<1> HIDE DEF n
<1>5. /\ taken \in Seq(Nat) /\ InOrder(taken, Commands) /\ Range(taken) \subseteq Range(commands)
      /\ \A m \in Range(taken) \cap Commands, k \in (Range(commands) \cap Commands) \ Range(taken) : m < k
  BY <1>1, <1>2, <1>4, PrefixOrder
<1>6. InOrder(taken, Nat)
  BY <1>2, <1>5, OrderWithin
<1> QED  BY <1>2, <1>5, <1>6 DEF Precede

\* At a boundary commands leave the queue for the turn.
LEMMA BoundaryPlaces ==
  ASSUME QueueInv, Queue!ReachBoundary, wTurn.stage \in {"boot", "provider"}, LogKept,
         wEntries' = wEntries, wRan' = wRan, wElsewhere' = wElsewhere
  PROVE  /\ Places' /\ wItems' \in Seq(Nat) /\ wTurn' \in QueueTurns
         /\ wTurn'.kind = wTurn.kind /\ wTurn'.stage = "commands" /\ wTurn'.prompt = wTurn.prompt
         /\ wTurn'.by = wTurn.by /\ wTurn'.aborted = wTurn.aborted
<1> DEFINE taken == Queue!ToolBoundaryCommands
<1>1. /\ taken \in Seq(Nat) /\ Range(taken) \subseteq Range(wItems) \cap Commands /\ InOrder(taken, Nat)
      /\ Precede(Range(taken), (Range(wItems) \cap Commands) \ Range(taken))
  BY BoundaryTakes
<1>2. /\ wTurn' = [wTurn EXCEPT !.stage = "commands", !.todo = taken]
      /\ wItems' = Queue!Without(taken, wItems)
  BY DEF Queue!ReachBoundary
<1> HIDE DEF taken
<1>3. /\ wTurn' \in QueueTurns /\ wTurn'.stage = "commands" /\ wTurn'.todo = taken
      /\ wTurn'.kind = wTurn.kind /\ wTurn'.prompt = wTurn.prompt /\ wTurn'.by = wTurn.by
      /\ wTurn'.aborted = wTurn.aborted /\ wTurn'.old = wTurn.old
  BY <1>1, <1>2 DEF QueueTurns, QueueInv, QueueTypes
<1>4. /\ wItems' \in Seq(Nat) /\ Range(wItems') = Range(wItems) \ Range(taken)
      /\ InOrder(wItems', Messages) /\ InOrder(wItems', Commands)
  BY <1>2, Leaves
<1>5. Todo("commands")' = Range(taken) /\ Todo("inject")' = {} /\ Booting' = {}
  BY <1>3 DEF Todo, Booting
<1>6. Messages' = Messages /\ Commands' = Commands /\ QueuedOnes' = QueuedOnes
  BY SameEntries
<1>7. Range(wTurn.todo) = {}
  BY EmptyOrder DEF QueueInv, Hands
<1>8. Messages \cap Commands = {} /\ 0 \notin Messages \cap QueuedOnes
  BY QueueFacts
<1>9. Waiting'
  BY <1>1, <1>3, <1>4, <1>5, <1>6 DEF QueueInv, Places, Waiting, Precede
<1>10. Recorded'
  <2>1. InOrder(wLog, Messages \cap QueuedOnes)' /\ OnceEach(wLog)'
    BY <1>6, <1>8 DEF LogKept, QueueInv, Places, Recorded
  <2> QED  BY <1>4, <1>5, <1>6, <2>1 DEF LogKept, QueueInv, Places, Recorded, Precede
<1>11. Started'
  BY <1>1, <1>4, <1>5, <1>6 DEF QueueInv, Places, Started, Precede
<1>12. Kept'
  BY <1>3, <1>4, <1>7 DEF QueueInv, Places, Kept
<1>13. Remembered'
  BY <1>3, <1>4, SameEntries, RememberedKept DEF QueueInv, QueueTypes
<1> QED  BY <1>3, <1>4, <1>9, <1>10, <1>11, <1>12, <1>13 DEF Places

\* The log up to a prompt is a beginning of it.
LEMMA UpToPrefix ==
  ASSUME QueueInv, NEW n \in Queue!Users(wLog)
  PROVE  \E k \in 0..Len(wLog) : Queue!UpTo(n) = SubSeq(wLog, 1, k)
<1> DEFINE records == {i \in DOMAIN wLog : wLog[i] = n}
<1>1. wLog \in Seq(Nat) /\ DOMAIN wLog = 1..Len(wLog) /\ Len(wLog) \in Nat
  <2>1. wLog \in Seq(Nat)
    BY QueueFacts
  <2> QED  BY <2>1
<1>2. Queue!UpTo(n) = SubSeq(wLog, 1, Max(records))
  BY DEF Queue!UpTo, Queue!Max, Max
<1>3. records \subseteq 1..Len(wLog) /\ records # {}
  BY <1>1, UsersAre DEF Range
<1> HIDE DEF records
<1>4. Max(records) \in records
  BY <1>1, <1>3, LastIndex
<1>5. Max(records) \in 0..Len(wLog)
  <2>1. Max(records) \in 1..Len(wLog)
    BY <1>3, <1>4
  <2>2. 1..Len(wLog) \subseteq 0..Len(wLog)
    BY <1>1
  <2> QED  BY <2>1, <2>2
<1> QED  BY <1>2, <1>5

\* A fork keeps a beginning of the log.
LEMMA LogUpTo ==
  ASSUME QueueInv, wTurn.prompt \in Queue!Users(wLog), wLog' = Queue!UpTo(wTurn.prompt)
  PROVE  LogKept
<1>1. PICK k \in 0..Len(wLog) : Queue!UpTo(wTurn.prompt) = SubSeq(wLog, 1, k)
  BY UpToPrefix
<1> QED  BY <1>1, LogCut

\* The bootstrap records the prompt, or the answer to a panel, behind which
\* there is a boundary; a regeneration's makes the fork the branch.
LEMMA BootKeeps ==
  ASSUME QueueInv, Queue!Boot
  PROVE  QueueInv'
<1>1. /\ wTurn.stage = "boot"
      /\ wEntries' = wEntries /\ wDraft' = wDraft /\ wReady' = wReady /\ wCaptured' = wCaptured
      /\ wExecuting' = wExecuting /\ wConversation' = wConversation /\ wRan' = wRan
      /\ wElsewhere' = wElsewhere /\ wInterrupted' = wInterrupted /\ wAsked' = wAsked
  BY DEF Queue!Boot, Queue!At
<1>2. CASE wTurn.kind = "prompt"
  <2> DEFINE n == wTurn.prompt
  <2>1. wLog' = Append(wLog, n) /\ wItems' = wItems
    BY <1>2 DEF Queue!Boot
  <2>2. /\ wTurn' \in QueueTurns /\ wTurn'.kind = "prompt" /\ wTurn'.stage = "provider"
        /\ wTurn'.prompt = n /\ wTurn'.by = wTurn.by /\ wTurn'.todo = wTurn.todo
        /\ wTurn'.aborted = wTurn.aborted /\ wTurn'.old = wTurn.old
    <3>1. wTurn' = [wTurn EXCEPT !.stage = "provider"] /\ wTurn \in QueueTurns
      BY <1>2 DEF Queue!Boot, QueueInv, QueueTypes
    <3> QED  BY <1>2, <3>1 DEF QueueTurns
  <2>3. n # 0 /\ n \in wElsewhere /\ wTurn.todo = <<>> /\ Booting = {n} /\ n \in Nat
    BY <1>1, <1>2, QueueFacts DEF QueueInv, Hands, Booting
  <2> HIDE DEF n
  <2>4. Messages' = Messages /\ Commands' = Commands /\ QueuedOnes' = QueuedOnes
    BY <1>1, SameEntries
  <2>5. n \notin Queue!Users(wLog) /\ OnceEach(wLog) /\ InOrder(wLog, Messages \cap QueuedOnes)
                                   /\ wLog \in Seq(Nat)
        /\ 0 \notin Messages \cap QueuedOnes
    BY <2>3, QueueFacts DEF QueueInv, Places, Recorded
  <2>6. n \in Messages \cap QueuedOnes => \A m \in Queue!Users(wLog) \cap (Messages \cap QueuedOnes) : m < n
    BY <2>3 DEF QueueInv, Places, Recorded, Precede
  <2>7. /\ wLog' \in Seq(Nat) /\ OnceEach(wLog') /\ InOrder(wLog', Messages \cap QueuedOnes)
        /\ Queue!Users(wLog') = Queue!Users(wLog) \cup {n}
    <3>1. /\ Append(wLog, n) \in Seq(Nat) /\ OnceEach(Append(wLog, n))
          /\ InOrder(Append(wLog, n), Messages \cap QueuedOnes)
          /\ Queue!Users(Append(wLog, n)) = Queue!Users(wLog) \cup ({n} \ {0})
      BY <2>3, <2>5, <2>6, AppendOnce
    <3> QED  BY <2>1, <2>3, <3>1
  <2>8. Queue!Users(wLog') = Queue!Users(wLog)'
    OBVIOUS
  <2>9. Todo("commands")' = {} /\ Todo("inject")' = {} /\ Booting' = {} /\ Todo("commands") = {}
                               /\ Todo("inject") = {}
    BY <1>1, <2>2 DEF Todo, Booting
  <2>10. Waiting'
    BY <1>1, <2>1, <2>2, <2>4, <2>9 DEF QueueInv, Places, Waiting, Precede
  <2>11. Recorded'
    <3>1. InOrder(wLog, Messages \cap QueuedOnes)' /\ OnceEach(wLog)'
      BY <2>4, <2>7
    <3> QED  BY <1>1, <2>1, <2>3, <2>4, <2>7, <2>8, <2>9, <3>1 DEF QueueInv, Places, Recorded, Precede
  <2>12. Started'
    BY <1>1, <2>1, <2>4, <2>9 DEF QueueInv, Places, Started, Precede
  <2>13. Kept'
    BY <1>1, <2>1, <2>2 DEF QueueInv, Places, Kept
  <2>14. QueueTypes' /\ Hands' /\ Taken'
    <3>1. QueueTypes'
      BY <1>1, <2>1, <2>2, <2>7 DEF QueueInv, QueueTypes
    <3>2. Hands'
      BY <1>1, <2>1, <2>2, <2>3 DEF QueueInv, Hands
    <3>3. Taken'
      BY <1>1, <1>2, <2>1, <2>2 DEF QueueInv, Taken, Queue!Busy
    <3> QED  BY <3>1, <3>2, <3>3
  <2>15. Remembered'
    BY <1>1, <2>1, <2>2, SameEntries, RememberedKept DEF QueueInv, QueueTypes
  <2> QED  BY <2>10, <2>11, <2>12, <2>13, <2>14, <2>15 DEF QueueInv, Places
<1>4. CASE wTurn.kind = "regenerate"
  <2>1. /\ wTurn' = [wTurn EXCEPT !.stage = "provider", !.old = wLog] /\ wItems' = wItems
        /\ wLog' = Queue!UpTo(wTurn.prompt)
    BY <1>4 DEF Queue!Boot
  <2>2. LogKept
    BY <1>1, <1>4, <2>1, LogUpTo DEF QueueInv, Places, Remembered
  <2>3. /\ wTurn' \in QueueTurns /\ wTurn'.kind = "regenerate" /\ wTurn'.stage = "provider"
        /\ wTurn'.prompt = wTurn.prompt /\ wTurn'.by = wTurn.by /\ wTurn'.todo = <<>>
        /\ wTurn'.aborted = wTurn.aborted /\ wTurn'.old = wLog /\ wTurn.todo = <<>>
    BY <1>1, <1>4, <2>1, QueueFacts DEF QueueInv, QueueTypes, QueueTurns, Hands
  <2>4. Messages' = Messages /\ Commands' = Commands /\ QueuedOnes' = QueuedOnes
    BY <1>1, SameEntries
  <2>5. /\ Todo("commands") = {} /\ Todo("inject") = {} /\ Booting = {}
        /\ Todo("commands")' = {} /\ Todo("inject")' = {} /\ Booting' = {}
    BY <1>1, <1>4, <2>3 DEF Todo, Booting
  <2>6. Waiting' /\ Started' /\ Kept'
    BY <1>1, <2>1, <2>3, <2>4, <2>5 DEF QueueInv, Places, Waiting, Started, Kept, Precede
  <2>7. Recorded'
    <3>1. 0 \notin Messages \cap QueuedOnes
      BY QueueFacts
    <3>2. InOrder(wLog, Messages \cap QueuedOnes)' /\ OnceEach(wLog)'
      BY <2>2, <2>4, <3>1 DEF LogKept, QueueInv, Places, Recorded
    <3> QED  BY <1>1, <2>1, <2>2, <2>4, <2>5, <3>2 DEF LogKept, QueueInv, Places, Recorded, Precede
  <2>8. Remembered'
    <3>1. Queue!Users(wTurn.old)' = Queue!Users(wLog)
      BY <2>3 DEF Queue!Users
    <3>2. OnceEach(wTurn.old)' /\ InOrder(wTurn.old, Messages \cap QueuedOnes)'
      BY <2>3, <2>4 DEF QueueInv, Places, Recorded, OnceEach
    <3>3. Range(wItems) \subseteq QueuedOnes
      BY DEF QueueInv, Places, Waiting
    <3> QED  BY <1>1, <2>1, <2>3, <2>4, <3>1, <3>2, <3>3 DEF QueueInv, Places, Recorded, Remembered, Precede
  <2>9. QueueTypes' /\ Hands' /\ Taken'
    BY <1>1, <1>4, <2>1, <2>2, <2>3 DEF QueueInv, QueueTypes, Hands, Taken, LogKept, Queue!Busy
  <2> QED  BY <2>6, <2>7, <2>8, <2>9 DEF QueueInv, Places
<1>3. CASE wTurn.kind \notin {"prompt", "regenerate"}
  <2>1. Queue!ReachBoundary /\ wLog' = wLog
    BY <1>3 DEF Queue!Boot
  <2>2. LogKept
    BY <2>1, SameLog
  <2>3. /\ Places' /\ wItems' \in Seq(Nat) /\ wTurn' \in QueueTurns
        /\ wTurn'.kind = wTurn.kind /\ wTurn'.stage = "commands" /\ wTurn'.prompt = wTurn.prompt
        /\ wTurn'.by = wTurn.by /\ wTurn'.aborted = wTurn.aborted
    BY <1>1, <2>1, <2>2, BoundaryPlaces
  <2>4. QueueTypes' /\ Hands' /\ Taken'
    BY <1>1, <2>2, <2>3 DEF QueueInv, QueueTypes, Hands, Taken, LogKept, Queue!Busy
  <2> QED  BY <2>3, <2>4 DEF QueueInv
<1> QED  BY <1>2, <1>3, <1>4

\* A round of tools ends: the turn reaches a boundary.
LEMMA RoundKeeps ==
  ASSUME QueueInv, Queue!Round
  PROVE  QueueInv'
<1>1. /\ wTurn.stage = "provider" /\ wTurn.kind # "work" /\ Queue!ReachBoundary /\ wLog' = Queue!Answered
      /\ wEntries' = wEntries /\ wDraft' = wDraft /\ wReady' = wReady /\ wCaptured' = wCaptured
      /\ wExecuting' = wExecuting /\ wConversation' = wConversation /\ wRan' = wRan
      /\ wElsewhere' = wElsewhere /\ wInterrupted' = wInterrupted /\ wAsked' = wAsked
  BY DEF Queue!Round, Queue!At
<1>2. LogKept
  BY <1>1, LogAnswered
<1>3. /\ Places' /\ wItems' \in Seq(Nat) /\ wTurn' \in QueueTurns
      /\ wTurn'.kind = wTurn.kind /\ wTurn'.stage = "commands" /\ wTurn'.prompt = wTurn.prompt
      /\ wTurn'.by = wTurn.by /\ wTurn'.aborted = wTurn.aborted
  BY <1>1, <1>2, BoundaryPlaces
<1>4. QueueTypes' /\ Hands'
  BY <1>1, <1>2, <1>3 DEF QueueInv, QueueTypes, Hands, LogKept
<1>5. Taken'
  BY <1>1, <1>3 DEF QueueInv, Taken, Hands, Queue!Busy
<1> QED  BY <1>3, <1>4, <1>5 DEF QueueInv

\* A taken command is started; when it fails, those behind it return to the
\* head of the queue.
LEMMA RunBoundaryCommandKeeps ==
  ASSUME QueueInv, Queue!RunBoundaryCommand
  PROVE  QueueInv'
<1> DEFINE next == Head(wTurn.todo)
           rest == Tail(wTurn.todo)
<1>1. /\ wTurn.stage = "commands" /\ wTurn.todo # <<>> /\ wRan' = Append(wRan, next)
      /\ \/ wTurn' = [wTurn EXCEPT !.todo = rest] /\ wItems' = wItems /\ wReady' = wReady
         \/ wTurn' = [wTurn EXCEPT !.todo = <<>>] /\ wItems' = rest \o wItems /\ wReady' = "no"
      /\ wEntries' = wEntries /\ wDraft' = wDraft /\ wCaptured' = wCaptured
      /\ wExecuting' = wExecuting /\ wLog' = wLog /\ wConversation' = wConversation
      /\ wElsewhere' = wElsewhere /\ wInterrupted' = wInterrupted /\ wAsked' = wAsked
  BY DEF Queue!RunBoundaryCommand, Queue!At, Queue!Block
<1>2. /\ wTurn.todo \in Seq(Nat) /\ InOrder(wTurn.todo, Nat) /\ wTurn \in QueueTurns
      /\ wItems \in Seq(Nat) /\ InOrder(wItems, Messages) /\ InOrder(wItems, Commands)
      /\ wRan \in Seq(Nat) /\ IsInjective(wRan) /\ InOrder(wRan, QueuedOnes)
      /\ Todo("commands") = Range(wTurn.todo) /\ Todo("inject") = {} /\ Booting = {}
  BY <1>1, QueueFacts DEF QueueInv, QueueTypes, Places, Waiting, Started, Todo, Booting
<1>3. /\ next \in Range(wTurn.todo) /\ next \in Nat /\ rest \in Seq(Nat)
      /\ Range(wTurn.todo) = Range(rest) \cup {next}
      /\ InOrder(rest, Nat) /\ \A m \in Range(rest) : next < m
  <2>1. /\ next \in Range(wTurn.todo) /\ next \in Nat /\ rest \in Seq(Nat)
        /\ Range(wTurn.todo) = Range(rest) \cup {next}
    BY <1>1, <1>2, TailRange
  <2>2. InOrder(rest, Nat) /\ \A m \in Range(rest) \cap Nat : next < m
    BY <1>1, <1>2, <2>1, TailOrder
  <2>3. Range(rest) \subseteq Nat
    BY <2>1 DEF Range
  <2> QED  BY <2>1, <2>2, <2>3
<1> HIDE DEF next, rest
<1>4. /\ Range(wTurn.todo) \subseteq Commands \cap QueuedOnes
      /\ Range(wTurn.todo) \cap (Range(wItems) \cup wElsewhere \cup Range(wRan)) = {}
      /\ \A n \in Range(wTurn.todo), m \in Range(wItems) \cap Commands : n < m
      /\ \A n \in Range(wRan) \cap QueuedOnes :
           \A m \in (Range(wItems) \cup Range(wTurn.todo)) \cap Commands : n < m
      /\ Messages \cap Commands = {}
  BY <1>2, QueueFacts DEF QueueInv, Places, Waiting, Started, Precede
<1>5. Messages' = Messages /\ Commands' = Commands /\ QueuedOnes' = QueuedOnes
      /\ Queue!Users(wLog)' = Queue!Users(wLog)
  BY <1>1, SameEntries DEF Queue!Users
<1>6. wRan' \in Seq(Nat) /\ Range(wRan') = Range(wRan) \cup {next} /\ IsInjective(wRan')
                         /\ InOrder(wRan', QueuedOnes)
  <2>1. next \notin Range(wRan) /\ \A m \in Range(wRan) \cap QueuedOnes : m < next
    BY <1>3, <1>4
  <2> QED  BY <1>1, <1>2, <1>3, <2>1, AppendRange, AppendOrder
<1>7. /\ wTurn' \in QueueTurns /\ wTurn'.kind = wTurn.kind /\ wTurn'.stage = "commands"
      /\ wTurn'.prompt = wTurn.prompt /\ wTurn'.by = wTurn.by /\ wTurn'.aborted = wTurn.aborted
      /\ wTurn'.todo \in {rest, <<>>} /\ wTurn'.old = wTurn.old
  <2>1. <<>> \in Seq(Nat)
    OBVIOUS
  <2> QED  BY <1>1, <1>2, <1>3, <2>1 DEF QueueTurns
<1>8. Todo("commands")' = Range(wTurn'.todo) /\ Todo("inject")' = {} /\ Booting' = {}
/\ InOrder(wTurn'.todo, Nat)
  BY <1>3, <1>7, EmptyOrder DEF Todo, Booting
<1>9. /\ wItems' \in Seq(Nat) /\ InOrder(wItems', Messages) /\ InOrder(wItems', Commands)
      /\ \/ Range(wItems') = Range(wItems) /\ Range(wTurn'.todo) = Range(rest)
         \/ Range(wItems') = Range(wItems) \cup Range(rest) /\ Range(wTurn'.todo) = {}
  <2>1. CASE wTurn' = [wTurn EXCEPT !.todo = rest] /\ wItems' = wItems
    <3>1. wTurn'.todo = rest
      BY <1>2, <2>1 DEF QueueTurns
    <3> QED  BY <1>2, <2>1, <3>1
  <2>2. CASE wTurn' = [wTurn EXCEPT !.todo = <<>>] /\ wItems' = rest \o wItems
    <3>1. wTurn'.todo = <<>>
      BY <1>2, <2>2 DEF QueueTurns
    <3>2. rest \o wItems \in Seq(Nat) /\ Range(rest \o wItems) = Range(rest) \cup Range(wItems)
      BY <1>2, <1>3, ConcatRange
    <3>3. InOrder(rest \o wItems, Commands)
      <4>1. InOrder(rest, Commands)
        BY <1>3, <1>4, OrderWithin
      <4>2. Precede(Range(rest) \cap Commands, Range(wItems) \cap Commands)
        BY <1>3, <1>4 DEF Precede
      <4> QED  BY <1>2, <1>3, <4>1, <4>2, ConcatOrder
    <3>4. InOrder(rest \o wItems, Messages)
      <4>1. Range(rest) \cap Messages = {}
        BY <1>3, <1>4
      <4>2. InOrder(rest, Messages)
        BY <1>3, <4>1, OrderWithin
      <4>3. Precede(Range(rest) \cap Messages, Range(wItems) \cap Messages)
        BY <4>1 DEF Precede
      <4> QED  BY <1>2, <1>3, <4>2, <4>3, ConcatOrder
    <3> QED  BY <2>2, <3>1, <3>2, <3>3, <3>4, EmptyOrder
  <2> QED  BY <1>1, <2>1, <2>2
<1>10. next \notin Range(rest)
  BY <1>3
<1>11. Waiting'
  BY <1>1, <1>2, <1>3, <1>4, <1>5, <1>6, <1>8, <1>9, <1>10 DEF QueueInv, Places, Waiting, Precede
<1>12. Recorded'
  <2>1. InOrder(wLog, Messages \cap QueuedOnes)' /\ OnceEach(wLog)'
    BY <1>1, <1>5 DEF QueueInv, Places, Recorded, OnceEach
  <2>2. Range(wItems') \cap Messages = Range(wItems) \cap Messages
    BY <1>3, <1>4, <1>9
  <2> QED  BY <1>1, <1>2, <1>5, <1>8, <2>1, <2>2 DEF QueueInv, Places, Recorded, Precede
<1>13. Started'
  <2>1. InOrder(wRan, QueuedOnes)' /\ IsInjective(wRan)'
    BY <1>5, <1>6
  <2>2. Range(wRan') \subseteq Commands'
    BY <1>3, <1>4, <1>5, <1>6 DEF QueueInv, Places, Started
  <2>3. Range(wItems') \cup Range(wTurn'.todo) = Range(wItems) \cup Range(rest)
    BY <1>9
  <2>4. ASSUME NEW n \in Range(wRan') \cap QueuedOnes,
  NEW m \in (Range(wItems) \cup Range(rest)) \cap Commands
        PROVE  n < m
    BY <1>3, <1>4, <1>6, <2>4
  <2>5. Precede(Range(wRan') \cap QueuedOnes', (Range(wItems') \cup Todo("commands")') \cap Commands')
    BY <1>5, <1>8, <2>3, <2>4 DEF Precede
  <2> QED  BY <2>1, <2>2, <2>5 DEF Started
<1>14. Kept'
  BY <1>1, <1>3, <1>6, <1>9 DEF QueueInv, Places, Kept
<1>15. QueueTypes' /\ Hands'
  BY <1>1, <1>6, <1>7, <1>9 DEF QueueInv, QueueTypes, Hands
<1>16. Taken'
  BY <1>1, <1>7 DEF QueueInv, Taken, Hands, Queue!Busy
<1>17. Remembered'
  <2>1. Messages \cap Range(wItems') = Messages \cap Range(wItems)
    BY <1>3, <1>4, <1>9
  <2>2. Queue!Users(wTurn.old)' = Queue!Users(wTurn.old)
    BY <1>7 DEF Queue!Users
  <2>3. OnceEach(wTurn.old)' /\ InOrder(wTurn.old, Messages \cap QueuedOnes)'
    BY <1>5, <1>7 DEF QueueInv, Places, Remembered, OnceEach
  <2> QED  BY <1>1, <1>5, <1>7, <2>1, <2>2, <2>3 DEF QueueInv, Places, Remembered, Precede
<1> QED  BY <1>11, <1>12, <1>13, <1>14, <1>15, <1>16, <1>17 DEF QueueInv, Places

\* The turn takes the waiting messages.
LEMMA TakeMessagesKeeps ==
  ASSUME QueueInv, Queue!TakeMessages
  PROVE  QueueInv'
<1> DEFINE taken == Queue!Of({"message"}, wItems)
           stage == IF taken = <<>> THEN "provider" ELSE "inject"
<1>1. /\ wTurn.stage = "commands" /\ wTurn.todo = <<>>
      /\ wTurn' = [wTurn EXCEPT !.stage = stage, !.todo = taken]
      /\ wItems' = Queue!Without(taken, wItems) /\ wElsewhere' = wElsewhere \cup Range(taken)
      /\ wEntries' = wEntries /\ wDraft' = wDraft /\ wReady' = wReady /\ wCaptured' = wCaptured
      /\ wExecuting' = wExecuting /\ wLog' = wLog /\ wConversation' = wConversation
      /\ wRan' = wRan /\ wInterrupted' = wInterrupted /\ wAsked' = wAsked
  <2>1. Queue!Range(taken) = Range(taken)
    BY QueueNames
  <2> QED  BY <2>1 DEF Queue!TakeMessages, Queue!At
<1>2. taken \in Seq(Nat) /\ Range(taken) = Range(wItems) \cap Messages /\ InOrder(taken, Nat)
  <2>1. Messages = Queue!Is({"message"}) /\ InOrder(wItems, Messages)
    BY DEF Messages, QueueInv, Places, Waiting
  <2>2. taken \in Seq(Nat) /\ Range(taken) = Range(wItems) \cap Messages /\ InOrder(taken, Messages)
    <3> HIDE DEF taken
    <3> QED  BY <2>1, Takes DEF taken
  <2> HIDE DEF taken
  <2>3. InOrder(taken, Nat)
    BY <2>2, OrderWithin
  <2> QED  BY <2>2, <2>3
<1> HIDE DEF taken
<1>3. /\ wItems' \in Seq(Nat) /\ Range(wItems') = Range(wItems) \ Messages
      /\ InOrder(wItems', Messages) /\ InOrder(wItems', Commands)
  <2>1. /\ Queue!Without(taken, wItems) \in Seq(Nat)
        /\ Range(Queue!Without(taken, wItems)) = Range(wItems) \ Range(taken)
        /\ InOrder(Queue!Without(taken, wItems), Messages) /\ InOrder(Queue!Without(taken, wItems), Commands)
    BY Leaves
  <2> QED  BY <1>1, <1>2, <2>1
<1>4. /\ wTurn' \in QueueTurns /\ wTurn'.kind = wTurn.kind /\ wTurn'.stage = stage
      /\ wTurn'.prompt = wTurn.prompt /\ wTurn'.by = wTurn.by /\ wTurn'.aborted = wTurn.aborted
      /\ wTurn'.todo = taken /\ wTurn'.old = wTurn.old
  <2>1. wTurn \in QueueTurns /\ stage \in {"provider", "inject"}
    BY DEF QueueInv, QueueTypes
  <2> HIDE DEF stage
  <2> QED  BY <1>1, <1>2, <2>1 DEF QueueTurns
<1>5. Todo("commands")' = {} /\ Todo("inject")' = Range(taken) /\ Booting' = {}
  <2>1. CASE taken = <<>>
    BY <1>4, <2>1, EmptyOrder DEF Todo, Booting
  <2>2. CASE taken # <<>>
    BY <1>4, <2>2 DEF Todo, Booting
  <2> QED  BY <2>1, <2>2
<1>6. Todo("commands") = {} /\ Range(wTurn.todo) = {}
  BY <1>1, EmptyOrder DEF Todo
<1>7. Messages' = Messages /\ Commands' = Commands /\ QueuedOnes' = QueuedOnes
      /\ Queue!Users(wLog)' = Queue!Users(wLog)
  BY <1>1, SameEntries DEF Queue!Users
<1>8. Waiting'
  <2>1. Queue!Users(wLog) \subseteq wElsewhere /\ Range(wItems) \cap wElsewhere = {}
    BY DEF QueueInv, Places, Waiting, Recorded
  <2>2. Range(wItems) \cap Range(wRan) = {} /\ Range(wItems) \subseteq QueuedOnes
    BY DEF QueueInv, Places, Waiting
  <2> QED  BY <1>1, <1>2, <1>3, <1>4, <1>5, <1>7, <2>1, <2>2 DEF Waiting, Precede
<1>9. Recorded'
  <2>1. InOrder(wLog, Messages \cap QueuedOnes)' /\ OnceEach(wLog)'
    BY <1>1, <1>7 DEF QueueInv, Places, Recorded, OnceEach
  <2>2. Range(wItems) \subseteq DOMAIN wEntries
    BY QueueFacts
  <2> QED  BY <1>1, <1>2, <1>3, <1>5, <1>7, <2>1, <2>2 DEF QueueInv, Places, Recorded, Precede
<1>10. Started'
  BY <1>1, <1>3, <1>5, <1>7 DEF QueueInv, Places, Started, Precede
<1>11. Kept'
  BY <1>1, <1>2, <1>3, <1>4, <1>6 DEF QueueInv, Places, Kept
<1>12. QueueTypes' /\ Hands'
  BY <1>1, <1>3, <1>4 DEF QueueInv, QueueTypes, Hands
<1>13. Taken'
  BY <1>1, <1>4 DEF QueueInv, Taken, Hands, Queue!Busy
<1>14. Remembered'
  <2>1. stage \notin {"fork", "boot"}
    OBVIOUS
  <2> HIDE DEF stage
  <2> QED  BY <1>1, <1>3, <1>4, <2>1, SameEntries, RememberedKept DEF QueueInv, QueueTypes
<1> QED  BY <1>8, <1>9, <1>10, <1>11, <1>12, <1>13, <1>14 DEF QueueInv, Places

\* A taken message is recorded and joins the conversation.
LEMMA InjectKeeps ==
  ASSUME QueueInv, Queue!Inject
  PROVE  QueueInv'
<1> DEFINE n == Head(wTurn.todo)
           rest == Tail(wTurn.todo)
           stage == IF Len(wTurn.todo) = 1 THEN "provider" ELSE "inject"
<1>1. /\ wTurn.stage = "inject" /\ wLog' = Append(wLog, n)
      /\ wTurn' = [wTurn EXCEPT !.stage = stage, !.todo = rest, !.seen = wTurn.seen \cup {n}]
      /\ wEntries' = wEntries /\ wDraft' = wDraft /\ wItems' = wItems /\ wReady' = wReady
      /\ wCaptured' = wCaptured /\ wExecuting' = wExecuting /\ wConversation' = wConversation
      /\ wRan' = wRan /\ wElsewhere' = wElsewhere /\ wInterrupted' = wInterrupted /\ wAsked' = wAsked
  BY DEF Queue!Inject, Queue!At
<1>2. /\ wTurn.todo \in Seq(Nat) /\ wTurn.todo # <<>> /\ InOrder(wTurn.todo, Nat) /\ wTurn \in QueueTurns
      /\ Todo("inject") = Range(wTurn.todo) /\ Todo("commands") = {} /\ Booting = {}
  BY <1>1, QueueFacts DEF QueueInv, QueueTypes, Hands, Places, Waiting, Todo, Booting
<1>3. /\ n \in Range(wTurn.todo) /\ n \in Nat /\ rest \in Seq(Nat)
      /\ Range(wTurn.todo) = Range(rest) \cup {n}
      /\ InOrder(rest, Nat) /\ \A m \in Range(rest) : n < m
  <2>1. /\ n \in Range(wTurn.todo) /\ n \in Nat /\ rest \in Seq(Nat)
        /\ Range(wTurn.todo) = Range(rest) \cup {n}
    BY <1>2, TailRange
  <2>2. InOrder(rest, Nat) /\ \A m \in Range(rest) \cap Nat : n < m
    BY <1>2, <2>1, TailOrder
  <2>3. Range(rest) \subseteq Nat
    BY <2>1 DEF Range
  <2> QED  BY <2>1, <2>2, <2>3
<1>4. \/ stage = "provider" /\ rest = <<>>
      \/ stage = "inject" /\ rest # <<>>
  <2>1. Len(wTurn.todo) = 1 <=> rest = <<>>
    BY <1>2, OneLeft
  <2> HIDE DEF rest
  <2> QED  BY <2>1
<1> HIDE DEF n, rest, stage
<1>5. /\ Range(wTurn.todo) \subseteq (Messages \cap QueuedOnes \cap wElsewhere) \ Queue!Users(wLog)
      /\ \A k \in Range(wTurn.todo), m \in Range(wItems) \cap Messages : k < m
      /\ \A k \in Queue!Users(wLog) \cap Messages \cap QueuedOnes, m \in Range(wTurn.todo) : k < m
  BY <1>2 DEF QueueInv, Places, Waiting, Recorded, Precede
<1>6. Messages' = Messages /\ Commands' = Commands /\ QueuedOnes' = QueuedOnes
  BY <1>1, SameEntries
<1>7. /\ wTurn' \in QueueTurns /\ wTurn'.kind = wTurn.kind /\ wTurn'.stage = stage
      /\ wTurn'.prompt = wTurn.prompt /\ wTurn'.by = wTurn.by /\ wTurn'.aborted = wTurn.aborted
      /\ wTurn'.todo = rest /\ wTurn'.old = wTurn.old
  <2>1. wTurn.seen \cup {n} \in SUBSET Nat /\ stage \in {"provider", "inject"}
    BY <1>2, <1>3, <1>4 DEF QueueTurns
  <2> QED  BY <1>1, <1>2, <1>3, <2>1 DEF QueueTurns
<1>8. Todo("commands")' = {} /\ Todo("inject")' = Range(rest) /\ Booting' = {}
  <2>1. CASE stage = "provider" /\ rest = <<>>
    BY <1>7, <2>1, EmptyOrder DEF Todo, Booting
  <2>2. CASE stage = "inject" /\ rest # <<>>
    BY <1>7, <2>2 DEF Todo, Booting
  <2> QED  BY <1>4, <2>1, <2>2
<1>9. n # 0 /\ 0 \notin Messages \cap QueuedOnes
  BY <1>3, <1>5, QueueFacts
<1>10. /\ wLog' \in Seq(Nat) /\ OnceEach(wLog') /\ InOrder(wLog', Messages \cap QueuedOnes)
       /\ Queue!Users(wLog') = Queue!Users(wLog) \cup {n}
  <2>1. /\ n \notin Queue!Users(wLog) /\ OnceEach(wLog)
        /\ InOrder(wLog, Messages \cap QueuedOnes) /\ wLog \in Seq(Nat)
        /\ \A m \in Queue!Users(wLog) \cap (Messages \cap QueuedOnes) : m < n
    BY <1>3, <1>5, QueueFacts DEF QueueInv, Places, Recorded
  <2>2. /\ Append(wLog, n) \in Seq(Nat) /\ OnceEach(Append(wLog, n))
        /\ InOrder(Append(wLog, n), Messages \cap QueuedOnes)
        /\ Queue!Users(Append(wLog, n)) = Queue!Users(wLog) \cup ({n} \ {0})
    BY <1>3, <1>9, <2>1, AppendOnce
  <2> QED  BY <1>1, <1>9, <2>2
<1>11. Queue!Users(wLog') = Queue!Users(wLog)'
  OBVIOUS
<1>12. n \notin Range(rest)
  BY <1>3
<1>13. Waiting'
  BY <1>1, <1>2, <1>3, <1>5, <1>6, <1>7, <1>8, <1>10, <1>11, <1>12 DEF QueueInv, Places, Waiting, Precede
<1>14. Recorded'
  <2>1. InOrder(wLog, Messages \cap QueuedOnes)' /\ OnceEach(wLog)'
    BY <1>6, <1>10
  <2>2. \A k \in Queue!Users(wLog) \cap Messages \cap QueuedOnes,
  m \in (Range(wItems) \cap Messages) \cap QueuedOnes : k < m
    BY DEF QueueInv, Places, Recorded, Precede
  <2>3. ASSUME NEW k \in (Queue!Users(wLog) \cup {n}) \cap Messages \cap QueuedOnes,
               NEW m \in ((Range(wItems) \cup Range(rest)) \cap Messages) \cap QueuedOnes
        PROVE  k < m
    BY <1>3, <1>5, <2>2
  <2>4. Precede(Queue!Users(wLog)' \cap Messages' \cap QueuedOnes',
                ((Range(wItems') \cup Todo("inject")' \cup Booting') \cap Messages') \cap QueuedOnes')
    BY <1>1, <1>6, <1>8, <1>10, <1>11, <2>3 DEF Precede
  <2>5. Queue!Users(wLog)' \subseteq wElsewhere' /\ wElsewhere' \subseteq DOMAIN wEntries'
    BY <1>1, <1>3, <1>5, <1>10, <1>11 DEF QueueInv, Places, Recorded
  <2> QED  BY <1>8, <2>1, <2>4, <2>5 DEF Recorded, Precede
<1>15. Started'
  BY <1>1, <1>6, <1>8 DEF QueueInv, Places, Started, Precede
<1>16. Kept'
  BY <1>1, <1>3, <1>5, <1>7 DEF QueueInv, Places, Kept
<1>17. QueueTypes' /\ Hands'
  BY <1>1, <1>4, <1>7, <1>10 DEF QueueInv, QueueTypes, Hands
<1>18. Taken'
  BY <1>1, <1>4, <1>7 DEF QueueInv, Taken, Hands, Queue!Busy
<1>19. Remembered'
  BY <1>1, <1>4, <1>7, SameEntries, RememberedKept DEF QueueInv, QueueTypes
<1> QED  BY <1>13, <1>14, <1>15, <1>16, <1>17, <1>18, <1>19 DEF QueueInv, Places

-----------------------------------------------------------------------------
(* Regenerations.                                                            *)

\* A regeneration takes the host, and leaves the queue released if it was.
LEMMA RegenerateKeeps ==
  ASSUME QueueInv, Queue!Regenerate
  PROVE  QueueInv'
<1>1. PICK n \in Queue!Users(wLog) :
        \/ /\ wTurn' = [Queue!NoTurn EXCEPT !.kind = "regenerate", !.stage = "fork", !.prompt = n]
           /\ wInterrupted' = "no" /\ wReady' = wReady
        \/ wReady' = "no" /\ wTurn' = wTurn /\ wInterrupted' = wInterrupted /\ wAsked' = wAsked
  BY DEF Queue!Regenerate, Queue!NotInterrupted, Queue!Block
<1>2. /\ ~Queue!Busy
      /\ wEntries' = wEntries /\ wDraft' = wDraft /\ wItems' = wItems /\ wCaptured' = wCaptured
      /\ wExecuting' = wExecuting /\ wLog' = wLog /\ wConversation' = wConversation /\ wRan' = wRan
      /\ wElsewhere' = wElsewhere
  BY DEF Queue!Regenerate
<1>3. LogKept
  BY <1>2, SameLog
<1>4. /\ wTurn.kind = "none" /\ wTurn.stage = "none" /\ wTurn.todo = <<>>
      /\ Range(wTurn.todo) = {} /\ Todo("commands") = {} /\ Todo("inject") = {} /\ Booting = {}
  BY <1>2, IdleHolds
<1>5. CASE wReady' = "no" /\ wTurn' = wTurn /\ wInterrupted' = wInterrupted /\ wAsked' = wAsked
  <2>1. QueueTypes' /\ Hands' /\ Taken'
    BY <1>2, <1>4, <1>5 DEF QueueInv, QueueTypes, Hands, Taken
  <2>2. Todo("commands")' = Todo("commands") /\ Todo("inject")' = Todo("inject") /\ Booting' = Booting
    BY <1>5 DEF Todo, Booting
  <2>3. Places'
    BY <1>2, <1>3, <1>5, <2>1, <2>2, PlacesKept DEF QueueTypes
  <2> QED  BY <2>1, <2>3 DEF QueueInv
<1>6. CASE /\ wTurn' = [Queue!NoTurn EXCEPT !.kind = "regenerate", !.stage = "fork", !.prompt = n]
           /\ wInterrupted' = "no" /\ wReady' = wReady
  <2>1. /\ wTurn' \in QueueTurns /\ wTurn'.kind = "regenerate" /\ wTurn'.stage = "fork"
        /\ wTurn'.prompt = n /\ wTurn'.by = 0 /\ wTurn'.todo = <<>> /\ ~wTurn'.aborted /\ wTurn'.old = <<>>
    <3>1. <<>> \in Seq(Nat) /\ n \in Nat
      BY QueueFacts
    <3> QED  BY <1>6, <3>1 DEF QueueTurns, Queue!NoTurn
  <2>2. Messages' = Messages /\ Commands' = Commands /\ QueuedOnes' = QueuedOnes
    BY <1>2, SameEntries
  <2>3. /\ Todo("commands")' = {} /\ Todo("inject")' = {} /\ Booting' = {} /\ InOrder(wTurn'.todo, Nat)
        /\ Queue!Users(wLog)' = Queue!Users(wLog)
    BY <1>2, <2>1, EmptyOrder DEF Todo, Booting, Queue!Users
  <2>4. Waiting'
    BY <1>2, <1>4, <2>1, <2>2, <2>3 DEF QueueInv, Places, Waiting, Precede
  <2>5. Recorded'
    <3>1. InOrder(wLog, Messages \cap QueuedOnes)' /\ OnceEach(wLog)'
      BY <1>2, <2>2 DEF QueueInv, Places, Recorded, OnceEach
    <3> QED  BY <1>2, <1>4, <2>2, <2>3, <3>1 DEF QueueInv, Places, Recorded, Precede
  <2>6. Started' /\ Kept'
    BY <1>2, <1>4, <2>1, <2>2, <2>3 DEF QueueInv, Places, Started, Kept, Precede
  <2>7. Remembered'
    <3>1. Queue!Users(wTurn.old)' = {}
      BY <2>1, EmptyOrder DEF Queue!Users
    <3>2. OnceEach(wTurn.old)' /\ InOrder(wTurn.old, Messages \cap QueuedOnes)'
      BY <2>1, EmptyOrder DEF OnceEach
    <3> QED  BY <2>1, <2>3, <3>1, <3>2 DEF Remembered, Precede
  <2>8. n \in wElsewhere
    BY DEF QueueInv, Places, Recorded
  <2>9. QueueTypes' /\ Hands'
    BY <1>2, <1>6, <2>1, <2>8 DEF QueueInv, QueueTypes, Hands
  <2>10. Taken'
    BY <1>6, <2>1 DEF Taken
  <2> QED  BY <2>4, <2>5, <2>6, <2>7, <2>9, <2>10 DEF QueueInv, Places
<1> QED  BY <1>1, <1>5, <1>6

\* It reads the conversation up to its prompt, or ends.
LEMMA ForkKeeps ==
  ASSUME QueueInv, Queue!Fork
  PROVE  QueueInv'
<1>1. /\ wTurn.stage = "fork"
      /\ wEntries' = wEntries /\ wDraft' = wDraft /\ wItems' = wItems /\ wCaptured' = wCaptured
      /\ wLog' = wLog /\ wRan' = wRan /\ wElsewhere' = wElsewhere
      /\ wInterrupted' = wInterrupted /\ wAsked' = wAsked
  BY DEF Queue!Fork, Queue!At
<1>2. wTurn.kind = "regenerate" /\ wTurn.prompt \in Queue!Users(wLog) /\ wTurn \in QueueTurns
  BY <1>1 DEF QueueInv, QueueTypes, Hands, Places, Remembered
<1>3. LogKept
  BY <1>1, SameLog
<1>4. CASE /\ wConversation' = Queue!Users(Queue!UpTo(wTurn.prompt))
           /\ wTurn' = [wTurn EXCEPT !.stage = "boot", !.seen = wConversation']
           /\ wReady' = wReady /\ wExecuting' = wExecuting
  <2>1. wConversation' \in SUBSET Nat
    <3>1. PICK k \in 0..Len(wLog) : Queue!UpTo(wTurn.prompt) = SubSeq(wLog, 1, k)
      BY <1>2, UpToPrefix
    <3>2. wLog \in Seq(Nat) /\ InOrder(wLog, {})
      BY QueueFacts DEF InOrder
    <3>3. Range(SubSeq(wLog, 1, k)) \subseteq Range(wLog) /\ Range(wLog) \subseteq Nat
      BY <3>2, PrefixOrder DEF Range
    <3> QED  BY <1>4, <3>1, <3>3, UsersAre
  <2>2. /\ wTurn' \in QueueTurns /\ wTurn'.kind = wTurn.kind /\ wTurn'.stage = "boot"
        /\ wTurn'.prompt = wTurn.prompt /\ wTurn'.by = wTurn.by /\ wTurn'.todo = wTurn.todo
        /\ wTurn'.aborted = wTurn.aborted /\ wTurn'.old = wTurn.old
    BY <1>2, <1>4, <2>1 DEF QueueTurns
  <2>3. Todo("commands")' = {} /\ Todo("inject")' = {} /\ Booting' = {}
    BY <1>2, <2>2 DEF Todo, Booting
  <2>4. Places'
    BY <1>1, <1>2, <1>3, <2>2, <2>3, PlacesKept
  <2>5. QueueTypes' /\ Hands'
    BY <1>1, <1>2, <1>4, <2>1, <2>2 DEF QueueInv, QueueTypes, Hands
  <2>6. Taken'
    BY <1>1, <1>2, <1>4, <2>2 DEF QueueInv, Taken, Queue!Busy
  <2> QED  BY <2>4, <2>5, <2>6 DEF QueueInv
<1>5. CASE Queue!EndTurn /\ wReady' = "no" /\ wConversation' = wConversation
  <2>1. /\ QueueTypes' /\ Hands' /\ Places'
        /\ ~wTurn'.aborted /\ wTurn'.stage = "none" /\ wTurn'.kind = "none"
    <3>1. /\ wDraft' \in Queue!Input \cup {Queue!Nothing} /\ wConversation' \in SUBSET Nat
          /\ wCaptured' \in Nat /\ wReady' \in {"no", "turn", "command"}
      BY <1>1, <1>5 DEF QueueInv, QueueTypes
    <3> QED  BY <1>1, <1>3, <1>5, <3>1, EndKeeps
  <2>2. Taken'
    BY <1>5, <2>1 DEF Taken
  <2> QED  BY <2>1, <2>2 DEF QueueInv
<1> QED  BY <1>4, <1>5 DEF Queue!Fork, Queue!Block

\* It ends without a result: what the log held before its fork comes back, or
\* does not.
LEMMA EndRegenerationKeeps ==
  ASSUME QueueInv, Queue!EndRegeneration
  PROVE  QueueInv'
<1>1. /\ wTurn.kind = "regenerate" /\ wTurn.stage \in {"boot", "provider", "inject"}
      /\ wTurn' = [wTurn EXCEPT !.stage = "reload", !.todo = <<>>, !.old = <<>>]
      /\ wLog' \in {wLog, wTurn.old, Queue!Answered}
      /\ wEntries' = wEntries /\ wDraft' = wDraft /\ wItems' = wItems /\ wReady' = wReady
      /\ wCaptured' = wCaptured /\ wExecuting' = wExecuting /\ wConversation' = wConversation
      /\ wRan' = wRan /\ wElsewhere' = wElsewhere /\ wInterrupted' = wInterrupted /\ wAsked' = wAsked
  BY DEF Queue!EndRegeneration, Queue!At
<1>2. /\ wTurn' \in QueueTurns /\ wTurn'.kind = "regenerate" /\ wTurn'.stage = "reload"
      /\ wTurn'.prompt = wTurn.prompt /\ wTurn'.by = wTurn.by /\ wTurn'.todo = <<>>
      /\ wTurn'.aborted = wTurn.aborted /\ wTurn'.old = <<>>
  <2>1. wTurn \in QueueTurns /\ <<>> \in Seq(Nat)
    BY DEF QueueInv, QueueTypes
  <2> QED  BY <1>1, <2>1 DEF QueueTurns
<1>3. Todo("commands")' = {} /\ Todo("inject")' = {} /\ Booting' = {}
  BY <1>2 DEF Todo, Booting
<1>4. Range(wTurn.todo) \subseteq wElsewhere
  <2>1. CASE wTurn.stage = "inject"
    BY <2>1 DEF QueueInv, Places, Waiting, Todo
  <2>2. CASE wTurn.stage # "inject"
    <3>1. wTurn.todo = <<>>
      BY <1>1, <2>2 DEF QueueInv, Hands
    <3> QED  BY <3>1 DEF Range
  <2> QED  BY <2>1, <2>2
<1>5. Hands' /\ Taken'
  BY <1>1, <1>2 DEF QueueInv, Hands, Taken, Queue!Busy
<1>6. CASE wLog' \in {wLog, Queue!Answered}
  <2>1. LogKept
    BY <1>6, SameLog, LogAnswered
  <2>2. Places'
    BY <1>1, <1>2, <1>3, <1>4, <2>1, PlacesKept
  <2>3. QueueTypes'
    BY <1>1, <1>2, <2>1 DEF QueueInv, QueueTypes, LogKept
  <2> QED  BY <1>5, <2>2, <2>3 DEF QueueInv
<1>7. CASE wLog' = wTurn.old
  <2>1. wTurn.old \in Seq(Nat)
    BY DEF QueueInv, QueueTypes, QueueTurns
  <2>2. QueueTypes'
    BY <1>1, <1>2, <1>7, <2>1 DEF QueueInv, QueueTypes
  <2>3. Messages' = Messages /\ Commands' = Commands /\ QueuedOnes' = QueuedOnes
    BY <1>1, SameEntries
  <2>4. Queue!Users(wLog)' = Queue!Users(wTurn.old)
    BY <1>7 DEF Queue!Users
  <2>5. InOrder(wTurn'.todo, Nat)
    BY <1>2, EmptyOrder
  <2>6. Waiting'
    BY <1>1, <1>3, <2>3, <2>5 DEF QueueInv, Places, Waiting, Precede
  <2>7. Recorded'
    <3>1. InOrder(wLog, Messages \cap QueuedOnes)' /\ OnceEach(wLog)'
      BY <1>7, <2>3 DEF QueueInv, Places, Remembered, OnceEach
    <3> QED  BY <1>1, <1>3, <2>3, <2>4, <3>1 DEF QueueInv, Places, Recorded, Remembered, Precede
  <2>8. Started'
    BY <1>1, <1>3, <2>3 DEF QueueInv, Places, Started, Precede
  <2>9. Kept'
    BY <1>1, <1>4 DEF QueueInv, Places, Kept
  <2>10. Remembered'
    BY <1>2, NothingRemembered
  <2> QED  BY <1>5, <2>2, <2>6, <2>7, <2>8, <2>9, <2>10 DEF QueueInv, Places
<1> QED  BY <1>1, <1>6, <1>7

\* The branch is read again and the host is free.
LEMMA ReloadKeeps ==
  ASSUME QueueInv, Queue!Reload
  PROVE  QueueInv'
<1>1. /\ wTurn.stage = "reload" /\ Queue!EndTurn
      /\ wConversation' \in {wConversation, Queue!Users(wLog)}
      /\ \/ wInterrupted' = "regeneration" /\ wReady' = wReady
         \/ wInterrupted' = "no" /\ wReady' = "no"
      /\ wEntries' = wEntries /\ wDraft' = wDraft /\ wItems' = wItems /\ wCaptured' = wCaptured
      /\ wLog' = wLog /\ wRan' = wRan /\ wElsewhere' = wElsewhere
  BY DEF Queue!Reload, Queue!At, Queue!Block, Queue!NotInterrupted
<1>2. LogKept
  BY <1>1, SameLog
<1>3. /\ QueueTypes' /\ Hands' /\ Places'
      /\ ~wTurn'.aborted /\ wTurn'.stage = "none" /\ wTurn'.kind = "none"
  <2>1. /\ wDraft' \in Queue!Input \cup {Queue!Nothing} /\ wConversation' \in SUBSET Nat
        /\ wCaptured' \in Nat /\ wReady' \in {"no", "turn", "command"}
    BY <1>1, UsersCount DEF QueueInv, QueueTypes
  <2> QED  BY <1>1, <1>2, <2>1, EndKeeps
<1>4. Taken'
  BY <1>1, <1>3 DEF Taken
<1> QED  BY <1>3, <1>4 DEF QueueInv

-----------------------------------------------------------------------------
(* The specification.                                                        *)

\* A new process has an empty queue.
LEMMA QueueStarts ==
  ASSUME Queue!Init
  PROVE  QueueInv
<1>1. /\ wEntries = <<>> /\ wDraft = Queue!Nothing /\ wItems = <<>> /\ wReady = "no" /\ wCaptured = 0
      /\ wExecuting = {} /\ wLog = <<>> /\ wConversation = {} /\ wRan = <<>> /\ wElsewhere = {}
  BY DEF Queue!Init
<1>2. /\ wTurn \in QueueTurns /\ wTurn.kind = "none" /\ wTurn.stage = "none" /\ wTurn.prompt = 0
      /\ wTurn.by = 0
      /\ wTurn.todo = <<>> /\ ~wTurn.aborted /\ wTurn.old = <<>>
  <2>1. <<>> \in Seq(Nat)
    OBVIOUS
  <2> QED  BY <2>1 DEF QueueTurns, Queue!Init, Queue!NoTurn
<1>3. QueueTypes
  <2>1. <<>> \in Seq(Nat) /\ <<>> \in Seq([input : Queue!Input, queued : BOOLEAN])
    OBVIOUS
  <2> QED  BY <1>1, <1>2, <2>1 DEF QueueTypes
<1>4. Todo("commands") = {} /\ Todo("inject") = {} /\ Booting = {} /\ Range(wTurn.todo) = {}
  BY <1>2, EmptyOrder DEF Todo, Booting
<1>5. Hands /\ Taken
  BY <1>1, <1>2 DEF Hands, Taken
<1>6. InOrder(wItems, Messages) /\ InOrder(wItems, Commands) /\ InOrder(wTurn.todo, Nat)
      /\ InOrder(wLog, Messages \cap QueuedOnes) /\ OnceEach(wLog) /\ InOrder(wRan, QueuedOnes)
      /\ Range(wItems) = {} /\ Range(wRan) = {} /\ Queue!Users(wLog) = {}
      /\ InOrder(wTurn.old, Messages \cap QueuedOnes) /\ OnceEach(wTurn.old) /\ Queue!Users(wTurn.old) = {}
  BY <1>1, <1>2, EmptyOrder
<1>7. IsInjective(wRan) /\ DOMAIN wEntries = {}
  BY <1>1 DEF IsInjective
<1>8. Places
  BY <1>1, <1>2, <1>4, <1>6, <1>7 DEF Places, Waiting, Recorded, Remembered, Started, Kept, Precede
<1> QED  BY <1>3, <1>5, <1>8 DEF QueueInv

\* Every step of the queue keeps the invariant.
LEMMA QueueStep ==
  ASSUME QueueInv, Queue!Next
  PROVE  QueueInv'
<1>1. CASE Queue!Type \/ Queue!EnqueueInput \/ Queue!Recall \/ Queue!Escape
  BY <1>1, TypeKeeps, EnqueueInputKeeps, RecallKeeps, EscapeKeeps
<1>2. CASE Queue!EnterPrompt \/ Queue!EnterCommand \/ Queue!Drain \/ Queue!SubmitSkillPrompt
  BY <1>2, EnterPromptKeeps, EnterCommandKeeps, DrainKeeps, SubmitSkillPromptKeeps
<1>3. CASE Queue!Settle \/ Queue!Deliver \/ Queue!Decide \/ Queue!Boot \/ Queue!Round
  BY <1>3, SettleKeeps, DeliverKeeps, DecideKeeps, BootKeeps, RoundKeeps
<1>4. CASE Queue!RunBoundaryCommand \/ Queue!TakeMessages \/ Queue!Inject
  BY <1>4, RunBoundaryCommandKeeps, TakeMessagesKeeps, InjectKeeps
<1>5. CASE Queue!Complete \/ Queue!FinishWork \/ Queue!Fail \/ Queue!Interrupt \/ Queue!Rebuild
  BY <1>5, CompleteKeeps, FinishWorkKeeps, FailKeeps, InterruptKeeps, RebuildKeeps
<1>6. CASE Queue!Regenerate \/ Queue!Fork \/ Queue!EndRegeneration \/ Queue!Reload
  BY <1>6, RegenerateKeeps, ForkKeeps, EndRegenerationKeeps, ReloadKeeps
<1> QED  BY <1>1, <1>2, <1>3, <1>4, <1>5, <1>6 DEF Queue!Next

\* So does a step of another part.
LEMMA QueueStutter ==
  ASSUME QueueInv, UNCHANGED queueVars
  PROVE  QueueInv'
<1>1. /\ wEntries' = wEntries /\ wDraft' = wDraft /\ wItems' = wItems /\ wReady' = wReady
      /\ wCaptured' = wCaptured
      /\ wTurn' = wTurn /\ wExecuting' = wExecuting /\ wLog' = wLog
      /\ wConversation' = wConversation /\ wRan' = wRan /\ wElsewhere' = wElsewhere
      /\ wInterrupted' = wInterrupted /\ wAsked' = wAsked
  BY DEF queueVars
<1>2. LogKept
  BY <1>1, SameLog
<1>3. Todo("commands")' = Todo("commands") /\ Todo("inject")' = Todo("inject") /\ Booting' = Booting
  BY <1>1 DEF Todo, Booting
<1>4. QueueTypes' /\ Hands' /\ Taken'
  BY <1>1 DEF QueueInv, QueueTypes, Hands, Taken, Queue!Busy, Queue!Users
<1>5. Places'
  BY <1>1, <1>2, <1>3, <1>4, PlacesKept DEF QueueTypes
<1> QED  BY <1>4, <1>5 DEF QueueInv

\* The invariant implies the property.
LEMMA QueueSafe ==
  ASSUME QueueInv
  PROVE  Queue!QueueServed
<1>1. /\ wItems \in Seq(Nat) /\ wLog \in Seq(Nat) /\ wRan \in Seq(Nat) /\ wTurn.todo \in Seq(Nat)
      /\ IsInjective(wItems) /\ Messages \cap Commands = {} /\ 0 \notin DOMAIN wEntries
      /\ Messages \subseteq DOMAIN wEntries
      /\ \A s : Queue!Range(s) = Range(s) /\ Queue!IsInjective(s) = IsInjective(s)
  BY QueueFacts, QueueNames
<1>2. Queue!EntriesKept
  BY <1>1 DEF Queue!EntriesKept, QueueInv, Places, Kept
<1>3. Queue!Of({"message"}, wLog) = Only(wLog, Messages)
/\ Queue!Of(Queue!Input, wLog) = Only(wLog, Queue!Is(Queue!Input))
  BY QueueNames DEF Queue!Of, Messages
<1>4. 0 \notin Queue!Is(Queue!Input) /\ 0 \notin Messages
  BY <1>1 DEF Queue!Is
<1>5. OnceEach(wLog)
  BY DEF QueueInv, Places, Recorded
<1>6. /\ Only(wLog, Messages) \in Seq(Nat) /\ IsInjective(Only(wLog, Messages))
      /\ Range(Only(wLog, Messages)) = Range(wLog) \cap Messages
      /\ IsInjective(Only(wLog, Queue!Is(Queue!Input)))
  BY <1>1, <1>4, <1>5, OnlyOnce, OnlyProperties
<1>7. IsInjective(wTurn.todo) /\ InOrder(wTurn.todo, Nat)
  <2>1. InOrder(wTurn.todo, Nat) /\ InOrder(wTurn.todo, {}) /\ Range(wTurn.todo) \subseteq Nat \cup {}
    BY <1>1 DEF QueueInv, Places, Waiting, InOrder, Range
  <2> QED  BY <1>1, <2>1, OrderInjective
<1>8. /\ Range(wTurn.todo) \cap Range(wItems) = {} /\ Range(wTurn.todo) \cap Range(wRan) = {}
      /\ Range(wTurn.todo) \cap Queue!Users(wLog) \cap Messages = {}
  <2>1. CASE wTurn.stage = "commands"
    <3>1. Todo("commands") = Range(wTurn.todo)
      BY <2>1 DEF Todo
    <3> QED  BY <1>1, <3>1 DEF QueueInv, Places, Waiting
  <2>2. CASE wTurn.stage = "inject"
    <3>1. Todo("inject") = Range(wTurn.todo)
      BY <2>2 DEF Todo
    <3> QED  BY <1>1, <3>1 DEF QueueInv, Places, Waiting, Started
  <2>3. CASE wTurn.stage \notin {"commands", "inject"}
    <3>1. Range(wTurn.todo) = {}
      BY <2>3, EmptyOrder DEF QueueInv, Hands
    <3> QED  BY <3>1
  <2> QED  BY <2>1, <2>2, <2>3
<1>9. /\ Range(wItems) \cap Range(wRan) = {} /\ Range(wItems) \cap Queue!Users(wLog) = {}
      /\ IsInjective(wRan) /\ Queue!Users(wLog) = Range(wLog) \ {0}
  BY UsersAre DEF QueueInv, Places, Waiting, Recorded, Started
<1>10. /\ wItems \o wTurn.todo \in Seq(Nat) /\ IsInjective(wItems \o wTurn.todo)
       /\ Range(wItems \o wTurn.todo) = Range(wItems) \cup Range(wTurn.todo)
  BY <1>1, <1>7, <1>8, ConcatInjective, ConcatRange
<1>11. IsInjective(wItems \o wTurn.todo \o Only(wLog, Messages))
  <2>1. Range(wItems \o wTurn.todo) \cap Range(Only(wLog, Messages)) = {}
    BY <1>4, <1>6, <1>8, <1>9, <1>10
  <2> QED  BY <1>6, <1>10, <2>1, ConcatInjective
<1>12. IsInjective(wItems \o wTurn.todo \o wRan)
  <2>1. Range(wItems \o wTurn.todo) \cap Range(wRan) = {}
    BY <1>8, <1>9, <1>10
  <2> QED  BY <1>1, <1>9, <1>10, <2>1, ConcatInjective
<1>13. Queue!ServedOnce
  BY <1>1, <1>3, <1>6, <1>11, <1>12 DEF Queue!ServedOnce
<1>14. \A s : Queue!Queued(s) = Only(s, QueuedOnes)
  BY QueueNames DEF Queue!Queued, QueuedOnes
<1>15. ASSUME NEW s \in Seq(Nat), NEW K, InOrder(s, K \cap QueuedOnes), Range(s) \subseteq K
       PROVE  Queue!Ascends(Only(s, QueuedOnes))
  <2>1. InOrder(Only(s, QueuedOnes), K \cap QueuedOnes)
  /\ Range(Only(s, QueuedOnes)) \subseteq K \cap QueuedOnes
    BY <1>15, OnlyOrder, OnlyProperties
  <2> QED  BY <2>1 DEF InOrder, Range, Queue!Ascends
<1>16. Queue!Ascends(Only(Only(wLog, Messages), QueuedOnes))
  <2>1. InOrder(Only(wLog, Messages), Messages \cap QueuedOnes)
    BY <1>1, OnlyOrder DEF QueueInv, Places, Recorded
  <2> QED  BY <1>6, <1>15, <2>1
<1>17. Queue!Ascends(Only(wRan, QueuedOnes))
  <2>1. InOrder(wRan, Range(wRan) \cap QueuedOnes)
    BY DEF QueueInv, Places, Started, InOrder
  <2> QED  BY <1>1, <1>15, <2>1
<1>18. Queue!QueueOrder
  BY <1>3, <1>14, <1>16, <1>17 DEF Queue!QueueOrder
<1> QED  BY <1>2, <1>13, <1>18 DEF Queue!QueueServed

\* What a step sends is not the head of the queue.
LEMMA NotSent ==
  ASSUME QueueInv, wItems # <<>>,
         wTurn'.prompt \in wElsewhere \cup Range(wRan) \cup {0, Queue!Entered},
         wTurn'.by \in Range(wRan) \cup {0, Queue!Entered},
         wExecuting' \subseteq Range(wRan) \cup {Queue!Entered}
  PROVE  ~Queue!Sent(Head(wItems))
<1>1. wItems \in Seq(Nat) /\ Len(wEntries) \in Nat /\ DOMAIN wEntries = 1..Len(wEntries)
      /\ Range(wItems) \subseteq DOMAIN wEntries
  BY QueueFacts
<1>2. Head(wItems) \in Range(wItems)
  BY <1>1, TailRange
<1>3. Head(wItems) \notin wElsewhere \cup Range(wRan)
  BY <1>2 DEF QueueInv, Places, Waiting
<1>4. Head(wItems) \notin {0, Queue!Entered}
  BY <1>1, <1>2 DEF Queue!Entered
<1> QED  BY <1>3, <1>4 DEF Queue!Sent

\* What a step sends from the queue after an interrupted turn is the entry that
\* was its head at Escape.
LEMMA HeadSent ==
  ASSUME QueueInv, Queue!Next, wInterrupted = "turn", wReady # "command", wItems # <<>>,
         Queue!Sent(Head(wItems))
  PROVE  Head(wItems) = wAsked /\ wConversation = Queue!Users(wLog)
<1>1. /\ wTurn.prompt \in wElsewhere \cup {0} /\ wTurn.by \in Range(wRan) \cup {0}
      /\ wExecuting \subseteq Range(wRan)
      /\ wTurn \in QueueTurns
  BY DEF QueueInv, QueueTypes, Hands
<1>2. CASE Queue!Drain
  <2>1. wReady = "turn"
    BY <1>2 DEF Queue!Drain, Queue!DrainDue, QueueInv, QueueTypes
  <2> QED  BY <2>1 DEF QueueInv, Taken
<1>3. CASE wTurn' = wTurn /\ wExecuting' \subseteq wExecuting
  BY <1>1, <1>3, NotSent
<1>4. CASE Queue!EndTurn
  <2>1. wTurn'.prompt = 0 /\ wTurn'.by = 0 /\ wExecuting' = wExecuting \cup ({wTurn.by} \ {0})
    BY <1>4 DEF Queue!EndTurn, Queue!NoTurn
  <2> QED  BY <1>1, <2>1, NotSent
<1>5. CASE wTurn'.prompt \in {wTurn.prompt, 0} /\ wTurn'.by \in {wTurn.by, 0} /\ wExecuting' = wExecuting
  BY <1>1, <1>5, NotSent
<1>6. CASE Queue!Type \/ Queue!EnqueueInput \/ Queue!Recall \/ Queue!Settle
  <2>1. wTurn' = wTurn /\ wExecuting' \subseteq wExecuting
    BY <1>6 DEF Queue!Type, Queue!EnqueueInput, Queue!Recall, Queue!Settle
  <2> QED  BY <1>3, <2>1
<1>7. CASE Queue!Complete \/ Queue!FinishWork \/ Queue!Fail
  BY <1>4, <1>7 DEF Queue!Complete, Queue!FinishWork, Queue!Fail
<1>8. CASE Queue!Escape \/ Queue!Round \/ Queue!RunBoundaryCommand \/ Queue!TakeMessages \/ Queue!Inject
  <2>1. wTurn'.prompt = wTurn.prompt /\ wTurn'.by = wTurn.by /\ wExecuting' = wExecuting
    <3>1. CASE Queue!Escape
      BY <1>1, <3>1 DEF Queue!Escape, QueueTurns
    <3>2. CASE Queue!Round
      BY <1>1, <3>2 DEF Queue!Round, Queue!ReachBoundary, QueueTurns
    <3>3. CASE Queue!RunBoundaryCommand
      BY <1>1, <3>3 DEF Queue!RunBoundaryCommand, QueueTurns
    <3>4. CASE Queue!TakeMessages
      BY <1>1, <3>4 DEF Queue!TakeMessages, QueueTurns
    <3>5. CASE Queue!Inject
      BY <1>1, <3>5 DEF Queue!Inject, QueueTurns
    <3> QED  BY <1>8, <3>1, <3>2, <3>3, <3>4, <3>5
  <2> QED  BY <1>5, <2>1
<1>9. CASE Queue!Boot
  <2>1. wTurn'.prompt = wTurn.prompt /\ wTurn'.by = wTurn.by /\ wExecuting' = wExecuting
    BY <1>1, <1>9 DEF Queue!Boot, Queue!ReachBoundary, QueueTurns
  <2> QED  BY <1>5, <2>1
<1>10. CASE Queue!Interrupt
  <2>1. CASE Queue!EndTurn
    BY <1>4, <2>1
  <2>2. CASE wTurn' = [wTurn EXCEPT !.stage = "rebuild", !.todo = <<>>, !.head = wCaptured]
  /\ wExecuting' = wExecuting
    <3>1. wTurn'.prompt = wTurn.prompt /\ wTurn'.by = wTurn.by
      BY <1>1, <2>2 DEF QueueTurns
    <3> QED  BY <1>5, <2>2, <3>1
  <2> QED  BY <1>10, <2>1, <2>2 DEF Queue!Interrupt, Queue!NoTakeover
<1>11. CASE Queue!Rebuild
  BY <1>4, <1>11 DEF Queue!Rebuild, Queue!NoTakeover
<1>12. CASE Queue!Deliver \/ Queue!Decide
  <2>1. wTurn'.prompt = 0 /\ wTurn'.by = 0 /\ wExecuting' = wExecuting
    BY <1>12 DEF Queue!Deliver, Queue!Decide, Queue!NoTurn
  <2> QED  BY <1>5, <2>1
<1>13. CASE Queue!SubmitSkillPrompt
  <2>1. PICK n \in wExecuting : Queue!Begin(n, n) /\ wExecuting' = wExecuting \ {n}
    BY <1>13 DEF Queue!SubmitSkillPrompt
  <2>2. wTurn'.prompt = n /\ wTurn'.by = n
    BY <2>1 DEF Queue!Begin, Queue!NoTurn
  <2> QED  BY <1>1, <2>1, <2>2, NotSent
<1>14. CASE Queue!EnterPrompt
  <2>1. wTurn'.prompt \in {wTurn.prompt, Queue!Entered} /\ wTurn'.by \in {wTurn.by, 0}
  /\ wExecuting' = wExecuting
    BY <1>14 DEF Queue!EnterPrompt, Queue!Begin, Queue!Refuse, Queue!NoTurn
  <2> QED  BY <1>1, <2>1, NotSent
<1>15. CASE Queue!EnterCommand
  <2>1. wTurn' = wTurn \/ (wTurn'.prompt = 0 /\ wTurn'.by = Queue!Entered)
    BY <1>15 DEF Queue!EnterCommand, Queue!Start, Queue!NoTurn
  <2>2. wExecuting' \subseteq wExecuting \cup {Queue!Entered}
    BY <1>15 DEF Queue!EnterCommand, Queue!Start
  <2> QED  BY <1>1, <2>1, <2>2, NotSent
<1>16. CASE Queue!Regenerate
  <2>1. PICK n \in Queue!Users(wLog) :
          \/ wTurn' = [Queue!NoTurn EXCEPT !.kind = "regenerate", !.stage = "fork", !.prompt = n]
          \/ wTurn' = wTurn
    BY <1>16 DEF Queue!Regenerate
  <2>2. wExecuting' = wExecuting /\ n \in wElsewhere
    BY <1>16 DEF Queue!Regenerate, QueueInv, Places, Recorded
  <2>3. wTurn'.prompt \in {n, wTurn.prompt} /\ wTurn'.by \in {0, wTurn.by}
    BY <2>1 DEF Queue!NoTurn
  <2> QED  BY <1>1, <2>2, <2>3, NotSent
<1>17. CASE Queue!Fork
  <2>1. CASE Queue!EndTurn
    BY <1>4, <2>1
  <2>2. CASE wTurn' = [wTurn EXCEPT !.stage = "boot", !.seen = wConversation'] /\ wExecuting' = wExecuting
    <3>1. wTurn'.prompt = wTurn.prompt /\ wTurn'.by = wTurn.by
      BY <1>1, <2>2 DEF QueueTurns
    <3> QED  BY <1>5, <2>2, <3>1
  <2> QED  BY <1>17, <2>1, <2>2 DEF Queue!Fork
<1>18. CASE Queue!EndRegeneration
  <2>1. wTurn'.prompt = wTurn.prompt /\ wTurn'.by = wTurn.by /\ wExecuting' = wExecuting
    BY <1>1, <1>18 DEF Queue!EndRegeneration, QueueTurns
  <2> QED  BY <1>5, <2>1
<1>19. CASE Queue!Reload
  BY <1>4, <1>19 DEF Queue!Reload
<1> QED  BY <1>2, <1>6, <1>7, <1>8, <1>9, <1>10, <1>11, <1>12, <1>13, <1>14, <1>15, <1>16, <1>17, <1>18, <1>19
      DEF Queue!Next

\* The invariant while the queue is the part that moves.
QueueHold == part = "queue" => QueueInv

\* The invariant holds as long as the queue is the part that moves.
LEMMA QueueAlways == Spec => []QueueHold
<1>1. Init => QueueHold
  BY QueueStarts DEF Init, QueueHold
<1>2. QueueHold /\ [Next]_vars => QueueHold'
  <2> SUFFICES ASSUME QueueHold, [Next]_vars, part' = "queue"
               PROVE  QueueInv'
    BY DEF QueueHold
  <2>1. CASE UNCHANGED vars
    BY <2>1, QueueStutter DEF vars, QueueHold
  <2>2. CASE part = "queue" /\ Queue!Next
    BY <2>2, QueueStep DEF QueueHold
  <2>3. CASE Next /\ ~(part = "queue" /\ Queue!Next)
    <3>1. part' = part
      BY <2>3 DEF Next
    <3> QED  BY <2>3, <3>1 DEF Next
  <2> QED  BY <2>1, <2>2, <2>3
<1> QED  BY <1>1, <1>2, PTL DEF Spec

\* Queued input is never lost, doubled or reordered, for every number of
\* entries and whatever tool boundaries, drains, Escapes, failures and recalls
\* interleave: each entry waits, is in a turn's hands, has been started or is
\* in the prompt history, and messages are recorded and commands started in the
\* order of entry (tui/input-queue.ts, queued-work-controller.ts,
\* command-scheduler.ts).
THEOREM QueueSafety == Spec => []QueueServed
<1>1. QueueHold => QueueServed
  BY QueueSafe DEF QueueHold, QueueServed
<1> QED  BY <1>1, QueueAlways, PTL

\* After a turn that ends in handleInterruption the queue moves by itself only
\* for the entry that led it at Escape, and with the conversation of the log, for
\* every number of entries, whatever is entered, recalled, restored or put back
\* and whichever turns, regenerations among them, ran before
\* (queued-work-controller.ts, handleInterruption).  Excepted are a queue that the
\* end of a queued command releases, and the turns that do not end there: of a
\* regeneration it does not hold (EscapeSendsOnlyHead).
THEOREM EscapeSafety == Spec => EscapeSendsHead
<1>1. ASSUME QueueHold, [Next]_vars
      PROVE  [wInterrupted = "turn" /\ wReady # "command" => Queue!SendsHead]_Queue!vars
  <2>1. CASE part = "queue" /\ Queue!Next
    BY <1>1, <2>1, HeadSent DEF QueueHold, Queue!SendsHead
  <2>2. CASE UNCHANGED vars
    BY <2>2 DEF vars, queueVars, Queue!vars
  <2>3. CASE Next /\ ~(part = "queue" /\ Queue!Next)
    <3>1. UNCHANGED queueVars
      BY <2>3 DEF Next
    <3> QED  BY <3>1 DEF queueVars, Queue!vars
  <2> QED  BY <1>1, <2>1, <2>2, <2>3
<1> QED  BY <1>1, QueueAlways, PTL DEF Spec, EscapeSendsHead, Queue!EscapeSendsHead
==============================================================================
